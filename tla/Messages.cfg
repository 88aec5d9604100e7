SPECIFICATION MCSpec
CONSTANTS
  Subscribers = {s1, s2}
  Buffers = {0, 2}
  MaxEvents = 3
  EventBuffer = 1
  MaxMail = 2
  MaxRepeats = 1
  MaxExecs = 1
  MaxReads = 2
  Peers = {prefix, key}
  MaxRelabels = 1
  MaxFailures = 1
  Messages = {m1, m2}
  NoMessage = NoMessage
  AckBuffer = 1
  MaxAcks = 2
  MaxStoreFailures = 1
INVARIANTS
  NoSendOnClosed
  LossIsBounded
  MailIsKept
  DeliveryIsTrue
PROPERTIES
  ImplementsLossyChannel
  EmitReturns
  InboxEmptied
  ExecReturns
  DeliveredIsFinal
  CallerReturns
CHECK_DEADLOCK FALSE
