SPECIFICATION Spec
CONSTANTS
  Messages = {m1}
  NoMessage = NoMessage
  AckBuffer = 1
  MaxAcks = 2
  MaxStoreFailures = 0
INVARIANT AcksAccumulate
CHECK_DEADLOCK FALSE
