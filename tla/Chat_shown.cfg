SPECIFICATION Spec
CONSTANTS
  Sessions = {"ipc"}
  Texts <- OneText
  StreamCap = 1
  MaxMsgs = 1
  MaxClock = 1
INVARIANT ReceivedIsShown
CHECK_DEADLOCK FALSE
