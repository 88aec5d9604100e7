SPECIFICATION FairSpec
CONSTANTS
  Devices = {d1}
  Unknown = Unknown
  Handlers = {h1}
  NoHandler = NoHandler
  MaxSessions = 1
PROPERTY StopStopsSessions
CHECK_DEADLOCK FALSE
