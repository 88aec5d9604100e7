SPECIFICATION MCSpec
CONSTANTS
  Devices = {d1, d2}
  Unknown = Unknown
  Handlers = {h1, h2}
  NoHandler = NoHandler
  MaxSessions = 3
  Remotes <- TwoRemotes
  Nodes = {0, 1}
  EventCap = 2
  DiscoverCap = 2
  MaxOps = 2
  MaxHeard = 3
  Sessions = {"ipc", "direct", "channel", "live channel"}
  Texts <- OneText
  StreamCap = 1
  MaxMsgs = 2
  MaxClock = 2
  Procs = {p1, p2}
  Profiles = {1, 2}
  MaxDaemons = 2
INVARIANTS
  SessionsAreTracked
  AnswerIsOwn
  
  ScreenIsHonest
  CommandsTellTruth
CHECK_DEADLOCK FALSE
SYMMETRY Interchangeable
