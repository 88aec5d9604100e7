SPECIFICATION MCSpec
CONSTANTS
  Callers = {c1, c2}
  NoCaller = NoCaller
  StreamBuffer = 1
  MaxRequests = 2
  MaxItems = 1
  Transports = {"serial", "tcp"}
  BootLoss = 2
  LineCap = 3
  MaxQuery = 2
  MaxPushes = 1
  Kinds = {"serial", "ble"}
  Capacity = 2
  MaxFrames = 4
  MaxWrites = 3
  Marker = 1
  MaxLen = 2
  MaxSent = 3
  MaxBody = 160
  TraceBytes = {0, 1, 8, 64, 255}
  ArgLengths = {0, 5, 6, 31, 32, 40}
INVARIANTS
  SingleActiveRequest
  NoFutureResponse
  AnswersAreOwn
  StaleOnlyAfterTimeout
  LinkIsOrderly
  FramesArrive
  FieldsAreSound
  PushesNeverAnswer
PROPERTIES
  CallReturns
  SerialHandshakeEnds
  CloseEnds
CHECK_DEADLOCK FALSE
