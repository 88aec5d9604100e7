SPECIFICATION Spec
CONSTANTS
  Transports = {"tcp"}
  BootLoss = 1
  LineCap = 3
  MaxQuery = 3
  MaxPushes = 0
PROPERTY ReplyIsTaken
CHECK_DEADLOCK FALSE
