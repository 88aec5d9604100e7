SPECIFICATION Spec
CONSTANTS
  Remotes <- OneRemote
  Nodes = {1}
  EventCap = 2
  DiscoverCap = 1
  MaxOps = 2
  MaxHeard = 2
INVARIANT ExecAnswersCommand
CHECK_DEADLOCK FALSE
