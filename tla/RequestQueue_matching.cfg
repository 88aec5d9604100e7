SPECIFICATION Spec
CONSTANTS
  Callers = {c1, c2}
  NoCaller = NoCaller
  StreamBuffer = 2
  MaxRequests = 2
  MaxItems = 1
INVARIANT MatchingResponse
CHECK_DEADLOCK FALSE
