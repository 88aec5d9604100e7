SPECIFICATION MCSpec
CONSTANTS
  Bridges = {tcp}
  PtyBridges = {}
  Workers = {w1}
  MaxBridging = 1
  MaxWork = 1
  MaxFailures = 1
  MaxMail = 1
  Handlers = {h1, h2}
  MaxGen = 2
INVARIANTS
  RadioIsOwned
  StatusIsTrue
PROPERTIES
  RequestReturns
  Recovers
  RequestsReturn
CHECK_DEADLOCK FALSE
