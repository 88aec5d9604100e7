SPECIFICATION Spec
CONSTANTS
  Bridges = {tcp, pty}
  PtyBridges = {pty}
  Workers = {w1}
  MaxBridging = 2
  MaxWork = 0
  MaxFailures = 0
  MaxMail = 0
INVARIANT OneActiveBridge
CHECK_DEADLOCK FALSE
