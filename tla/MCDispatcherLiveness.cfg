SPECIFICATION LivenessSpec
CONSTANTS
  Clients = {c1, c2, c3}
  None = None
  MaxConcurrentRequests = 2
  MaxConnections = 0
  MaxRequests = 1
  MaxSignals = 1
PROPERTIES
  StopReturns
  RequestIsTakenUp
CHECK_DEADLOCK FALSE
