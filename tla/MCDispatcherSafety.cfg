SPECIFICATION Spec
CONSTANTS
  Clients = {c1, c2, c3}
  None = None
  MaxConcurrentRequests = 2
  MaxConnections = 1
  MaxRequests = 1
  MaxSignals = 1
SYMMETRY Symmetry
INVARIANTS
  IInv
  SomebodyMonitors
  RunLeavesNothing
PROPERTY
  ImplementsRequestServer
