SPECIFICATION ServicesSpec
CONSTANTS
  l1 = l1
  l2 = l2
  h1 = h1
  h2 = h2
  h3 = h3
  None = None
  Launches <- TwoLaunches
  Configs <- DaemonAndForeground
  Handlers <- ThreeHandlers
  MaxSignals = 2
  MaxKills = 1
CHECK_DEADLOCK FALSE
INVARIANTS
  ServicesInv
PROPERTIES
  ParentIsTold
  StopIsHeard
