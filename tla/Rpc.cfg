SPECIFICATION FairSpec
CONSTANTS
  NArgs = 1
  NValues = 1
  OutbufSize = 1
  WireSize = 1
  MaxCalls = 2
CHECK_DEADLOCK FALSE
INVARIANTS
  Inv
  SuccessIsMutual
PROPERTY
  BothComplete
