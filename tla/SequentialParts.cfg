SPECIFICATION PartsSpec
CONSTANTS
  MaxNodes = 4
  MaxElements = 6
  Priorities = {1, 2}
  SizeLimit = 2
  RotationDepth = 2
  MaxFailures = 3
  MaxMessages = 4
  MaxRestarts = 1
  Absent = Absent
CHECK_DEADLOCK FALSE
INVARIANTS
  PartsInv
PROPERTIES
  ImplementsAbstract
  LogIsKept
