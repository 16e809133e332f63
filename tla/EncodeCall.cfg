SPECIFICATION Spec
CONSTANTS
  MaxFrames = 4
  Lookahead = 2
  WireSize = 2
CHECK_DEADLOCK FALSE
INVARIANT
  Inv
PROPERTY
  EncodeEnds
