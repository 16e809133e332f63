SPECIFICATION Spec
CONSTANTS
  Conversations <- MCConversations
  ReaderBits = 5
  EnumBits = 3
  Enumerators = {0, 1, 2, 5}
  WireSize = 2
CHECK_DEADLOCK FALSE
INVARIANT
  Inv
PROPERTY
  ReadingEnds
