SPECIFICATION FairSpec
CONSTANTS
  Events <- TwoFds
  MaxTickets = 3
  MaxEvents = 1
  MaxKevents = 2
  MaxPollfds = 4
  None = None
INVARIANT
  Inv
PROPERTIES
  ImplementsSelector
  ReadyIsSelected
