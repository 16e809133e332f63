SPECIFICATION FairSpec
CONSTANTS
  MinBytes = 2
  LowTicksLimit = 3
  TickLength = 2
  BufSize = 3
  StreamLength = 5
  Tickets = {1, 2}
  None = None
INVARIANT
  Inv
PROPERTIES
  CalledWhenReady
  SilenceIsReported
