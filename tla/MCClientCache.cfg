SPECIFICATION CacheSpec
CONSTANTS
  Callers = {t1, t2, t3}
  Addresses = {a1, a2}
  MaxCachesize = 2
  MaxAge = 2
  Clients = {c1, c2, c3, c4}
  MaxTime = 3
  Nothing = Nothing
SYMMETRY Symmetry
CHECK_DEADLOCK FALSE
INVARIANT
  CacheInv
PROPERTIES
  FitsTheCall
  FailureInvalidates
