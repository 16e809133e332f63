SPECIFICATION FairSpec
CONSTANTS
  Threads = {t1, t2, t3}
  None = None
INVARIANTS
  IInv
  PipeFollowsFlag
PROPERTIES
  ImplementsPriorityLock
  HolderGivesWay
  FreeLockIsTaken
  StopCompletes
