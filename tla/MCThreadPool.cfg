SPECIFICATION FairSpec
CONSTANTS
  t1 = t1
  t2 = t2
  t3 = t3
  t4 = t4
  Thread <- FourThreads
  InitThread <- TwoInit
  None = None
  MaxJobs = 2
INVARIANT JobsInOrder
INVARIANT PermitsMatchJobs
PROPERTY JobsRun
PROPERTY DestroyEnds
CHECK_DEADLOCK FALSE
