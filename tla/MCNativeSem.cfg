SPECIFICATION FairSpec
CONSTANTS
  t1 = t1
  t2 = t2
  t3 = t3
  NoThread = NoThread
  Threads <- MCThreads
  Initial = 0
  MaxPosts = 2
  IntMax = 2
INVARIANTS TypeOK NoLostWakeup PermitsConserved NoUseAfterDestroy
PROPERTIES ImplementsCounting PermitIsTaken TimedWaitReturns
CHECK_DEADLOCK FALSE
