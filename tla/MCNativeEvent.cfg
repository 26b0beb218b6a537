SPECIFICATION FairSpec
CONSTANTS
  t1 = t1
  t2 = t2
  t3 = t3
  NoThread = NoThread
  Threads <- MCThreads
  MaxSignals = 3
INVARIANTS TypeOK NoLostWakeup NoUseAfterDestroy
PROPERTIES ImplementsAutoReset TokenIsTaken
CHECK_DEADLOCK FALSE
