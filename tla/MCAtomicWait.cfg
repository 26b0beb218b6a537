SPECIFICATION FairSpec
CONSTANTS
  t1 = t1
  t2 = t2
  t3 = t3
  a1 = a1
  a2 = a2
  NoThread = NoThread
  Threads <- MCThreads
  Sleepers <- MCSleepers
  Wakers <- MCWakers
  Addrs <- MCAddrs
  Values <- MCValues
  Zero = 0
INVARIANTS TypeOK RecordsAreLive
PROPERTIES ImplementsFutex MarkedReturns
CHECK_DEADLOCK FALSE
