CONSTANTS
  Fds = {1, 2}
  None = None
  Entries = 2
  Cap = 1
  MaxSeq = 2
  MaxRare = 2
  Conds <- MCConds
  Wants <- MCWants
  Hash <- MCHash
CHECK_DEADLOCK FALSE
SPECIFICATION FairSpec
INVARIANTS
  TypeOK
  CountIsExact
  ArmedIsOutstanding
  EventIsCurrent
  NothingLeaks
PROPERTIES
  WakeEndsWait
