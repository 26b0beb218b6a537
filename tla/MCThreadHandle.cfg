SPECIFICATION Spec
CONSTANTS
  Main = Main
  None = None
  c1 = c1
  c2 = c2
  Children <- MCChildren
  Values <- MCValues
INVARIANTS TypeOK FreedByTheLast NothingOutlivesExit FailedJoinLeavesJoinable
PROPERTIES JoinGetsStatus
CHECK_DEADLOCK FALSE
