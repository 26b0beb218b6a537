CONSTANTS
  Fds = {1, 2}
  None = None
  Entries = 2
  Cap = 1
  MaxSeq = 3
  MaxRare = 0
  Conds <- MCConds
  Wants <- MCWants
  Hash <- MCHash
CHECK_DEADLOCK FALSE
SPECIFICATION Spec
INVARIANT
  LastTokenWins
