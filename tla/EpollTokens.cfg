SPECIFICATION Spec
CONSTANTS
  Fds <- MCFds
  Tokens = {1, 2}
  Conds <- MCConds
  Wants <- MCWants
  Timeouts <- MCTimeouts
  MaxEvents = 2
  None = None
  Cap = 2
  Hash <- MCHash
  LowWord <- MCNumbers
  Empty = Empty
  Tomb = Tomb
  Smashed = Smashed
  NsPerMs = 10
  WordMax = 63
  IntMax = 3
  MaxWakes = 2
  Half = Half
  KqFds = {1}
INVARIANT DeliveredIsRegistered
CHECK_DEADLOCK FALSE
