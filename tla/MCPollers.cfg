SPECIFICATION FairSpec
CONSTANTS
  Fds <- MCFds
  Tokens = {t1, t2}
  Conds <- MCConds
  Wants <- MCWants
  Timeouts <- MCTimeouts
  MaxEvents = 2
  None = None
  Cap = 2
  Hash <- MCHash
  LowWord <- MCOpaque
  Empty = Empty
  Tomb = Tomb
  Smashed = Smashed
  NsPerMs = 10
  WordMax = 63
  IntMax = 3
  MaxWakes = 2
  Half = Half
  KqFds = {1}
INVARIANTS TypeOK EpollMapped KqueueMapped ZeroEventsMeanWakeOrTimeout DeliveredIsRegistered
PROPERTIES DueIsDelivered WakeIsSeen
CHECK_DEADLOCK FALSE
