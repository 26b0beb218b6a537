CONSTANTS
  Fibers = {f, g}
  Owners = {f, g}
  Threads = {t, u}
  None = None
  NoBase = NoBase
  Bases = {b1, b2}
  Guard = 1
  MaxUsable = 2
  FirstCap = 1
SYMMETRY Symmetry
SPECIFICATION Spec
CHECK_DEADLOCK FALSE
INVARIANTS
  OneRunner
  RunsOnMappedStack
  StackIsSound
