CONSTANTS
  Threads = {a, b}
  Values = {v}
  None = None
  Keys = {k1, k2}
  MaxIds = 3
  InitCap = 1
SPECIFICATION Spec
INVARIANTS
  TypeOK
  KeyHasOneOwner
  ReachesOwnValue
