\* One checkpoint is enough: TLC finds FoldedIsTonights violated.
SPECIFICATION Spec
CONSTANTS
  Pairs <- MCSoundPairs
  Tps = {2}
  Argvs <- MCArgvs
  Bound = 32
  Kv = 5
  None = None
INVARIANT FoldedIsTonights
CHECK_DEADLOCK FALSE
