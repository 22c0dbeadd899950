\* One checkpoint, whose indexer is what this is about: TLC finds EveryCutIsAtABlock
\* violated.
SPECIFICATION Spec
CONSTANTS
  Pairs <- MCFusedPairs
  Tps = {2}
  Argvs <- MCArgvs
  Bound = 32
  Kv = 5
  None = None
INVARIANT EveryCutIsAtABlock
CHECK_DEADLOCK FALSE
