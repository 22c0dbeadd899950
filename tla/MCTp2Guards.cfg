\* FN_TP_SIZE as it is and wrong; the bound leaves room for the sound checkpoint and
\* for little more. When the night is over nothing is left to do.
SPECIFICATION Spec
CONSTANTS
  Pairs <- MCPairs
  Tps = {0, 1, 2, 3}
  Argvs <- MCArgvs
  Bound = 32
  Kv = 5
  None = None
INVARIANTS
  ExpertsAreOwnedOnce
  SlicesAreWhole
  RecordIsTonights
CHECK_DEADLOCK FALSE
