\* As MCInstruments.cfg, of the rows of the dump: TLC finds DumpRowsAreWhole violated.
SPECIFICATION Spec
CONSTANTS
  Start = 1
  Window = 2
  Interval = 4
  Depth = 2
  CacheMax = 1
  Ids = {1, 2}
  Objects <- MCObjects
  Stacks <- MCStacks
  Rank = 1
  MaxCalls = 4
  MaxTrouble = 1
  MaxLives = 2
  None = None
INVARIANT DumpRowsAreWhole
CHECK_DEADLOCK FALSE
