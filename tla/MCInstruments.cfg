\* A warmup of one, a window of two and a cache of one object, so that the window
\* closes early, late and never. A process that has exited need not be followed.
SPECIFICATION Spec
CONSTANTS
  Start = 1
  Window = 2
  Interval = 4
  Depth = 2
  CacheMax = 1
  Ids = {1, 2}
  Objects <- MCObjects
  Stacks <- MCStacks
  Rank = 1
  MaxCalls = 4
  MaxTrouble = 1
  MaxLives = 2
  None = None
INVARIANTS
  LayersAreTrue
  GapsAreTrue
  ShutdownLeavesBoth
CHECK_DEADLOCK FALSE
