\* Batches with fewer and with more requests than workers, and the clamped empty one.
\* When the call has ended nothing is left to do.
SPECIFICATION Spec
CONSTANTS
  Calls <- MCCalls
  Attempts = 1
  Engines <- MCEngines
  None = None
INVARIANTS
  EveryRequestAccounted
  SplitIsMeasured
  FingerprintsTell
PROPERTIES
  ClientEnds
CHECK_DEADLOCK FALSE
