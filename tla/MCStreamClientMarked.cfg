\* A string that holds the end of an item: TLC finds DivergentChanges violated.
SPECIFICATION Spec
CONSTANTS
  Calls <- MCPair
  Attempts = 0
  Engines <- MCMarkedEngines
  None = None
INVARIANTS
  DivergentChanges
CHECK_DEADLOCK FALSE
