\* One completion in two cuts: TLC finds IdenticalReproduces violated.
SPECIFICATION Spec
CONSTANTS
  Calls <- MCPair
  Attempts = 0
  Engines <- MCTextEngines
  None = None
INVARIANTS
  IdenticalReproduces
CHECK_DEADLOCK FALSE
