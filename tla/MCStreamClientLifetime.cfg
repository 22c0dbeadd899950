\* A first scrape that lacks a histogram: TLC finds NoLifetimeMean violated.
SPECIFICATION Spec
CONSTANTS
  Calls <- MCPair
  Attempts = 0
  Engines <- MCLateEngines
  None = None
INVARIANTS
  NoLifetimeMean
CHECK_DEADLOCK FALSE
