\* A stop that never gets there: TLC finds StopFailsClosed violated.
SPECIFICATION FairSpec
CONSTANTS
  Callers = {"unit", "runner"}
  Refusing = {}
  Husks = {}
  Rosters <- MCFullRoster
  MaxCalls = 1
  MaxFaults = 0
  MaxFlaps = 1
  MaxTouches = 0
PROPERTY StopFailsClosed
CHECK_DEADLOCK FALSE
