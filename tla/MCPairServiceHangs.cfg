\* A teardown nobody waits for with a timeout: TLC finds TeardownCompletes violated.
SPECIFICATION FairSpec
CONSTANTS
  Callers = {"unit", "runner"}
  Refusing = {}
  Husks = {}
  Rosters <- MCFullRoster
  MaxCalls = 1
  MaxFaults = 0
  MaxFlaps = 1
  MaxTouches = 0
PROPERTY TeardownCompletes
CHECK_DEADLOCK FALSE
