SPECIFICATION Spec
CONSTANTS
  Callers = {"unit", "runner"}
  Refusing = {}
  Husks = {}
  Rosters <- MCFullRoster
  MaxCalls = 2
  MaxFaults = 0
  MaxFlaps = 0
  MaxTouches = 0
INVARIANT NeverForgotten
CHECK_DEADLOCK FALSE
