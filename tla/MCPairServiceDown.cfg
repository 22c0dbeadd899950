\* A restore from the record of an earlier bring-up: TLC finds DownOnArrivalStaysDown violated.
SPECIFICATION FairSpec
CONSTANTS
  Callers = {"unit", "runner"}
  Refusing = {}
  Husks = {}
  Rosters <- MCFullRoster
  MaxCalls = 2
  MaxFaults = 1
  MaxFlaps = 0
  MaxTouches = 1
PROPERTY DownOnArrivalStaysDown
CHECK_DEADLOCK FALSE
