\* A podman rm that fails in ExecStopPost: TLC finds NeverStranded violated.
SPECIFICATION FairSpec
CONSTANTS
  Callers = {"unit", "runner"}
  Refusing = {}
  Husks = {}
  Rosters <- MCFullRoster
  MaxCalls = 1
  MaxFaults = 0
  MaxFlaps = 0
  MaxTouches = 0
PROPERTY NeverStranded
CHECK_DEADLOCK FALSE
