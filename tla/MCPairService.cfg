\* Two calls, so that one may find the pair up or a stale record; one kill
\* or failed write, one loss of the wire and one touch of the proxy by somebody.
SPECIFICATION FairSpec
CONSTANTS
  Callers = {"unit", "runner"}
  Refusing = {"worker"}
  Husks = {"worker"}
  Rosters <- MCRosters
  MaxCalls = 2
  MaxFaults = 1
  MaxFlaps = 1
  MaxTouches = 1
INVARIANTS
  TypeOK
  TakenOnRecord
PROPERTIES
  LaunchIsClear
  RestoreTellsTheTruth
  DownStaysDown
  NoRanksStranded
  ScriptsEnd
CHECK_DEADLOCK FALSE
