\* Two lanes and three runs of two runners, one of which has a step that may defer
\* and one a step that uses --write. When the bounds are used up the system stops.
SPECIFICATION Spec
CONSTANTS
  Step = {"tp2", "context", "smoke"}
  Runner = {"tp2", "smoke"}
  Plan <- MCPlan
  Direct = {"smoke"}
  Deferring = {"context"}
  Fact = {"fine", "poor"}
  Sound = {"fine"}
  Heads <- MCHeads
  MaxLanes = 2
  MaxRuns = 3
  MaxFaults = 1
INVARIANTS
  Purity
  MirrorComplete
  FailureCostsOneStep
PROPERTIES
  NeverRestamped
  DurableFirst
CHECK_DEADLOCK FALSE
