\* The same lanes, runs and faults.
SPECIFICATION Spec
CONSTANTS
  Step = {"tp2", "context", "smoke"}
  Runner = {"tp2", "smoke"}
  Plan <- MCPlan
  Direct = {"smoke"}
  Deferring = {"context"}
  Fact = {"fine", "poor"}
  Sound = {"fine"}
  Heads <- MCHeads
  MaxLanes = 2
  MaxRuns = 3
  MaxFaults = 1
PROPERTY DurableKeepsNewest
CHECK_DEADLOCK FALSE
