\* The schedule of the night, three loads an arm, over two depths. The script ends
\* and stays ended, so deadlock is not checked.
SPECIFICATION Spec
CONSTANTS
  Loads = 3
  Depths = 2
  Prints = {"p", "q"}
  Silence = "silence"
  Replies <- MCReplies
INVARIANTS
  RowsAreComparable
  GateMeansComplete
  SweepIsBanked
  SuspectsReplayed
PROPERTIES
  DeadStaysDead
  MatrixEnds
CHECK_DEADLOCK FALSE
