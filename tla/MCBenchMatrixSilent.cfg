\* One depth is enough, and one of two loads that is silent in part: TLC finds
\* NoSuspectUnexamined violated.
SPECIFICATION Spec
CONSTANTS
  Loads = 2
  Depths = 1
  Prints = {"p", "q"}
  Silence = "silence"
  Replies <- MCReplies
INVARIANT NoSuspectUnexamined
CHECK_DEADLOCK FALSE
