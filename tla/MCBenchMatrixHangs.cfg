\* One load of one depth is enough: TLC finds WaitReadyReturns violated.
SPECIFICATION Spec
CONSTANTS
  Loads = 1
  Depths = 1
  Prints = {"p", "q"}
  Silence = "silence"
  Replies <- MCReplies
PROPERTY WaitReadyReturns
CHECK_DEADLOCK FALSE
