\* One depth is enough.
SPECIFICATION Spec
CONSTANTS
  Loads = 3
  Depths = 1
  Prints = {"p", "q"}
  Silence = "silence"
  Replies <- MCReplies
INVARIANT DegradedReceiptPasses
CHECK_DEADLOCK FALSE
