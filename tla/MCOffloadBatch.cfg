\* A tier that holds a window of the request but not the request.
SPECIFICATION OffloadSpec
CONSTANTS
  Group = {"full", "half", "odd"}
  Size <- MCSize
  Tier = 10
  FracNum = 1
  FracDen = 4
  Tokens = 24
  Unbounded = Unbounded
PROPERTIES
  CursorsNeverRewind
  StoresCatchUp
CHECK_DEADLOCK FALSE
