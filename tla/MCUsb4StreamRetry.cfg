\* A launch after a kill with nothing banked: TLC finds StormFree violated.
SPECIFICATION FairSpec
CONSTANTS
  d0 = d0
  d1 = d1
  wA = wA
  wB = wB
  Device = {d0, d1}
  Wire = {wA, wB}
  Cabling <- MCCabling
  NoWire = NoWire
  Ring = 2
  Iters = 1
  RttFrames <- MCRttFrames
  ExchangeFrames <- MCExchangeFrames
  ThroughputFrames = 3
  MaxRuns = 2
  MaxMoves = 0
PROPERTY StormFree
CHECK_DEADLOCK FALSE
