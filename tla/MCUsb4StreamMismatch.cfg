SPECIFICATION Spec
CONSTANTS
  d0 = d0
  d1 = d1
  wA = wA
  wB = wB
  Device = {d0, d1}
  Wire = {wA, wB}
  Cabling <- MCCabling
  NoWire = NoWire
  Ring = 2
  Iters = 1
  RttFrames <- MCRttFrames
  ExchangeFrames <- MCExchangeFrames
  ThroughputFrames = 3
  MaxRuns = 1
  MaxMoves = 1
INVARIANT NoMismatchedOpen
CHECK_DEADLOCK FALSE
