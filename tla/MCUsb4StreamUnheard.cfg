\* A pipe that does not end in kill_peer's second wait: TLC finds EvidenceAlwaysKept violated.
SPECIFICATION Spec
CONSTANTS
  d0 = d0
  d1 = d1
  wA = wA
  wB = wB
  Device = {d0, d1}
  Wire = {wA, wB}
  Cabling <- MCCabling
  NoWire = NoWire
  Ring = 2
  Iters = 1
  RttFrames <- MCRttFrames
  ExchangeFrames <- MCExchangeFrames
  ThroughputFrames = 3
  MaxRuns = 1
  MaxMoves = 0
INVARIANT EvidenceAlwaysKept
CHECK_DEADLOCK FALSE
