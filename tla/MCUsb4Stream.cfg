\* Ring = 2 is the tightest ring the largest exchange (2 frames) fits in, and
\* ThroughputFrames = 3 overruns it, so every writer blocks at some point.
SPECIFICATION FairSpec
CONSTANTS
  d0 = d0
  d1 = d1
  wA = wA
  wB = wB
  Device = {d0, d1}
  Wire = {wA, wB}
  Cabling <- MCCabling
  NoWire = NoWire
  Ring = 2
  Iters = 1
  RttFrames <- MCRttFrames
  ExchangeFrames <- MCExchangeFrames
  ThroughputFrames = 3
  MaxRuns = 2
  MaxMoves = 1
INVARIANTS
  TypeOK
  NoEarlyLoss
  NoWireDeadlock
  FramesStayInTurn
  OpensFaceEachOther
  ReceiptTruthful
  PeerEvidenceKept
PROPERTIES
  ImplementsOneShot
  RunEnds
  WorkerReleased
CHECK_DEADLOCK FALSE
