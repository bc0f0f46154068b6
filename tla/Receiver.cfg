SPECIFICATION MCFairSpec
CONSTANTS
  Traffic <- MCTraffic
  Transfers <- MCTransfers
  Workers = {w1, w2}
  AbortTimeout = FALSE
  MaxFaults = 0
  Decoders = {d1, d2}
  MaxDecodeFaults = 1
  SlowDecoders = FALSE
  IdCount = 6
  NbPackets = 1
  MinPackets = 1
  MaxSkew = 2
  MaxBatch = 1
  None = None
  MaxRestarts = 2
INVARIANTS
  TypeOK
  FinishedIsCompleteIfClean
PROPERTIES
  ImplementsDelivery
  HandedOverIsFinished
CHECK_DEADLOCK FALSE
