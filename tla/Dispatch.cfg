SPECIFICATION MCFairSpec
CONSTANTS
  Workers = {w1, w2}
  Transfers <- MCTransfers
  AbortTimeout = TRUE
  MaxFaults = 1
  MaxLost = 1
  None = None
  MaxQueue = 1
INVARIANTS
  TypeOK
  OwnPrefix
  FinishedIsCompleteIfSound
  PermitAvailable
  ActiveIsServed
PROPERTY
  EveryTransferEnds
CHECK_DEADLOCK FALSE
