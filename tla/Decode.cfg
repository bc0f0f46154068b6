SPECIFICATION MCFairSpec
CONSTANTS
  Decoders = {d1, d2}
  None = None
  MaxDecodeFaults = 1
  SlowDecoders = FALSE
  IdCount = 5
  NbPackets = 2
  MinPackets = 1
  MaxSkew = 2
  MaxBatch = 1
  MaxBlocks = 7
  MaxRestarts = 3
INVARIANTS
  DecodeTypeOK
  SomeDecoderMayPass
  NoHole
  DispatchedAsSent
PROPERTIES
  ImplementsOrderedPipe
  EveryBlockDispatched
CHECK_DEADLOCK FALSE
