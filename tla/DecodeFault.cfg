SPECIFICATION MCFairSpec
CONSTANTS
  Decoders = {d1, d2}
  None = None
  MaxDecodeFaults = 1
  SlowDecoders = FALSE
  IdCount = 5
  NbPackets = 2
  MinPackets = 1
  MaxSkew = 1
  MaxBatch = 1
  MaxBlocks = 8
  MaxRestarts = 2
PROPERTY
  RestartRecovers
CHECK_DEADLOCK FALSE
