SPECIFICATION MCSpec
CONSTANTS
  IdCount = 6
  NbPackets <- MCNbPackets
  MinPackets <- MCMinPackets
  MaxSkew = 2
  MaxBatch = 2
  MaxBlocks = 7
  MaxRestarts = 2
  Byte = 16
  MaxLayout = 0
  Mtus = {88}
  BlockSizes = {112}
  Percentages = {0}
  ClientIds = {0}
INVARIANTS
  BlocksAreNotMixed
CHECK_DEADLOCK FALSE
