SPECIFICATION MCSpec
CONSTANTS
  IdCount = 6
  NbPackets <- MCNbPackets
  MinPackets <- MCMinPackets
  MaxSkew = 2
  MaxBatch = 2
  MaxBlocks = 8
  MaxRestarts = 3
  Byte = 16
  MaxLayout = 40
  Mtus <- MCMtus
  BlockSizes <- MCBlockSizes
  Percentages = {0, 1, 40, 60, 99, 100}
  ClientIds = {0, 1, 15, 16, 4660, 65535}
INVARIANTS
  TypeOK
  WindowFollowsCurrent
  IgnoredSlotsAreEmpty
  NoErrorSent
  ConsecutiveIds
  InOrderWithoutHole
  KeepsUp
CHECK_DEADLOCK FALSE
