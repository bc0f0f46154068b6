SPECIFICATION MCFairSpec
CONSTANTS
  Workers = {w1}
  StreamLengths <- MCShortStreams
  BufferLen = 2
  Flush = TRUE
  Heartbeats = 1
  MaxReadFaults = 1
  Oneshot = TRUE
  Encoders = {e1, e2}
  IdCount = 4
  Block <- ProtocolBlock
  None = None
  MaxUdpFaults = 0
INVARIANTS
  StreamIntact
  PermitAvailable
PROPERTY
  EveryTransferEnds
CHECK_DEADLOCK FALSE
