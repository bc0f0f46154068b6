SPECIFICATION MCSpec
CONSTANTS
  Workers = {w1}
  StreamLengths <- MCOneStream
  BufferLen = 2
  Flush = FALSE
  Heartbeats = 0
  MaxReadFaults = 0
  Oneshot = TRUE
  Encoders = {e1}
  IdCount = 4
  Block <- ProtocolBlock
  None = None
  MaxUdpFaults = 0
INVARIANTS
  OneshotSendsEverything
CHECK_DEADLOCK FALSE
