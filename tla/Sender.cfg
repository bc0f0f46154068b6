SPECIFICATION MCSpec
CONSTANTS
  Workers = {w1, w2}
  StreamLengths <- MCStreamLengths
  BufferLen = 2
  Flush = FALSE
  Heartbeats = 1
  MaxReadFaults = 1
  Oneshot = FALSE
  Encoders = {e1, e2}
  IdCount = 4
  Block <- ProtocolBlock
  None = None
  MaxUdpFaults = 1
INVARIANTS
  SenderTypeOK
  StreamIntact
  FullBlocks
