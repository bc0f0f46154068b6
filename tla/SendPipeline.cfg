SPECIFICATION MCSpec
CONSTANTS
  Encoders = {e1, e2, e3}
  IdCount = 4
  Block = {b1}
  None = None
  MaxUdpFaults = 1
  MaxSubmitted = 6
INVARIANTS
  TypeOK
  WireInOrder
  WireIdsConsecutive
  SomeEncoderMayPass
PROPERTY
  ImplementsOrderedPipe
CHECK_DEADLOCK FALSE
