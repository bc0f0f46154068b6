SPECIFICATION FairSpec
CONSTANTS
  Transfers <- MCTransfers
  BufferSize = 2
  MaxFiles = 0
  MaxLength = 4
  MaxDamage = 2
  Absent = Absent
INVARIANTS
  TypeOK
  AcceptedIsSent
  FileIntact
  UndisturbedIsAccepted
PROPERTY
  EveryReceptionEnds
CHECK_DEADLOCK FALSE
