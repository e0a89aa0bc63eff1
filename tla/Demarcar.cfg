SPECIFICATION DemSpec
CONSTANTS
  MsgSize = 3
  MaxRecv = 4
  Size = 8
  ReadSize = 4
  MaxBytes = 20
  Endings = {0, 65535}
  MaxCancels = 2
INVARIANTS
  LeftoverBounded
  MessageInStream
PROPERTIES
  DataNeverAborts
