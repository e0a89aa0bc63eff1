SPECIFICATION DemSpec
CONSTANTS
  MsgSize = 3
  MaxRecv = 4
  Size = 8
  ReadSize = 4
  MaxBytes = 20
  Endings = {}
  MaxCancels = 0
INVARIANTS
  MessageIsNext
