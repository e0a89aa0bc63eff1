SPECIFICATION Spec
CONSTANTS
  Clients = {c1, c2}
  Managers = {m1, m2}
  Drs = {d1, d2}
  Commands = {"start", "stop_acc", "start_acc", "stop_svc", "start_svc", "stop"}
  MaxMsgs = 1
  Overlap = FALSE
  Prompt = TRUE
  Nil = Nil
  Fresh = Fresh
SYMMETRY Symmetry
INVARIANTS
  OrderlySafe
  AllServed
  ListedOnce
  RecvNeverBlocks
