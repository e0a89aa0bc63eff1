SPECIFICATION FairSpec
CONSTANTS
  Clients = {c1, c2}
  Managers = {m1}
  Drs = {d1, d2}
  Commands = {"start", "stop_acc", "start_acc", "stop"}
  MaxMsgs = 1
  Overlap = TRUE
  Prompt = FALSE
  Nil = Nil
  Fresh = Fresh
INVARIANTS
  StoredFirst
  AtMostOneDrs
  AllServed
  StopIsComplete
PROPERTIES
  CommandReturns
  ListIsStable
  Served
