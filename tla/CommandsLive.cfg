SPECIFICATION FairSpec
CONSTANTS
  Clients = {c1}
  Managers = {m1}
  Drs = {d1, d2}
  Commands = {"start", "stop_acc", "start_acc", "stop_svc", "start_svc", "stop"}
  MaxMsgs = 1
  Overlap = TRUE
  Prompt = FALSE
  Nil = Nil
  Fresh = Fresh
PROPERTIES
  CommandReturns
