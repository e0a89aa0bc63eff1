SPECIFICATION Spec
CONSTANTS
  Clients = {c1}
  Managers = {m1}
  Drs = {d1, d2}
  Commands = {"start", "stop_svc", "start_svc"}
  MaxMsgs = 1
  Overlap = TRUE
  Prompt = FALSE
  Nil = Nil
  Fresh = Fresh
SYMMETRY Symmetry
INVARIANTS
  ThreadIsGone
