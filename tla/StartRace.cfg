SPECIFICATION Spec
CONSTANTS
  Clients = {c1, c2}
  Managers = {m1}
  Drs = {d1, d2}
  Commands = {"start"}
  MaxMsgs = 1
  Overlap = TRUE
  Prompt = FALSE
  Nil = Nil
  Fresh = Fresh
SYMMETRY Symmetry
INVARIANTS
  ClientsHarmless
