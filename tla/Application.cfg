SPECIFICATION AppSpec
CONSTANTS
  TcWidth = 4
  TcNos = {1, 4}
  Words = {"w", "x", "7"}
  Number <- NumberWords
  Messages <- Outputs
  Cmds <- ScriptCmds
  MaxMq = 1
  Stores = {1}
  MaxDepth = 2
  MaxResults = 1
  Servers = {"s1", "s2"}
  BufSize = 3
  Texts = {1, 2}
  None = None
  MaxSaved = 2
  MaxTyped = 4
  MaxProcesses = 2
INVARIANTS
  BufferIsLastShow
  HungBySurplus
  ResultsAreOwn
  PrintedAsSent
  HistoryHasTyped
PROPERTIES
  StoresNumberSeen
CHECK_DEADLOCK FALSE
