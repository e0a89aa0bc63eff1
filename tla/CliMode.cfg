SPECIFICATION Spec
CONSTANTS
  Params <- TreeParams
  Root = "ROOT"
  Config = "config"
  DoHook = "DO_HOOK"
  Kind <- TreeKind
  Name <- TreeName
  Handler <- TreeHandler
  Parent <- TreeParent
  Options <- TreeOptions
  Caps <- TreeCaps
  Branch <- Branches
  Path <- Paths
  Accepts <- TreeAccepts
  Abbrev <- NamePrefixes
  Lines <- TypedLines
  FileLines <- HeldLines
  MaxFrames = 3
  MaxFile = 2
  MaxUnits = 3
  UnitSize = 100
  InitSize = 100
  Nil = Nil
INVARIANTS
  NoCodeInMode
