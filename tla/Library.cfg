SPECIFICATION LibSpec
CONSTANTS
  Size = 4
  ReadSize = 4
  MaxBytes = 9
  Nodes = {"n1", "n2", "n3", "n4"}
  Heads = {"h1", "h2"}
  SortedHeads = {"h2"}
  Null = Null
  Key <- NodeKey
  DefaultSize = 1
  TypeSize <- TypeSizes
  Bytes = {1, 2}
  Unset = 0
  MaxNext = 3
  MaxTokens = 2
  Chars <- Characters
  Spaces <- Blanks
  Delims = {" ", ">"}
  Strings <- TokenLines
  Texts <- ScriptTexts
  Sub <- Variable
  New <- Values
INVARIANTS
  Accounting
  HoldsUnread
  LinksAgree
  DeletesAll
  ReadsBack
  GrowthEnds
  TokensAreWords
  ReplacesSeparated
PROPERTIES
  ReadsOldest
  ListKept
CHECK_DEADLOCK FALSE
