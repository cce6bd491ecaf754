SPECIFICATION StringsSpec
CONSTANTS
  Keys <- MCKeys
  Hash <- MCHash
  Content <- MCContent
  Vals = {"void", "index"}
  NULL = NULL
  Junk = Junk
  Fresh = {NULL, Junk}
  INITIAL_CAPACITY = 2
  Blocks = {1}
  MaxCount = 3
CHECK_DEADLOCK FALSE
INVARIANTS
  StringsTypeOK
  FreeableOnce
PROPERTIES
  OnlyRepeatsForgotten
  RefinesIntern
