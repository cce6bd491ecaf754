SPECIFICATION Spec
CONSTANTS
  Keys <- MCKeys
  Hash <- MCHash
  Content <- MCContent
  Vals = {"v"}
  NULL = NULL
  Junk = Junk
  Fresh = {NULL, Junk}
  INITIAL_CAPACITY = 2
CHECK_DEADLOCK FALSE
INVARIANTS
  TypeOK
  Findable
  SizeCounts
  NeverLost
  LostInTail
PROPERTIES
  RefinesMap
  SetCompletes
