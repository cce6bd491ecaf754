SPECIFICATION Spec
CONSTANTS
  Byte = 64
  Alphabets <- MCAlphabets
  Names = {"x", "w"}
  Literals = {"1"}
  Index <- MCIndex
  MAX_ARGUMENTS = 2
  REPL = FALSE
  Language <- MCLanguage
CHECK_DEADLOCK FALSE
INVARIANTS
  TypeOK
  EmitsItsTree
  RejectsOnlyNonSentences
  UndefinedOnlyAtBang
PROPERTIES
  ParseEnds
