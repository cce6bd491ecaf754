SPECIFICATION Spec
CONSTANTS
  Byte = 64
  Alphabets <- LevelAlphabets
  Names = {"x", "w"}
  Literals = {"1"}
  Index <- MCIndex
  MAX_ARGUMENTS = 2
  REPL = FALSE
  Language <- LevelLanguage
CHECK_DEADLOCK FALSE
INVARIANTS
  OrBindsLooser
