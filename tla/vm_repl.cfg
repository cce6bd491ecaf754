SPECIFICATION SessionSpec
CONSTANTS
  Byte = 32
  IntMax = 127
  Numbers = {0, 1}
  Strings <- MCStrings
  INITIAL_CAPACITY = 2
  FunctionIds <- MCFunctionIds
  Programs <- LinePrograms
  Clock <- MCClock
  FrameLimit = 4
  Moves = {FALSE}
  Repl = TRUE
  SessionSize = 12
  FailedCode <- LineFailures
  LeftoverSize = 8
  Readable = {2, 3}
CHECK_DEADLOCK FALSE
INVARIANTS
  SoundUntilStale
PROPERTIES
  StaysExhausted
