SPECIFICATION Spec
CONSTANTS
  Byte = 256
  IntMax = 127
  Numbers = {0, 1}
  Strings <- MCStrings
  INITIAL_CAPACITY = 2
  FunctionIds <- MCFunctionIds
  Programs <- MCPrograms
  Clock <- MCClock
  FrameLimit = 4
  Moves = {FALSE}
  Repl = FALSE
  SessionSize = 100
CHECK_DEADLOCK FALSE
INVARIANTS
  TypeOK
  CallBinding
  FramesNested
  NeverUndefined
  Balanced
PROPERTIES
  ReturnRestores
  Terminates
