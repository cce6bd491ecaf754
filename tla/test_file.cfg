SPECIFICATION Spec
CONSTANTS
  Letters <- TestLetters
  DigitValue <- TestDigitValue
  Others <- TestOthers
  Typed <- NoLines
  Files <- TestFiles
  BUFFER_SIZE = 128
  CAP_INITIAL = 8
  HAW_INT_MAX = 9999
  LLONG_MAX = 99999
  OutOfRange = {}
CHECK_DEADLOCK FALSE
INVARIANTS
  TestIsRead
