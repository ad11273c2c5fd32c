CONSTANTS
  NSlots = 3
  W = 4
  PTSpan = 2
  PDSpan = 8
  NF = 9
  NULL = NULL
  NoPte = NoPte
SPECIFICATION Spec
PROPERTY OthersWindowsPreserved
CHECK_DEADLOCK FALSE
