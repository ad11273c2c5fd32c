CONSTANTS
  NSlots = 2
  W = 4
  PTSpan = 2
  PDSpan = 8
  NF = 9
  NULL = NULL
  NoPte = NoPte
SPECIFICATION Spec
INVARIANT WritableExclusiveAll
CHECK_DEADLOCK FALSE
