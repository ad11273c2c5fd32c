\* copy_mem's base for every slot of NR_TASKS = 64, under both ways the
\* build can compute the int product nr * 0x4000000.
CONSTANTS
  NR_TASKS = 64
  NULL = NULL
SPECIFICATION Spec
INVARIANT SlotWindows
