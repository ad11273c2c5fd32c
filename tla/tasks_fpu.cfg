CONSTANTS
  NTasks = 3
  PidBits = 3
  KFrames = {f1, f2}
  f1 = f1
  f2 = f2
  init_task = init_task
  MaxFp = 3
  NULL = NULL
  SwitchSetsTS = TRUE
  ExitDropsFpu = TRUE
SPECIFICATION Spec
INVARIANT PidsUnique
PROPERTY EagerFpuRefined
