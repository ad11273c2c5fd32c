CONSTANTS
  NTasks = 3
  Queues = {q1, q2}
  q1 = q1
  q2 = q2
  QueueKind <- MCQueuesMixed
  InitPriority = 1
  MaxPriority = 2
  MaxAlarmSecs = 1
  HZ = 1
  NULL = NULL
  NoAlarm = NoAlarm
SPECIFICATION Spec
INVARIANT TypeOK
INVARIANT SleepOnSleepersReachable
INVARIANT ScheduleAgrees
