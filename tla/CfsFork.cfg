\* New tasks are copies of the current one, made by dup_task_struct.
SPECIFICATION Spec
CONSTANTS
  t1 = t1
  t2 = t2
  t3 = t3
  Tasks = {t1, t2}
  Idle = Idle
  None = None
  Scale <- MCScale
  U64 = 20
  MaxRan = 1
  MaxLead = 2
  Thresh = 1
  Gran = 1
  NrLatency = 2
  NextBuddy = TRUE
  LastBuddy = TRUE
  Sleepers = {t1}
  CopiesOnRq = TRUE
INVARIANT NrRunningIsRunnable
