\* Two tasks, one of which sleeps and is woken over and over: every
\* queued task gets the CPU again.
SPECIFICATION FairSpec
CONSTANTS
  t1 = t1
  t2 = t2
  t3 = t3
  Tasks = {t1, t2}
  Idle = Idle
  None = None
  Scale <- MCScale
  U64 = 20
  MaxRan = 1
  MaxLead = 2
  Thresh = 1
  Gran = 1
  NrLatency = 2
  NextBuddy = TRUE
  LastBuddy = TRUE
  Sleepers = {t1}
  CopiesOnRq = FALSE
PROPERTY NoStarvation
