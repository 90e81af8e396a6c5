\* Two sleeping and waking tasks of different weight, every buddy in use.
SPECIFICATION Spec
CONSTANTS
  t1 = t1
  t2 = t2
  t3 = t3
  Tasks = {t1, t2, t3}
  Idle = Idle
  None = None
  Scale <- MCScale
  U64 = 20
  MaxRan = 1
  MaxLead = 2
  Thresh = 1
  Gran = 1
  NrLatency = 2
  NextBuddy = FALSE
  LastBuddy = TRUE
  Sleepers = {t1, t2}
  CopiesOnRq = FALSE
INVARIANTS TimelineComplete TimelineOrdered CountersExact CurrentAgrees
  BuddiesQueued
PROPERTY MinVruntimeMonotone
