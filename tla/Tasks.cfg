\* init and up to three more tasks; PID_MAX = 7 is reached by the third fork.
SPECIFICATION Spec
CONSTANTS
  TaskStructs = {t1, t2, t3, t4}
  Stacks = {s1, s2, s3, s4}
  Mms = {m1, m2}
  Idle = Idle
  IdleStack = IdleStack
  init_mm = init_mm
  NULL = NULL
  PID_MAX = 7
  MaxRefs = 1
SYMMETRY MCSymmetry
INVARIANTS TypeOK MmCountExact PageTableAlive PidsUniqueUntilWrap HeapAccounted TasksAlive
