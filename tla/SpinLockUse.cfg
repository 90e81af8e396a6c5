\* The lock as buddy.c and sched.c use it: two CPUs whose interrupt
\* handlers use the lock as well, and room for a handler to be interrupted.
SPECIFICATION FairSpec
CONSTANTS
  CPUs = {c0, c1}
  NoCpu = NoCpu
  Depth = 2
  TaskModes = {"irq", "irqsave"}
  IrqModes = {"plain", "try", "bh", "irqsave"}
INVARIANTS TypeOK NoPanic HolderRuns IrqFlagBalanced
PROPERTIES LockProgress ImplementsMutex
