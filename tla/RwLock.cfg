\* Two CPUs, each with an interrupt handler that uses the lock as well.
SPECIFICATION FairSpec
CONSTANTS
  CPUs = {c0, c1}
  Depth = 1
  TaskModes = {"irqsave"}
  IrqModes = {"plain", "try"}
INVARIANTS TypeOK RWExclusion CountsExact
PROPERTIES DrainCompletes ImplementsRwMutex
