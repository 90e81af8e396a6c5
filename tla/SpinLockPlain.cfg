\* Every variant in every context, the plain ones with interrupts on: a CPU
\* may panic or spin for ever, so the system may stop.
SPECIFICATION Spec
CONSTANTS
  CPUs = {c0, c1}
  NoCpu = NoCpu
  Depth = 1
  TaskModes = {"plain", "try", "bh", "irq", "irqsave"}
  IrqModes = {"plain", "try", "irqsave"}
INVARIANTS MutualExclusion OwnerCoherent SelfDeadlockOnlyInWindow
CHECK_DEADLOCK FALSE
