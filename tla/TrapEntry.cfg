\* Two tasks; a fault in an interrupt handler, either in a system call, a fault
\* in switch_to.
SPECIFICATION Spec
CONSTANTS
  Tasks = {A, B}
  MaxDepth = 2
INVARIANTS TaskUndisturbed SuspendedIntact
PROPERTIES IretRestores SysretPreserves SwitchResumes
