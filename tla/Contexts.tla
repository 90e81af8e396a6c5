------------------------------- MODULE Contexts -------------------------------
(***************************************************************************)
(* The execution contexts that use the locks of kernel/include/spinlock.h, *)
(* and the interrupts that suspend one for another.                        *)
(*                                                                         *)
(* A context is <<c, l>>: level 0 of CPU c is its mainline (the current    *)
(* task), level l > 0 is an interrupt handler that arrived while level     *)
(* l - 1 was running with interrupts enabled.  Only the topmost context of *)
(* a CPU runs; the one below waits for its iretq.                          *)
(*                                                                         *)
(* smp_processor_id of main.c returns 0 everywhere.  That is exact for one *)
(* CPU, which is what the kernel is configured for; with two CPUs the      *)
(* model is of the locks over an smp_processor_id that tells them apart.   *)
(***************************************************************************)
EXTENDS Integers

CONSTANTS CPUs,         \* the values of smp_processor_id()
          Depth,        \* bound: nested interrupts per CPU
          TaskModes,    \* the lock variants the mainline uses
          IrqModes      \* the lock variants interrupt handlers use

Modes == {"plain", "try", "bh", "irq", "irqsave"}

ASSUME DepthAssumption == Depth \in Nat
ASSUME ModeAssumption  == TaskModes \subseteq Modes /\ IrqModes \subseteq Modes

Procs == CPUs \X (0 .. Depth)
Cpu(p) == p[1]
Level(p) == p[2]
ModesOf(p) == IF Level(p) = 0 THEN TaskModes ELSE IrqModes

VARIABLES pc,           \* pc[p]: where in the lock code context p is
          mode,         \* mode[p]: the variant p called
          flags,        \* flags[p]: the interrupt flag an irqsave variant saved
          ifl,          \* ifl[c]: the interrupt flag of CPU c
          depth         \* depth[c]: the level of the context CPU c runs

contextVars == <<pc, mode, flags, ifl, depth>>

ContextTypeOK(Labels) ==
  /\ pc \in [Procs -> Labels]
  /\ mode \in [Procs -> Modes]
  /\ flags \in [Procs -> BOOLEAN]
  /\ ifl \in [CPUs -> BOOLEAN]
  /\ depth \in [CPUs -> 0 .. Depth]

\* Every CPU runs its mainline, outside the lock code, with interrupts on.
ContextInit ==
  /\ pc = [p \in Procs |-> "idle"]
  /\ mode = [p \in Procs |-> "plain"]
  /\ flags = [p \in Procs |-> FALSE]
  /\ ifl = [c \in CPUs |-> TRUE]
  /\ depth = [c \in CPUs |-> 0]

Running(p, label) == depth[Cpu(p)] = Level(p) /\ pc[p] = label

\* A step inside the lock code that leaves the interrupt state alone.
Goto(p, label) ==
  /\ pc' = [pc EXCEPT ![p] = label]
  /\ UNCHANGED <<mode, flags, ifl, depth>>

\* Mutant: the irqsave variants save the flags and forget cli.
EnterLockCode_NoCli(p, m, label) ==
  /\ Running(p, "idle")
  /\ m \in ModesOf(p)
  /\ mode' = [mode EXCEPT ![p] = m]
  /\ flags' = [flags EXCEPT ![p] = (m = "irqsave") /\ ifl[Cpu(p)]]
  /\ ifl' = [ifl EXCEPT ![Cpu(p)] = @ /\ m # "irq"]
  /\ pc' = [pc EXCEPT ![p] = label]
  /\ UNCHANGED depth

\* A lock call begins: the irqsave and irq variants disable interrupts first,
\* the plain, try and bh ones do not (bottom halves are not interrupts).
EnterLockCode(p, m, label) ==
  /\ Running(p, "idle")
  /\ m \in ModesOf(p)
  /\ mode' = [mode EXCEPT ![p] = m]
  /\ flags' = [flags EXCEPT ![p] = (m = "irqsave") /\ ifl[Cpu(p)]]
  /\ ifl' = [ifl EXCEPT ![Cpu(p)] = @ /\ m \notin {"irq", "irqsave"}]
  /\ pc' = [pc EXCEPT ![p] = label]
  /\ UNCHANGED depth

\* Mutant: the irqrestore variants always enable interrupts.
LeaveLockCode_Enables(p) ==
  /\ Running(p, "restore")
  /\ ifl' = [ifl EXCEPT ![Cpu(p)] = @ \/ mode[p] \in {"irqsave", "irq"}]
  /\ pc' = [pc EXCEPT ![p] = "idle"]
  /\ UNCHANGED <<mode, flags, depth>>

\* An unlock call ends: irqrestore writes the saved flag back, irq enables.
LeaveLockCode(p) ==
  /\ Running(p, "restore")
  /\ ifl' = [ifl EXCEPT ![Cpu(p)] = IF mode[p] = "irqsave" THEN flags[p]
                                   ELSE @ \/ mode[p] = "irq"]
  /\ pc' = [pc EXCEPT ![p] = "idle"]
  /\ UNCHANGED <<mode, flags, depth>>

\* panic() prints its message with interrupts as they were, then disables
\* them and halts the CPU for good.
Halt(p) ==
  /\ Running(p, "panic")
  /\ ifl' = [ifl EXCEPT ![Cpu(p)] = FALSE]
  /\ pc' = [pc EXCEPT ![p] = "halted"]
  /\ UNCHANGED <<mode, flags, depth>>

IrqEnter(c) ==
  /\ ifl[c]
  /\ depth[c] < Depth
  /\ depth' = [depth EXCEPT ![c] = @ + 1]
  /\ ifl' = [ifl EXCEPT ![c] = FALSE]
  /\ UNCHANGED <<pc, mode, flags>>

\* Mutant: an iretq that no interrupt entry matches.
IrqExit_Unmatched(c) ==
  /\ pc[<<c, depth[c]>>] = "idle"
  /\ depth' = [depth EXCEPT ![c] = @ - 1]
  /\ ifl' = [ifl EXCEPT ![c] = TRUE]
  /\ UNCHANGED <<pc, mode, flags>>

\* iretq: the interrupted context had interrupts enabled.
IrqExit(c) ==
  /\ depth[c] > 0
  /\ pc[<<c, depth[c]>>] = "idle"
  /\ depth' = [depth EXCEPT ![c] = @ - 1]
  /\ ifl' = [ifl EXCEPT ![c] = TRUE]
  /\ UNCHANGED <<pc, mode, flags>>

-------------------------------------------------------------------------------
\* Callers that pair the calls: the mainline disables interrupts around the lock
\* and gives the flag back (buddy.c 259, sched.c 413, 527, 550), handlers do not
\* enable them.  sys_sched_yield is no such caller: it takes rq->lock with
\* this_rq_lock and releases it with a plain spin_unlock, so that it leaves
\* interrupts off (sched.c 665-672).
Discipline ==
  /\ TaskModes \subseteq {"irq", "irqsave"}
  /\ IrqModes \subseteq {"plain", "try", "bh", "irqsave"}

\* Under Discipline a context in the lock code is never suspended by an
\* interrupt: it is the running context of its CPU, with interrupts disabled.
HolderRuns ==
  \A p \in Procs : pc[p] # "idle" => depth[Cpu(p)] = Level(p) /\ ~ ifl[Cpu(p)]

\* Under Discipline no lock/unlock pair leaks the interrupt flag: a mainline
\* outside the lock code has interrupts enabled, a handler never has.
IrqFlagBalanced ==
  \A c \in CPUs :
    IF depth[c] = 0 THEN pc[<<c, 0>>] = "idle" => ifl[c] ELSE ~ ifl[c]
===============================================================================
