------------------------------- MODULE SpinLock -------------------------------
(***************************************************************************)
(* The spinlock of kernel/include/spinlock.h, lines 58-203.                *)
(*                                                                         *)
(* Every step between two accesses to the shared words lock and owner_cpu  *)
(* is a step of its own, so that another CPU or an interrupt may come in   *)
(* between.                                                                *)
(*                                                                         *)
(* The lock has been through spin_lock_init, so the magic checks of lines  *)
(* 73, 105 and 130 do not fire.  owner (the return address) and name only  *)
(* feed messages.                                                          *)
(***************************************************************************)
EXTENDS Contexts

CONSTANT NoCpu          \* the owner_cpu of a free lock, 0xFFFFFFFF

ASSUME CpuAssumption == NoCpu \notin CPUs

VARIABLES lock,         \* lock->lock: 0 unlocked, 1 locked
          owner_cpu     \* lock->owner_cpu

vars == <<lock, owner_cpu, pc, mode, flags, ifl, depth>>

Labels == {"idle", "check", "cas", "spin", "setowner", "cs", "asserted",
           "clear", "release", "restore", "panic", "halted"}

\* The contexts that have taken the lock word and not given it back.
Holding == {"setowner", "cs", "asserted", "clear", "release"}

\* Those whose CPU is recorded in owner_cpu.
Recorded == {"cs", "asserted", "clear"}

spin_is_locked == lock = 1

spin_lock_init == lock = 0 /\ owner_cpu = NoCpu

Init == spin_lock_init /\ ContextInit

-------------------------------------------------------------------------------
(* Acquiring *)

BeginLock(p, m) ==
  /\ EnterLockCode(p, m, "check")
  /\ UNCHANGED <<lock, owner_cpu>>

\* Mutant: no recursion check.
CheckRecursion_Dropped(p) ==
  /\ Running(p, "check")
  /\ Goto(p, "cas")
  /\ UNCHANGED <<lock, owner_cpu>>

\* The recursion check: a lock recorded as this CPU's panics.
CheckRecursion(p) ==
  /\ Running(p, "check")
  /\ Goto(p, IF owner_cpu = Cpu(p) THEN "panic" ELSE "cas")
  /\ UNCHANGED <<lock, owner_cpu>>

\* Mutant: the lock word is stored without being tested.
CompareAndSwap_Untested(p) ==
  /\ Running(p, "cas")
  /\ lock' = 1
  /\ Goto(p, "setowner")
  /\ UNCHANGED owner_cpu

\* Mutant: the loop is left without the lock having been taken.
CompareAndSwap_Break(p) ==
  /\ Running(p, "cas")
  /\ lock = 0
  /\ Goto(p, "restore")
  /\ UNCHANGED <<lock, owner_cpu>>

CompareAndSwap(p) ==
  /\ Running(p, "cas")
  /\ lock = 0
  /\ lock' = 1
  /\ Goto(p, "setowner")
  /\ UNCHANGED owner_cpu

\* spin_lock goes on to wait, spin_trylock returns 0 (it changed no flag).
CompareAndSwapFails(p) ==
  /\ Running(p, "cas")
  /\ lock # 0
  /\ Goto(p, IF mode[p] = "try" THEN "idle" ELSE "spin")
  /\ UNCHANGED <<lock, owner_cpu>>

SpinWait(p) ==
  /\ Running(p, "spin")
  /\ ~ spin_is_locked
  /\ Goto(p, "cas")
  /\ UNCHANGED <<lock, owner_cpu>>

SetOwner(p) ==
  /\ Running(p, "setowner")
  /\ owner_cpu' = Cpu(p)
  /\ Goto(p, "cs")
  /\ UNCHANGED lock

-------------------------------------------------------------------------------
(* Holding and releasing *)

spin_assert_locked(p) ==
  /\ Running(p, "cs")
  /\ Goto(p, IF spin_is_locked THEN "asserted" ELSE "panic")
  /\ UNCHANGED <<lock, owner_cpu>>

\* The critical section is over: spin_unlock checks who owns the lock.
CheckOwner(p) ==
  /\ Running(p, "cs") \/ Running(p, "asserted")
  /\ Goto(p, IF owner_cpu # Cpu(p) THEN "panic" ELSE "clear")
  /\ UNCHANGED <<lock, owner_cpu>>

\* Mutant: the owner of a released lock stays recorded.
ClearOwner_Kept(p) ==
  /\ Running(p, "clear")
  /\ Goto(p, "release")
  /\ UNCHANGED <<lock, owner_cpu>>

ClearOwner(p) ==
  /\ Running(p, "clear")
  /\ owner_cpu' = NoCpu
  /\ Goto(p, "release")
  /\ UNCHANGED lock

ReleaseLock(p) ==
  /\ Running(p, "release")
  /\ lock' = 0
  /\ Goto(p, "restore")
  /\ UNCHANGED owner_cpu

RestoreIrq(p) == LeaveLockCode(p) /\ UNCHANGED <<lock, owner_cpu>>

HaltCpu(p) == Halt(p) /\ UNCHANGED <<lock, owner_cpu>>

Interrupt(c) ==
  /\ IrqEnter(c) \/ IrqExit(c)
  /\ UNCHANGED <<lock, owner_cpu>>

-------------------------------------------------------------------------------

\* The steps a context takes once it has entered the lock code.
Step(p) ==
  \/ CheckRecursion(p) \/ CompareAndSwap(p) \/ CompareAndSwapFails(p)
  \/ SpinWait(p) \/ SetOwner(p) \/ spin_assert_locked(p) \/ CheckOwner(p)
  \/ ClearOwner(p) \/ ReleaseLock(p) \/ RestoreIrq(p) \/ HaltCpu(p)

Next ==
  \/ \E p \in Procs : Step(p) \/ \E m \in Modes : BeginLock(p, m)
  \/ \E c \in CPUs : Interrupt(c)

Spec == Init /\ [][Next]_vars

\* A CPU that is not halted executes instructions, critical sections end and
\* handlers return.  Nothing is assumed of who wins a race for the lock, nor
\* that a mainline interrupted again and again makes progress.
Fairness ==
  /\ \A p \in Procs : WF_vars(Step(p))
  /\ \A c \in CPUs : WF_vars(IrqExit(c) /\ UNCHANGED <<lock, owner_cpu>>)

FairSpec == Spec /\ Fairness

-------------------------------------------------------------------------------
(* Properties *)

\* Every variable has its type.
TypeOK ==
  /\ lock \in {0, 1}
  /\ owner_cpu \in CPUs \cup {NoCpu}
  /\ ContextTypeOK(Labels)

\* At most one context, over all CPUs and interrupt levels, is between its
\* successful compare-and-swap and its store of lock = 0.
MutualExclusion ==
  \A p, q \in Procs : pc[p] \in Holding /\ pc[q] \in Holding => p = q

\* owner_cpu names a CPU exactly while a context of that CPU is between the
\* store of line 87 and the store of line 141: the value both panics test is
\* never that of an earlier holder, though it is written outside the atomic
\* compare-and-swap.
OwnerCoherent ==
  /\ \A p \in Procs : pc[p] \in Recorded => owner_cpu = Cpu(p)
  /\ owner_cpu # NoCpu => \E p \in Procs : pc[p] \in Recorded /\ Cpu(p) = owner_cpu

\* Under Discipline no recursion, ownership or assertion check ever fires.
NoPanic == \A p \in Procs : pc[p] \notin {"panic", "halted"}

\* A context spins on a lock its own CPU holds, below it: it will spin for ever.
SelfDeadlock(p, q) ==
  /\ pc[p] \in {"cas", "spin"} /\ mode[p] # "try"
  /\ pc[q] \in Holding
  /\ Cpu(p) = Cpu(q) /\ Level(q) < Level(p)

\* Without Discipline the recursion check still turns every self-deadlock
\* into a panic, except in the two windows where the lock is taken and its
\* owner not recorded: after line 85 and before 87, after 141 and before 146.
SelfDeadlockOnlyInWindow ==
  \A p, q \in Procs : SelfDeadlock(p, q) => pc[q] \in {"setowner", "release"}

\* Under Discipline the lock never jams: when a context waits for it, some
\* context gets it, with no fairness between contexts and handlers that use
\* the lock at any moment.
LockProgress ==
  (\E p \in Procs : pc[p] \in {"cas", "spin"} /\ mode[p] # "try")
    ~> (\E p \in Procs : pc[p] = "cs")

-------------------------------------------------------------------------------
(* Refinement: the lock word, held by the context that won the swap, is the *)
(* abstract mutex.                                                          *)

NoProc == <<NoCpu, 0>>

holder == IF lock = 0 THEN NoProc ELSE CHOOSE p \in Procs : pc[p] \in Holding

M == INSTANCE Mutex WITH Procs <- Procs, NoProc <- NoProc, holder <- holder

\* The lock is a mutex whose every holder releases it: a free lock is taken by
\* one context at a time and given back only by the context that took it.
ImplementsMutex == M!FairSpec
===============================================================================
