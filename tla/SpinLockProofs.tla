---------------------------- MODULE SpinLockProofs ----------------------------
(***************************************************************************)
(* Proofs about the spinlock, for any number of CPUs, any nesting of       *)
(* interrupts and any use of the variants by mainline and handlers.        *)
(*                                                                         *)
(* The inductive invariant adds to the properties what ties the lock word  *)
(* to the program counters: the word is 1 exactly while a context is       *)
(* between its compare-and-swap and its store of 0.                        *)
(***************************************************************************)
EXTENDS SpinLock, TLAPS

\* The lock word is 1 exactly while some context holds the lock.
LockWord == lock = 1 <=> \E p \in Procs : pc[p] \in Holding

\* The inductive invariant.
Inv == TypeOK /\ MutualExclusion /\ LockWord /\ OwnerCoherent

-------------------------------------------------------------------------------
(* Contexts *)

\* A context belongs to a CPU, at a level, and is determined by the two.
LEMMA ProcParts ==
  ASSUME NEW p \in Procs
  PROVE  /\ Cpu(p) \in CPUs /\ Level(p) \in 0 .. Depth
         /\ p = <<Cpu(p), Level(p)>>
BY DEF Procs, Cpu, Level

\* NoProc is not a context.
LEMMA NoProcIsNone == NoProc \notin Procs
BY CpuAssumption DEF NoProc, Procs

\* Every step of a context leaves the contexts well-typed.
LEMMA GotoType ==
  ASSUME ContextTypeOK(Labels), NEW p \in Procs, NEW l \in Labels, Goto(p, l)
  PROVE  ContextTypeOK(Labels)' /\ pc'[p] = l /\ \A q \in Procs \ {p} : pc'[q] = pc[q]
BY DEF ContextTypeOK, Goto

-------------------------------------------------------------------------------
(* Type correctness *)

\* Every action keeps the variables in their types.
LEMMA TypeStep == TypeOK /\ [Next]_vars => TypeOK'
<1> SUFFICES ASSUME TypeOK, [Next]_vars PROVE TypeOK'
  OBVIOUS
<1> USE DEF TypeOK
<1>1. ASSUME NEW p \in Procs, Step(p) PROVE TypeOK'
  <2>0. Cpu(p) \in CPUs
    BY ProcParts
  <2>1. CASE CheckRecursion(p)
    BY <2>1, GotoType DEF CheckRecursion, Labels
  <2>2. CASE CompareAndSwap(p)
    BY <2>2, GotoType DEF CompareAndSwap, Labels
  <2>3. CASE CompareAndSwapFails(p)
    BY <2>3, GotoType DEF CompareAndSwapFails, Labels
  <2>4. CASE SpinWait(p)
    BY <2>4, GotoType DEF SpinWait, Labels
  <2>5. CASE SetOwner(p)
    BY <2>0, <2>5, GotoType DEF SetOwner, Labels
  <2>6. CASE spin_assert_locked(p)
    BY <2>6, GotoType DEF spin_assert_locked, Labels
  <2>7. CASE CheckOwner(p)
    BY <2>7, GotoType DEF CheckOwner, Labels
  <2>8. CASE ClearOwner(p)
    BY <2>8, GotoType DEF ClearOwner, Labels
  <2>9. CASE ReleaseLock(p)
    BY <2>9, GotoType DEF ReleaseLock, Labels
  <2>10. CASE RestoreIrq(p)
    <3>1. flags[p] \in BOOLEAN /\ ifl[Cpu(p)] \in BOOLEAN
      BY <2>0 DEF ContextTypeOK
    <3>2. ifl' \in [CPUs -> BOOLEAN]
      BY <2>0, <2>10, <3>1 DEF RestoreIrq, LeaveLockCode, ContextTypeOK
    <3> QED
      BY <2>10, <3>2 DEF RestoreIrq, LeaveLockCode, ContextTypeOK, Labels
  <2>11. CASE HaltCpu(p)
    BY <2>0, <2>11 DEF HaltCpu, Halt, ContextTypeOK, Labels
  <2> QED
    BY <1>1, <2>1, <2>2, <2>3, <2>4, <2>5, <2>6, <2>7, <2>8, <2>9, <2>10, <2>11 DEF Step
<1>2. ASSUME NEW p \in Procs, NEW m \in Modes, BeginLock(p, m) PROVE TypeOK'
  <2>1. Cpu(p) \in CPUs
    BY ProcParts
  <2>2. ifl' \in [CPUs -> BOOLEAN] /\ flags' \in [Procs -> BOOLEAN]
    BY <1>2, <2>1 DEF BeginLock, EnterLockCode, ContextTypeOK
  <2> QED
    BY <1>2, <2>2 DEF BeginLock, EnterLockCode, ContextTypeOK, Labels
<1>3. ASSUME NEW c \in CPUs, Interrupt(c) PROVE TypeOK'
  <2>1. depth[c] \in 0 .. Depth
    BY DEF ContextTypeOK
  <2>2. CASE IrqEnter(c)
    BY <1>3, <2>1, <2>2, DepthAssumption DEF Interrupt, IrqEnter, ContextTypeOK
  <2>3. CASE IrqExit(c)
    BY <1>3, <2>1, <2>3, DepthAssumption DEF Interrupt, IrqExit, ContextTypeOK
  <2> QED
    BY <1>3, <2>2, <2>3 DEF Interrupt
<1>4. CASE UNCHANGED vars
  BY <1>4 DEF vars, ContextTypeOK
<1> QED
  BY <1>1, <1>2, <1>3, <1>4 DEF Next

\* The initial state is well-typed.
LEMMA TypeInit == Init => TypeOK
BY DepthAssumption DEF Init, spin_lock_init, ContextInit, TypeOK, ContextTypeOK, Labels, Modes

\* Type correctness of the spinlock, the contexts and the interrupt state.
THEOREM SpinLockTypeOK == Spec => []TypeOK
BY TypeInit, TypeStep, PTL DEF Spec
-------------------------------------------------------------------------------
(* Mutual exclusion and the recorded owner *)

\* A step that moves p between two holding labels, or between two labels that
\* do not hold, and leaves the lock word alone, keeps exclusion and LockWord.
LEMMA MoveKeepsLock ==
  ASSUME TypeOK, MutualExclusion, LockWord,
         NEW p \in Procs, NEW l \in Labels, Goto(p, l), UNCHANGED lock,
         pc[p] \in Holding <=> l \in Holding
  PROVE  MutualExclusion' /\ LockWord'
<1>1. \A q \in Procs : pc'[q] \in Holding <=> pc[q] \in Holding
  BY GotoType DEF TypeOK
<1> QED
  BY <1>1 DEF MutualExclusion, LockWord

\* The same for the recorded owner, when owner_cpu is left alone.
LEMMA MoveKeepsOwner ==
  ASSUME TypeOK, OwnerCoherent,
         NEW p \in Procs, NEW l \in Labels, Goto(p, l), UNCHANGED owner_cpu,
         pc[p] \in Recorded <=> l \in Recorded
  PROVE  OwnerCoherent'
<1>1. \A q \in Procs : pc'[q] \in Recorded <=> pc[q] \in Recorded
  BY GotoType DEF TypeOK
<1> QED
  BY <1>1 DEF OwnerCoherent

\* Every action preserves the inductive invariant.
LEMMA InvStep == Inv /\ [Next]_vars => Inv'
<1> SUFFICES ASSUME Inv, [Next]_vars PROVE Inv'
  OBVIOUS
<1>0. TypeOK /\ TypeOK' /\ MutualExclusion /\ LockWord /\ OwnerCoherent
  BY TypeStep DEF Inv
<1>1. ASSUME NEW p \in Procs, Step(p)
      PROVE  MutualExclusion' /\ LockWord' /\ OwnerCoherent'
  <2>0. Cpu(p) \in CPUs /\ Cpu(p) # NoCpu
    BY ProcParts, CpuAssumption
  <2>1. CASE CheckRecursion(p)
    <3> DEFINE l == IF owner_cpu = Cpu(p) THEN "panic" ELSE "cas"
    <3>1. l \in Labels /\ l \notin Holding /\ l \notin Recorded
      BY DEF Labels, Holding, Recorded
    <3>2. Goto(p, l) /\ UNCHANGED <<lock, owner_cpu>> /\ pc[p] = "check"
      BY <2>1 DEF CheckRecursion, Running
    <3>3. pc[p] \notin Holding /\ pc[p] \notin Recorded
      BY <3>2 DEF Holding, Recorded
    <3> HIDE DEF l
    <3> QED
      BY <1>0, <3>1, <3>2, <3>3, MoveKeepsLock, MoveKeepsOwner
  <2>2. CASE CompareAndSwap(p)
    <3>1. lock = 0 /\ lock' = 1 /\ Goto(p, "setowner") /\ UNCHANGED owner_cpu
      BY <2>2 DEF CompareAndSwap
    <3>2. /\ pc'[p] = "setowner" /\ pc[p] = "cas"
          /\ \A q \in Procs \ {p} : pc'[q] = pc[q]
      BY <1>0, <2>2, GotoType DEF CompareAndSwap, Running, TypeOK, Labels
    <3>3. \A q \in Procs : pc[q] \notin Holding
      BY <1>0, <3>1 DEF LockWord
    <3>4. MutualExclusion' /\ LockWord'
      BY <3>1, <3>2, <3>3 DEF MutualExclusion, LockWord, Holding
    <3>5. OwnerCoherent'
      BY <1>0, <3>1, MoveKeepsOwner, <3>2 DEF Labels, Recorded
    <3> QED
      BY <3>4, <3>5
  <2>3. CASE CompareAndSwapFails(p)
    <3> DEFINE l == IF mode[p] = "try" THEN "idle" ELSE "spin"
    <3>1. l \in Labels /\ l \notin Holding /\ l \notin Recorded
      BY DEF Labels, Holding, Recorded
    <3>2. Goto(p, l) /\ UNCHANGED <<lock, owner_cpu>> /\ pc[p] = "cas"
      BY <2>3 DEF CompareAndSwapFails, Running
    <3>3. pc[p] \notin Holding /\ pc[p] \notin Recorded
      BY <3>2 DEF Holding, Recorded
    <3> HIDE DEF l
    <3> QED
      BY <1>0, <3>1, <3>2, <3>3, MoveKeepsLock, MoveKeepsOwner
  <2>4. CASE SpinWait(p)
    BY <1>0, <2>4, MoveKeepsLock, MoveKeepsOwner
       DEF SpinWait, Running, Labels, Holding, Recorded
  <2>5. CASE SetOwner(p)
    <3>1. Goto(p, "cs") /\ pc[p] = "setowner" /\ owner_cpu' = Cpu(p) /\ UNCHANGED lock
      BY <2>5 DEF SetOwner, Running
    <3>2. MutualExclusion' /\ LockWord'
      BY <1>0, <3>1, MoveKeepsLock DEF Labels, Holding
    <3>3. pc'[p] = "cs" /\ \A q \in Procs \ {p} : pc'[q] = pc[q]
      BY <1>0, <3>1, GotoType DEF TypeOK, Labels
    <3>4. \A q \in Procs \ {p} : pc'[q] \notin Recorded
      BY <1>0, <3>1, <3>3 DEF MutualExclusion, Holding, Recorded
    <3>5. OwnerCoherent'
      BY <3>1, <3>3, <3>4 DEF OwnerCoherent, Recorded
    <3> QED
      BY <3>2, <3>5
  <2>6. CASE spin_assert_locked(p)
    <3>1. pc[p] = "cs" /\ UNCHANGED <<lock, owner_cpu>>
      BY <2>6 DEF spin_assert_locked, Running
    <3>2. lock = 1
      BY <1>0, <3>1 DEF LockWord, Holding
    <3>3. Goto(p, "asserted")
      BY <2>6, <3>2 DEF spin_assert_locked, spin_is_locked
    <3> QED
      BY <1>0, <3>1, <3>3, MoveKeepsLock, MoveKeepsOwner DEF Labels, Holding, Recorded
  <2>7. CASE CheckOwner(p)
    <3>1. pc[p] \in {"cs", "asserted"} /\ UNCHANGED <<lock, owner_cpu>>
      BY <2>7 DEF CheckOwner, Running
    <3>2. owner_cpu = Cpu(p)
      BY <1>0, <3>1 DEF OwnerCoherent, Recorded
    <3>3. Goto(p, "clear")
      BY <2>7, <3>2 DEF CheckOwner
    <3> QED
      BY <1>0, <3>1, <3>3, MoveKeepsLock, MoveKeepsOwner DEF Labels, Holding, Recorded
  <2>8. CASE ClearOwner(p)
    <3>1. Goto(p, "release") /\ pc[p] = "clear" /\ owner_cpu' = NoCpu /\ UNCHANGED lock
      BY <2>8 DEF ClearOwner, Running
    <3>2. MutualExclusion' /\ LockWord'
      BY <1>0, <3>1, MoveKeepsLock DEF Labels, Holding
    <3>3. pc'[p] = "release" /\ \A q \in Procs \ {p} : pc'[q] = pc[q]
      BY <1>0, <3>1, GotoType DEF TypeOK, Labels
    <3>4. \A q \in Procs : pc'[q] \notin Recorded
      BY <1>0, <3>1, <3>3 DEF MutualExclusion, Holding, Recorded
    <3>5. OwnerCoherent'
      BY <3>1, <3>4 DEF OwnerCoherent
    <3> QED
      BY <3>2, <3>5
  <2>9. CASE ReleaseLock(p)
    <3>1. Goto(p, "restore") /\ pc[p] = "release" /\ lock' = 0 /\ UNCHANGED owner_cpu
      BY <2>9 DEF ReleaseLock, Running
    <3>2. pc'[p] = "restore" /\ \A q \in Procs \ {p} : pc'[q] = pc[q]
      BY <1>0, <3>1, GotoType DEF TypeOK, Labels
    <3>3. \A q \in Procs : pc'[q] \notin Holding
      BY <1>0, <3>1, <3>2 DEF MutualExclusion, Holding
    <3>4. MutualExclusion' /\ LockWord'
      BY <3>1, <3>3 DEF MutualExclusion, LockWord
    <3>5. OwnerCoherent'
      BY <1>0, <3>1, MoveKeepsOwner DEF Labels, Recorded
    <3> QED
      BY <3>4, <3>5
  <2>10. CASE RestoreIrq(p) \/ HaltCpu(p)
    <3>1. /\ pc[p] \in {"restore", "panic"} /\ pc'[p] \in {"idle", "halted"}
          /\ \A q \in Procs \ {p} : pc'[q] = pc[q]
          /\ UNCHANGED <<lock, owner_cpu>>
      BY <1>0, <2>10
         DEF RestoreIrq, LeaveLockCode, HaltCpu, Halt, Running, TypeOK, ContextTypeOK
    <3>2. \A q \in Procs : /\ pc'[q] \in Holding <=> pc[q] \in Holding
                           /\ pc'[q] \in Recorded <=> pc[q] \in Recorded
      BY <3>1 DEF Holding, Recorded
    <3> QED
      BY <1>0, <3>1, <3>2 DEF MutualExclusion, LockWord, OwnerCoherent
  <2> QED
    BY <1>1, <2>1, <2>2, <2>3, <2>4, <2>5, <2>6, <2>7, <2>8, <2>9, <2>10 DEF Step
<1>2. ASSUME NEW p \in Procs, NEW m \in Modes, BeginLock(p, m)
      PROVE  MutualExclusion' /\ LockWord' /\ OwnerCoherent'
  <2>1. /\ pc[p] = "idle" /\ pc'[p] = "check" /\ UNCHANGED <<lock, owner_cpu>>
        /\ \A q \in Procs \ {p} : pc'[q] = pc[q]
    BY <1>0, <1>2 DEF BeginLock, EnterLockCode, Running, TypeOK, ContextTypeOK
  <2>2. \A q \in Procs : /\ pc'[q] \in Holding <=> pc[q] \in Holding
                         /\ pc'[q] \in Recorded <=> pc[q] \in Recorded
    BY <2>1 DEF Holding, Recorded
  <2> QED
    BY <1>0, <2>1, <2>2 DEF MutualExclusion, LockWord, OwnerCoherent
<1>3. ASSUME UNCHANGED <<lock, owner_cpu, pc>>
      PROVE  MutualExclusion' /\ LockWord' /\ OwnerCoherent'
  BY <1>0, <1>3 DEF MutualExclusion, LockWord, OwnerCoherent
<1>4. ASSUME NEW c \in CPUs, Interrupt(c) PROVE UNCHANGED <<lock, owner_cpu, pc>>
  BY <1>4 DEF Interrupt, IrqEnter, IrqExit
<1>5. MutualExclusion' /\ LockWord' /\ OwnerCoherent'
  BY <1>1, <1>2, <1>3, <1>4 DEF Next, vars
<1> QED
  BY <1>0, <1>5 DEF Inv

\* The invariant holds initially: no context holds the free lock.
LEMMA InvInit == Init => Inv
<1> SUFFICES ASSUME Init PROVE Inv
  OBVIOUS
<1>1. \A p \in Procs : pc[p] \notin Holding /\ pc[p] \notin Recorded
  BY DEF Init, ContextInit, Holding, Recorded
<1>2. lock = 0 /\ owner_cpu = NoCpu
  BY DEF Init, spin_lock_init
<1> QED
  BY <1>1, <1>2, TypeInit DEF Inv, MutualExclusion, LockWord, OwnerCoherent

\* The inductive invariant is an invariant.
THEOREM SpinLockInv == Spec => []Inv
BY InvInit, InvStep, PTL DEF Spec

\* Mutual exclusion: two contexts, on any CPUs and at any interrupt levels,
\* are never both between the compare-and-swap of spin_lock and the store of
\* spin_unlock, whatever variants they use.
THEOREM SpinLockMutualExclusion == Spec => []MutualExclusion
<1>1. Inv => MutualExclusion
  BY DEF Inv
<1> QED
  BY <1>1, SpinLockInv, PTL

\* owner_cpu is the CPU of the context that recorded it, for as long as that
\* context is in its critical section, and names nobody else.
THEOREM SpinLockOwnerCoherent == Spec => []OwnerCoherent
<1>1. Inv => OwnerCoherent
  BY DEF Inv
<1> QED
  BY <1>1, SpinLockInv, PTL

-------------------------------------------------------------------------------
(* The kernel's discipline: no panic, no suspended holder *)

\* What Discipline adds.  A context in the lock code is the running one with
\* interrupts off; so handlers do not nest, and the flag an irqsave variant
\* saved is the one its level runs with.
ModesKept ==
  \A p \in Procs : pc[p] # "idle" =>
    /\ mode[p] \in ModesOf(p)
    /\ mode[p] = "irqsave" => (flags[p] <=> Level(p) = 0)

NoNesting == \A c \in CPUs : depth[c] \in {0, 1}

DInv == Inv /\ HolderRuns /\ IrqFlagBalanced /\ ModesKept /\ NoNesting /\ NoPanic

\* In a disciplined state at most one context of a CPU is in the lock code.
LEMMA OneContextPerCpu ==
  ASSUME HolderRuns, NEW p \in Procs, NEW q \in Procs,
         pc[p] # "idle", pc[q] # "idle", Cpu(p) = Cpu(q)
  PROVE  p = q
BY ProcParts DEF HolderRuns

\* A step that stays in the lock code and changes no interrupt state.
LEMMA MoveKeepsDiscipline ==
  ASSUME TypeOK, HolderRuns, IrqFlagBalanced, ModesKept, NoNesting, NoPanic,
         NEW p \in Procs, NEW l \in Labels \ {"idle", "panic", "halted"},
         pc[p] # "idle", Goto(p, l)
  PROVE  HolderRuns' /\ IrqFlagBalanced' /\ ModesKept' /\ NoNesting' /\ NoPanic'
<1>1. /\ pc'[p] = l /\ \A q \in Procs \ {p} : pc'[q] = pc[q]
      /\ UNCHANGED <<mode, flags, ifl, depth>>
  BY GotoType DEF TypeOK, Goto
<1>2. \A q \in Procs : pc'[q] = "idle" <=> pc[q] = "idle"
  BY <1>1
<1>3. \A c \in CPUs : <<c, 0>> \in Procs
  BY DepthAssumption DEF Procs
<1> QED
  BY <1>1, <1>2, <1>3 DEF HolderRuns, IrqFlagBalanced, ModesKept, NoNesting, NoPanic

\* Every action preserves the disciplined invariant.
LEMMA DInvStep ==
  ASSUME Discipline
  PROVE  DInv /\ [Next]_vars => DInv'
<1> SUFFICES ASSUME DInv, [Next]_vars PROVE DInv'
  OBVIOUS
<1>0. /\ Inv /\ Inv' /\ TypeOK /\ HolderRuns /\ IrqFlagBalanced
      /\ ModesKept /\ NoNesting /\ NoPanic
  BY InvStep DEF DInv, Inv
<1> DEFINE Goal == HolderRuns' /\ IrqFlagBalanced' /\ ModesKept' /\ NoNesting' /\ NoPanic'
<1>1. ASSUME NEW p \in Procs, Step(p) PROVE Goal
  <2>0. Cpu(p) \in CPUs
    BY ProcParts
  <2>1. CASE CheckRecursion(p)
    <3>1. pc[p] = "check"
      BY <2>1 DEF CheckRecursion, Running
    <3>2. owner_cpu # Cpu(p)
      <4>1. SUFFICES ASSUME owner_cpu = Cpu(p) PROVE FALSE
        OBVIOUS
      <4>2. PICK q \in Procs : pc[q] \in Recorded /\ Cpu(q) = Cpu(p)
        BY <1>0, <2>0, <4>1, CpuAssumption DEF Inv, OwnerCoherent
      <4>3. q = p
        BY <1>0, <3>1, <4>2, OneContextPerCpu DEF Recorded
      <4> QED
        BY <3>1, <4>2, <4>3 DEF Recorded
    <3>3. Goto(p, "cas")
      BY <2>1, <3>2 DEF CheckRecursion
    <3> QED
      BY <1>0, <3>1, <3>3, MoveKeepsDiscipline DEF Labels
  <2>2. CASE CompareAndSwap(p) \/ SpinWait(p) \/ SetOwner(p) \/ ClearOwner(p) \/ ReleaseLock(p)
    <3>1. /\ pc[p] # "idle"
          /\ \E l \in {"setowner", "cas", "cs", "release", "restore"} : Goto(p, l)
      BY <2>2 DEF CompareAndSwap, SpinWait, SetOwner, ClearOwner, ReleaseLock, Running
    <3> QED
      BY <1>0, <3>1, MoveKeepsDiscipline DEF Labels
  <2>3. CASE CompareAndSwapFails(p)
    <3>1. pc[p] = "cas"
      BY <2>3 DEF CompareAndSwapFails, Running
    <3>2. CASE mode[p] # "try"
      <4>1. Goto(p, "spin")
        BY <2>3, <3>2 DEF CompareAndSwapFails
      <4> QED
        BY <1>0, <3>1, <4>1, MoveKeepsDiscipline DEF Labels
    <3>3. CASE mode[p] = "try"
      <4>1. Goto(p, "idle")
        BY <2>3, <3>3 DEF CompareAndSwapFails
      <4>2. /\ pc'[p] = "idle" /\ \A q \in Procs \ {p} : pc'[q] = pc[q]
            /\ UNCHANGED <<mode, flags, ifl, depth>>
        BY <1>0, <4>1, GotoType DEF TypeOK, Goto, Labels
      <4>3. Level(p) # 0
        BY <1>0, <3>1, <3>3 DEF ModesKept, ModesOf, Discipline
      <4>4. depth[Cpu(p)] # 0
        BY <1>0, <3>1, <4>3 DEF HolderRuns
      <4>5. IrqFlagBalanced'
        <5> SUFFICES ASSUME NEW c \in CPUs, depth[c] = 0 PROVE pc'[<<c, 0>>] = "idle" => ifl[c]
          BY <1>0, <4>2 DEF IrqFlagBalanced
        <5>1. <<c, 0>> \in Procs /\ <<c, 0>> # p
          BY <4>4, DepthAssumption DEF Procs, Cpu
        <5> QED
          BY <1>0, <4>2, <5>1 DEF IrqFlagBalanced
      <4> QED
        BY <1>0, <4>2, <4>5 DEF HolderRuns, ModesKept, NoNesting, NoPanic
    <3> QED
      BY <3>2, <3>3
  <2>4. CASE spin_assert_locked(p)
    <3>1. pc[p] = "cs" /\ lock = 1
      BY <1>0, <2>4 DEF spin_assert_locked, Running, Inv, LockWord, Holding
    <3>2. Goto(p, "asserted")
      BY <2>4, <3>1 DEF spin_assert_locked, spin_is_locked
    <3> QED
      BY <1>0, <3>1, <3>2, MoveKeepsDiscipline DEF Labels
  <2>5. CASE CheckOwner(p)
    <3>1. pc[p] # "idle" /\ owner_cpu = Cpu(p)
      BY <1>0, <2>5 DEF CheckOwner, Running, Inv, OwnerCoherent, Recorded
    <3>2. Goto(p, "clear")
      BY <2>5, <3>1 DEF CheckOwner
    <3> QED
      BY <1>0, <3>1, <3>2, MoveKeepsDiscipline DEF Labels
  <2>6. CASE RestoreIrq(p)
    <3>1. /\ pc[p] = "restore" /\ pc'[p] = "idle" /\ \A q \in Procs \ {p} : pc'[q] = pc[q]
          /\ UNCHANGED <<mode, flags, depth>>
          /\ depth[Cpu(p)] = Level(p)
          /\ \A c \in CPUs \ {Cpu(p)} : ifl'[c] = ifl[c]
      BY <1>0, <2>6 DEF RestoreIrq, LeaveLockCode, Running, TypeOK, ContextTypeOK
    <3>2. ifl'[Cpu(p)] <=> Level(p) = 0
      <4>1. ifl'[Cpu(p)] = IF mode[p] = "irqsave" THEN flags[p]
                           ELSE ifl[Cpu(p)] \/ mode[p] = "irq"
        BY <1>0, <2>0, <2>6 DEF RestoreIrq, LeaveLockCode, TypeOK, ContextTypeOK
      <4>2. ~ ifl[Cpu(p)] /\ mode[p] \in ModesOf(p)
        BY <1>0, <3>1 DEF HolderRuns, ModesKept
      <4>3. CASE mode[p] = "irqsave"
        BY <1>0, <3>1, <4>1, <4>3 DEF ModesKept
      <4>4. CASE mode[p] # "irqsave"
        <5>1. mode[p] = "irq" <=> Level(p) = 0
          BY <4>2, <4>4 DEF ModesOf, Discipline
        <5> QED
          BY <4>1, <4>2, <4>4, <5>1
      <4> QED
        BY <4>3, <4>4
    <3>3. \A q \in Procs : pc'[q] # "idle" => Cpu(q) # Cpu(p) /\ pc[q] # "idle"
      BY <1>0, <3>1, OneContextPerCpu
    <3>4. HolderRuns'
      BY <1>0, <3>1, <3>3, ProcParts DEF HolderRuns
    <3>5. IrqFlagBalanced'
      <4> SUFFICES ASSUME NEW c \in CPUs
                   PROVE  IF depth[c] = 0 THEN pc'[<<c, 0>>] = "idle" => ifl'[c] ELSE ~ ifl'[c]
        BY <3>1 DEF IrqFlagBalanced
      <4>1. CASE c = Cpu(p)
        BY <3>1, <3>2, <4>1
      <4>2. CASE c # Cpu(p)
        <5>1. <<c, 0>> \in Procs \ {p}
          BY <4>2, DepthAssumption DEF Procs, Cpu
        <5> QED
          BY <1>0, <3>1, <4>2, <5>1 DEF IrqFlagBalanced
      <4> QED
        BY <4>1, <4>2
    <3> QED
      BY <1>0, <3>1, <3>4, <3>5 DEF ModesKept, NoNesting, NoPanic
  <2>7. CASE HaltCpu(p)
    BY <1>0, <2>7 DEF HaltCpu, Halt, Running, NoPanic
  <2> QED
    BY <1>1, <2>1, <2>2, <2>3, <2>4, <2>5, <2>6, <2>7 DEF Step
<1>2. ASSUME NEW p \in Procs, NEW m \in Modes, BeginLock(p, m) PROVE Goal
  <2>0. Cpu(p) \in CPUs
    BY ProcParts
  <2>1. /\ pc[p] = "idle" /\ pc'[p] = "check" /\ \A q \in Procs \ {p} : pc'[q] = pc[q]
        /\ depth[Cpu(p)] = Level(p) /\ UNCHANGED depth
        /\ m \in ModesOf(p)
        /\ mode'[p] = m /\ flags'[p] = ((m = "irqsave") /\ ifl[Cpu(p)])
        /\ \A q \in Procs \ {p} : mode'[q] = mode[q] /\ flags'[q] = flags[q]
        /\ ifl'[Cpu(p)] = (ifl[Cpu(p)] /\ m \notin {"irq", "irqsave"})
        /\ \A c \in CPUs \ {Cpu(p)} : ifl'[c] = ifl[c]
    BY <1>0, <1>2, <2>0
       DEF BeginLock, EnterLockCode, Running, TypeOK, ContextTypeOK
  <2>2. ifl[Cpu(p)] <=> Level(p) = 0
    <3>1. Level(p) = 0 => p = <<Cpu(p), 0>>
      BY ProcParts
    <3> QED
      BY <1>0, <2>0, <2>1, <3>1 DEF IrqFlagBalanced
  <2>3. ~ ifl'[Cpu(p)]
    BY <2>1, <2>2 DEF ModesOf, Discipline
  <2>4. \A q \in Procs \ {p} : Cpu(q) = Cpu(p) => pc[q] = "idle"
    BY <1>0, <2>1, ProcParts DEF HolderRuns
  <2>5. HolderRuns'
    BY <1>0, <2>1, <2>3, <2>4, ProcParts DEF HolderRuns
  <2>6. IrqFlagBalanced'
    <3> SUFFICES ASSUME NEW c \in CPUs
                 PROVE  IF depth[c] = 0 THEN pc'[<<c, 0>>] = "idle" => ifl'[c] ELSE ~ ifl'[c]
      BY <2>1 DEF IrqFlagBalanced
    <3>1. CASE c = Cpu(p)
      <4>1. depth[c] = 0 => <<c, 0>> = p
        BY <2>1, <3>1, ProcParts
      <4> QED
        BY <2>1, <2>3, <3>1, <4>1
    <3>2. CASE c # Cpu(p)
      <4>1. <<c, 0>> \in Procs \ {p}
        BY <3>2, DepthAssumption DEF Procs, Cpu
      <4> QED
        BY <1>0, <2>1, <3>2, <4>1 DEF IrqFlagBalanced
    <3> QED
      BY <3>1, <3>2
  <2>7. ModesKept'
    <3>1. ModesOf(p)' = ModesOf(p) /\ Level(p)' = Level(p)
      BY DEF ModesOf, Level
    <3> QED
      BY <1>0, <2>1, <2>2 DEF ModesKept
  <2> QED
    BY <1>0, <2>1, <2>5, <2>6, <2>7 DEF NoNesting, NoPanic
<1>3. ASSUME NEW c \in CPUs, Interrupt(c) PROVE Goal
  <2>0. <<c, depth[c]>> \in Procs /\ depth[c] \in {0, 1}
    BY <1>0 DEF Procs, NoNesting, TypeOK, ContextTypeOK
  <2>1. UNCHANGED <<pc, mode, flags>>
    BY <1>3 DEF Interrupt, IrqEnter, IrqExit
  <2>2. CASE IrqEnter(c)
    <3>1. ifl[c] /\ ~ ifl'[c] /\ \A d \in CPUs \ {c} : ifl'[d] = ifl[d] /\ depth'[d] = depth[d]
      BY <1>0, <2>2 DEF IrqEnter, TypeOK, ContextTypeOK
    <3>2. depth[c] = 0
      BY <1>0, <3>1 DEF IrqFlagBalanced
    <3>3. depth'[c] = 1
      BY <1>0, <2>2, <3>2 DEF IrqEnter, TypeOK, ContextTypeOK
    <3>4. \A q \in Procs : pc[q] # "idle" => Cpu(q) # c
      BY <1>0, <3>1 DEF HolderRuns
    <3> QED
      BY <1>0, <2>1, <3>1, <3>3, <3>4, ProcParts
         DEF HolderRuns, IrqFlagBalanced, ModesKept, NoNesting, NoPanic
  <2>3. CASE IrqExit(c)
    <3>1. /\ depth[c] = 1 /\ pc[<<c, depth[c]>>] = "idle" /\ ifl'[c] /\ depth'[c] = 0
          /\ \A d \in CPUs \ {c} : ifl'[d] = ifl[d] /\ depth'[d] = depth[d]
      BY <1>0, <2>0, <2>3 DEF IrqExit, TypeOK, ContextTypeOK
    <3>2. \A q \in Procs : pc[q] # "idle" => Cpu(q) # c
      BY <1>0, <3>1, ProcParts DEF HolderRuns
    <3> QED
      BY <1>0, <2>1, <3>1, <3>2, ProcParts
         DEF HolderRuns, IrqFlagBalanced, ModesKept, NoNesting, NoPanic
  <2> QED
    BY <1>3, <2>2, <2>3 DEF Interrupt
<1>4. ASSUME UNCHANGED vars PROVE Goal
  BY <1>0, <1>4 DEF vars, HolderRuns, IrqFlagBalanced, ModesKept, NoNesting, NoPanic
<1> QED
  BY <1>0, <1>1, <1>2, <1>3, <1>4 DEF Next, DInv

\* The disciplined invariant holds initially.
LEMMA DInvInit == Init => DInv
<1> SUFFICES ASSUME Init PROVE DInv
  OBVIOUS
<1>1. /\ \A p \in Procs : pc[p] = "idle"
      /\ \A c \in CPUs : ifl[c] /\ depth[c] = 0
  BY DEF Init, ContextInit
<1> QED
  BY <1>1, InvInit DEF DInv, HolderRuns, IrqFlagBalanced, ModesKept, NoNesting, NoPanic

\* If the mainline takes the lock with interrupts disabled and handlers do not
\* enable them, no recursion, ownership or assertion check of the lock code
\* ever panics.
THEOREM SpinLockNoPanic == ASSUME Discipline PROVE Spec => []NoPanic
<1>1. Init => DInv
  BY DInvInit
<1>2. DInv /\ [Next]_vars => DInv'
  BY DInvStep
<1>3. DInv => NoPanic
  BY DEF DInv
<1> QED
  BY <1>1, <1>2, <1>3, PTL DEF Spec

\* Under the same assumption no context is suspended in the lock code, so an
\* interrupt handler never spins on a lock its own CPU holds.
THEOREM SpinLockHolderRuns == ASSUME Discipline PROVE Spec => []HolderRuns
<1>1. Init => DInv
  BY DInvInit
<1>2. DInv /\ [Next]_vars => DInv'
  BY DInvStep
<1>3. DInv => HolderRuns
  BY DEF DInv
<1> QED
  BY <1>1, <1>2, <1>3, PTL DEF Spec

\* Under the same assumption every lock/unlock pair gives the interrupt flag
\* back as it found it.
THEOREM SpinLockIrqFlagBalanced == ASSUME Discipline PROVE Spec => []IrqFlagBalanced
<1>1. Init => DInv
  BY DInvInit
<1>2. DInv /\ [Next]_vars => DInv'
  BY DInvStep
<1>3. DInv => IrqFlagBalanced
  BY DEF DInv
<1> QED
  BY <1>1, <1>2, <1>3, PTL DEF Spec

-------------------------------------------------------------------------------
(* Self-deadlock, without any discipline *)

\* A context in the lock code is the running one of its CPU or lies below it.
Nested == \A p \in Procs : pc[p] # "idle" => Level(p) <= depth[Cpu(p)]

\* SelfDeadlockOnlyInWindow for spin_trylock too, which passes the same check.
Window ==
  \A p, q \in Procs :
    /\ pc[p] \in {"cas", "spin"} /\ pc[q] \in Holding
    /\ Cpu(p) = Cpu(q) /\ Level(q) < Level(p)
    => pc[q] \in {"setowner", "release"}

\* A step of the running context p keeps both if p gets past the recursion
\* check only while owner_cpu is not its CPU: a context below p that holds the
\* lock has not recorded it then, and does not run until p is gone.
LEMMA StepKeepsWindow ==
  ASSUME TypeOK, OwnerCoherent, Nested, Window, NEW p \in Procs,
         depth[Cpu(p)] = Level(p), UNCHANGED depth,
         \A q \in Procs \ {p} : pc'[q] = pc[q],
         pc'[p] \in {"cas", "spin"} => pc[p] \in {"cas", "spin"} \/ owner_cpu # Cpu(p)
  PROVE  Nested' /\ Window'
<1>1. \A q \in Procs : Cpu(q) \in CPUs /\ Level(q) \in Nat /\ depth[Cpu(q)] \in Nat
  BY ProcParts, DepthAssumption DEF TypeOK, ContextTypeOK
<1>2. Nested'
  BY <1>1 DEF Nested
<1>3. ASSUME NEW r \in Procs, NEW q \in Procs,
             pc'[r] \in {"cas", "spin"}, pc'[q] \in Holding,
             Cpu(r) = Cpu(q), Level(q) < Level(r)
      PROVE  pc'[q] \in {"setowner", "release"}
  <2>1. q # p
    BY <1>1, <1>3 DEF Nested
  <2>2. CASE r # p \/ pc[p] \in {"cas", "spin"}
    BY <1>3, <2>1, <2>2 DEF Window
  <2>3. CASE r = p /\ owner_cpu # Cpu(p)
    BY <1>3, <2>1, <2>3 DEF OwnerCoherent, Holding, Recorded
  <2> QED
    BY <1>3, <2>2, <2>3
<1> QED
  BY <1>2, <1>3 DEF Window

\* Every action preserves the two.
LEMMA WindowStep == Inv /\ Nested /\ Window /\ [Next]_vars => Nested' /\ Window'
<1> SUFFICES ASSUME Inv, Nested, Window, [Next]_vars PROVE Nested' /\ Window'
  OBVIOUS
<1>0. TypeOK /\ OwnerCoherent
  BY DEF Inv
<1>1. ASSUME NEW p \in Procs, Step(p) PROVE Nested' /\ Window'
  <2>1. depth[Cpu(p)] = Level(p)
    BY <1>1 DEF Step, CheckRecursion, CompareAndSwap, CompareAndSwapFails, SpinWait,
                SetOwner, spin_assert_locked, CheckOwner, ClearOwner, ReleaseLock,
                RestoreIrq, LeaveLockCode, HaltCpu, Halt, Running
  <2>2. UNCHANGED depth /\ \A q \in Procs \ {p} : pc'[q] = pc[q]
    BY <1>0, <1>1 DEF Step, CheckRecursion, CompareAndSwap, CompareAndSwapFails, SpinWait,
                SetOwner, spin_assert_locked, CheckOwner, ClearOwner, ReleaseLock,
                RestoreIrq, LeaveLockCode, HaltCpu, Halt, Goto, TypeOK, ContextTypeOK
  <2>3. pc'[p] \in {"cas", "spin"} => pc[p] \in {"cas", "spin"} \/ owner_cpu # Cpu(p)
    BY <1>0, <1>1 DEF Step, CheckRecursion, CompareAndSwap, CompareAndSwapFails, SpinWait,
                SetOwner, spin_assert_locked, CheckOwner, ClearOwner, ReleaseLock,
                RestoreIrq, LeaveLockCode, HaltCpu, Halt, Goto, Running, TypeOK, ContextTypeOK
  <2> QED
    BY <1>0, <2>1, <2>2, <2>3, StepKeepsWindow
<1>2. ASSUME NEW p \in Procs, NEW m \in Modes, BeginLock(p, m) PROVE Nested' /\ Window'
  <2>1. /\ depth[Cpu(p)] = Level(p) /\ UNCHANGED depth /\ pc'[p] = "check"
        /\ \A q \in Procs \ {p} : pc'[q] = pc[q]
    BY <1>0, <1>2 DEF BeginLock, EnterLockCode, Running, TypeOK, ContextTypeOK
  <2> QED
    BY <1>0, <2>1, StepKeepsWindow
<1>3. ASSUME NEW c \in CPUs, Interrupt(c) PROVE Nested' /\ Window'
  <2>1. UNCHANGED pc
    BY <1>3 DEF Interrupt, IrqEnter, IrqExit
  <2>2. \A p \in Procs : /\ Cpu(p) \in CPUs /\ Level(p) \in Nat /\ depth[Cpu(p)] \in Nat
                         /\ p = <<Cpu(p), Level(p)>>
    BY <1>0, ProcParts, DepthAssumption DEF TypeOK, ContextTypeOK
  <2>3. ASSUME NEW p \in Procs, pc[p] # "idle" PROVE Level(p) <= depth'[Cpu(p)]
    <3>1. CASE IrqEnter(c)
      BY <1>0, <2>2, <2>3, <3>1 DEF IrqEnter, Nested, TypeOK, ContextTypeOK
    <3>2. CASE IrqExit(c)
      BY <1>0, <2>2, <2>3, <3>2 DEF IrqExit, Nested, TypeOK, ContextTypeOK
    <3> QED
      BY <1>3, <3>1, <3>2 DEF Interrupt
  <2> QED
    BY <2>1, <2>3 DEF Nested, Window
<1>4. CASE UNCHANGED vars
  BY <1>4 DEF vars, Nested, Window
<1> QED
  BY <1>1, <1>2, <1>3, <1>4 DEF Next

\* Whatever variants mainline and handlers use, the recursion check of spin_lock
\* turns every attempt to take a lock the own CPU holds into a panic, but for
\* the two windows in which the lock is taken and its owner not recorded.
THEOREM SpinLockSelfDeadlockOnlyInWindow == Spec => []SelfDeadlockOnlyInWindow
<1>1. Init => Nested /\ Window
  BY DEF Init, ContextInit, Nested, Window, Holding
<1>2. Window => SelfDeadlockOnlyInWindow
  BY DEF Window, SelfDeadlockOnlyInWindow, SelfDeadlock
<1> QED
  BY <1>1, <1>2, WindowStep, SpinLockInv, PTL DEF Spec

-------------------------------------------------------------------------------
(* Refinement *)

\* The holder of the abstract mutex is the context that holds the lock.
LEMMA HolderIs ==
  ASSUME MutualExclusion, lock = 1, NEW p \in Procs, pc[p] \in Holding
  PROVE  holder = p
<1> DEFINE h == CHOOSE q \in Procs : pc[q] \in Holding
<1>1. h \in Procs /\ pc[h] \in Holding
  BY Zenon
<1>2. h = p
  BY <1>1 DEF MutualExclusion
<1> QED
  BY <1>2 DEF holder

\* The same, in the next state.
LEMMA HolderBecomes ==
  ASSUME MutualExclusion', lock' = 1, NEW p \in Procs, pc'[p] \in Holding
  PROVE  holder' = p
<1> DEFINE h == CHOOSE q \in Procs : pc'[q] \in Holding
<1>1. h \in Procs /\ pc'[h] \in Holding
  BY Zenon
<1>2. h = p
  BY <1>1 DEF MutualExclusion
<1> QED
  BY <1>2 DEF holder

\* Winning the swap is the abstract acquisition, storing 0 the release, and
\* every other step of the lock code leaves the abstract holder alone.
LEMMA MutexStep == Inv /\ Inv' /\ [Next]_vars => [M!Next]_holder
<1> SUFFICES ASSUME Inv, Inv', [Next]_vars PROVE [M!Next]_holder
  OBVIOUS
<1>0. /\ MutualExclusion /\ MutualExclusion' /\ LockWord /\ LockWord'
      /\ TypeOK /\ TypeOK'
  BY DEF Inv
<1>1. ASSUME NEW p \in Procs, CompareAndSwap(p) PROVE M!Next
  <2>1. lock = 0 /\ lock' = 1 /\ pc'[p] = "setowner"
    BY <1>0, <1>1 DEF CompareAndSwap, Goto, TypeOK, ContextTypeOK
  <2>2. holder = NoProc /\ holder' = p
    BY <1>0, <2>1, HolderBecomes DEF holder, Holding
  <2> QED
    BY <2>2 DEF M!Next, M!Acquire
<1>2. ASSUME NEW p \in Procs, ReleaseLock(p) PROVE M!Next
  <2>1. pc[p] = "release" /\ lock' = 0
    BY <1>2 DEF ReleaseLock, Running
  <2>2. lock = 1
    BY <1>0, <2>1 DEF LockWord, Holding
  <2>3. holder = p /\ holder' = NoProc
    BY <1>0, <2>1, <2>2, HolderIs DEF holder, Holding
  <2> QED
    BY <2>3 DEF M!Next, M!Release
<1>3. ASSUME UNCHANGED lock, \A q \in Procs : pc[q] \in Holding => pc'[q] \in Holding
      PROVE  UNCHANGED holder
  <2>1. CASE lock = 0
    BY <1>3, <2>1 DEF holder
  <2>2. CASE lock = 1
    <3>1. PICK p \in Procs : pc[p] \in Holding
      BY <1>0, <2>2 DEF LockWord
    <3>2. pc'[p] \in Holding /\ lock' = 1
      BY <1>3, <2>2, <3>1
    <3> QED
      BY <1>0, <2>2, <3>1, <3>2, HolderIs, HolderBecomes
  <2> QED
    BY <1>0, <2>1, <2>2 DEF TypeOK
<1>4. ASSUME NEW p \in Procs, Step(p), ~ CompareAndSwap(p), ~ ReleaseLock(p)
      PROVE  /\ UNCHANGED lock
             /\ \A q \in Procs : pc[q] \in Holding => pc'[q] \in Holding
  <2>1. UNCHANGED lock /\ \A q \in Procs \ {p} : pc'[q] = pc[q]
    BY <1>0, <1>4 DEF Step, CheckRecursion, CompareAndSwapFails, SpinWait, SetOwner,
         spin_assert_locked, CheckOwner, ClearOwner, RestoreIrq, LeaveLockCode,
         HaltCpu, Halt, Goto, TypeOK, ContextTypeOK
  <2>2. ASSUME pc[p] \in Holding PROVE pc'[p] \in Holding
    <3>1. PICK q \in Procs : pc'[q] \in Holding
      <4>1. lock' = 1
        BY <1>0, <2>1, <2>2 DEF LockWord
      <4> QED
        BY <1>0, <4>1 DEF LockWord
    <3>2. q # p => pc[q] \in Holding
      BY <2>1, <3>1
    <3> QED
      BY <1>0, <2>2, <3>1, <3>2 DEF MutualExclusion
  <2> QED
    BY <2>1, <2>2
<1>5. ASSUME NEW p \in Procs, NEW m \in Modes, BeginLock(p, m)
      PROVE  /\ UNCHANGED lock
             /\ \A q \in Procs : pc[q] \in Holding => pc'[q] \in Holding
  BY <1>0, <1>5
     DEF BeginLock, EnterLockCode, Running, Holding, TypeOK, ContextTypeOK
<1>6. ASSUME NEW c \in CPUs, Interrupt(c) PROVE UNCHANGED <<lock, pc>>
  BY <1>6 DEF Interrupt, IrqEnter, IrqExit
<1>7. CASE UNCHANGED vars
  BY <1>3, <1>7 DEF vars
<1>8. CASE Next
  BY <1>1, <1>2, <1>3, <1>4, <1>5, <1>6, <1>8 DEF Next
<1> QED
  BY <1>7, <1>8

\* The lock word and the owner field implement the abstract mutex: a free lock
\* is taken by one context, and given back by that context only.
THEOREM SpinLockRefinesMutex == Spec => M!Spec
<1>1. Init => M!Init
  BY DEF Init, spin_lock_init, holder, M!Init
<1> QED
  BY <1>1, MutexStep, SpinLockInv, PTL DEF Spec, M!Spec
===============================================================================
