----------------------------- MODULE RwLockProofs -----------------------------
(***************************************************************************)
(* Proofs about the reader-writer lock, for any finite number of CPUs, any *)
(* nesting of interrupts and any use of the variants.                      *)
(*                                                                         *)
(* The argument is the handshake of the two words.  A reader counts itself *)
(* before it looks at the lock word, a writer takes the lock word before   *)
(* it looks at the count, so one of the two sees the other.  It needs the  *)
(* counts to be exact, which in turn is what keeps them natural numbers.   *)
(***************************************************************************)
EXTENDS RwLock, FiniteSetTheorems, TLAPS

\* A context that won the lock word has it, and is the only one.
BiasWord == \A p \in Procs : pc[p] \in Biased => lock # 0
OneBiased == \A p, q \in Procs : pc[p] \in Biased /\ pc[q] \in Biased => p = q

\* Only write_lock waits to drain readers, only write_trylock tests for them.
ModesFit ==
  \A p \in Procs :
    /\ pc[p] \in {"wmark", "wdrain", "wunmark"} => mode[p] # "try"
    /\ pc[p] \in {"wtest", "wundo"} => mode[p] = "try"

\* The inductive invariant, but for ModesFit, which is inductive by itself.
Inv == TypeOK /\ CountsExact /\ BiasWord /\ OneBiased /\ RWExclusion

\* What a context at label l with mode m adds to the two counters.
ReaderShare(l) == IF l \in Registered THEN 1 ELSE 0
WaiterShare(l, m) == IF l \in Waiting /\ m # "try" THEN 1 ELSE 0

WaitingWriters == {p \in At(Waiting) : mode[p] # "try"}

-------------------------------------------------------------------------------
(* Counting contexts *)

\* There are finitely many contexts.
LEMMA ProcsFinite == IsFiniteSet(Procs)
<1>1. IsFiniteSet(0 .. Depth)
  BY DepthAssumption, FS_Interval
<1> QED
  BY <1>1, FiniteCpus, FS_Product DEF Procs

\* Two sets of contexts that differ at most in p differ by p in cardinality.
LEMMA CountMove ==
  ASSUME NEW S \in SUBSET Procs, NEW T \in SUBSET Procs, NEW p \in Procs,
         \A q \in Procs \ {p} : q \in S <=> q \in T
  PROVE  /\ Cardinality(S) \in Nat /\ Cardinality(T) \in Nat
         /\ Cardinality(T) = Cardinality(S) + (IF p \in T THEN 1 ELSE 0)
                                            - (IF p \in S THEN 1 ELSE 0)
<1>1. /\ IsFiniteSet(S) /\ IsFiniteSet(T)
      /\ Cardinality(S) \in Nat /\ Cardinality(T) \in Nat
  BY ProcsFinite, FS_Subset, FS_CardinalityType
<1>2. CASE p \in T /\ p \notin S
  <2>1. T = S \cup {p}
    BY <1>2
  <2> QED
    BY <1>1, <1>2, <2>1, FS_AddElement
<1>3. CASE p \notin T /\ p \in S
  <2>1. T = S \ {p}
    BY <1>3
  <2> QED
    BY <1>1, <1>3, <2>1, FS_RemoveElement
<1>4. CASE p \in T <=> p \in S
  <2>1. T = S
    BY <1>4
  <2> QED
    BY <1>1, <1>4, <2>1
<1> QED
  BY <1>2, <1>3, <1>4

\* A step of p that adds its new share to each counter and takes its old one
\* keeps the counters exact, and natural numbers.
LEMMA CountsKept ==
  ASSUME CountsExact, NEW p \in Procs,
         \A q \in Procs \ {p} : pc'[q] = pc[q] /\ mode'[q] = mode[q],
         reader_count' = reader_count + ReaderShare(pc'[p]) - ReaderShare(pc[p]),
         writer_waiting' = writer_waiting + WaiterShare(pc'[p], mode'[p])
                                          - WaiterShare(pc[p], mode[p])
  PROVE  CountsExact' /\ reader_count' \in Nat /\ writer_waiting' \in Nat
<1>1. /\ Cardinality(At(Registered)) \in Nat /\ Cardinality(At(Registered)') \in Nat
      /\ Cardinality(At(Registered)') = Cardinality(At(Registered))
           + ReaderShare(pc'[p]) - ReaderShare(pc[p])
  <2> DEFINE S == At(Registered)
             T == {q \in Procs : pc'[q] \in Registered}
  <2>1. S \in SUBSET Procs /\ T \in SUBSET Procs /\ \A q \in Procs \ {p} : q \in S <=> q \in T
    BY DEF At
  <2>2. (p \in S <=> pc[p] \in Registered) /\ (p \in T <=> pc'[p] \in Registered)
    BY DEF At
  <2>3. At(Registered)' = T
    BY DEF At, Registered
  <2> HIDE DEF S, T
  <2>4. /\ Cardinality(S) \in Nat /\ Cardinality(T) \in Nat
        /\ Cardinality(T) = Cardinality(S) + (IF p \in T THEN 1 ELSE 0)
                                           - (IF p \in S THEN 1 ELSE 0)
    BY <2>1, CountMove
  <2> QED
    BY <2>2, <2>3, <2>4 DEF ReaderShare, S
<1>2. /\ Cardinality(WaitingWriters) \in Nat /\ Cardinality(WaitingWriters') \in Nat
      /\ Cardinality(WaitingWriters') = Cardinality(WaitingWriters)
           + WaiterShare(pc'[p], mode'[p]) - WaiterShare(pc[p], mode[p])
  <2> DEFINE S == WaitingWriters
             T == {q \in Procs : pc'[q] \in Waiting /\ mode'[q] # "try"}
  <2>1. S \in SUBSET Procs /\ T \in SUBSET Procs /\ \A q \in Procs \ {p} : q \in S <=> q \in T
    BY DEF WaitingWriters, At
  <2>2. /\ p \in S <=> pc[p] \in Waiting /\ mode[p] # "try"
        /\ p \in T <=> pc'[p] \in Waiting /\ mode'[p] # "try"
    BY DEF WaitingWriters, At
  <2>3. WaitingWriters' = T
    BY DEF WaitingWriters, At, Waiting
  <2> HIDE DEF S, T
  <2>4. /\ Cardinality(S) \in Nat /\ Cardinality(T) \in Nat
        /\ Cardinality(T) = Cardinality(S) + (IF p \in T THEN 1 ELSE 0)
                                           - (IF p \in S THEN 1 ELSE 0)
    BY <2>1, CountMove
  <2> QED
    BY <2>2, <2>3, <2>4 DEF WaiterShare, S
<1> QED
  BY <1>1, <1>2 DEF CountsExact, WaitingWriters

\* A count of zero means that nobody is registered.
LEMMA ZeroMeansNone ==
  ASSUME CountsExact, reader_count = 0, NEW p \in Procs
  PROVE  pc[p] \notin Registered
<1>1. IsFiniteSet(At(Registered)) /\ Cardinality(At(Registered)) = 0
  BY ProcsFinite, FS_Subset DEF CountsExact, At
<1>2. At(Registered) = {}
  BY <1>1, FS_EmptySet
<1> QED
  BY <1>2 DEF At

-------------------------------------------------------------------------------
(* The invariant *)

\* What a step of p must respect, whatever the action: it keeps the counters'
\* shares, takes the lock word only when it is free and gives it up only if it
\* has it, becomes a reader only while the word is free, and a writer only
\* while nobody is registered.
LEMMA MoveKeepsInv ==
  ASSUME Inv, NEW p \in Procs, ContextTypeOK(Labels)', lock' \in {0, RWLOCK_WRITE_BIAS},
         \A q \in Procs \ {p} : pc'[q] = pc[q] /\ mode'[q] = mode[q],
         reader_count' = reader_count + ReaderShare(pc'[p]) - ReaderShare(pc[p]),
         writer_waiting' = writer_waiting + WaiterShare(pc'[p], mode'[p])
                                          - WaiterShare(pc[p], mode[p]),
         pc'[p] \in Biased => lock' # 0 /\ (pc[p] \in Biased \/ lock = 0),
         pc'[p] \notin Biased => pc[p] \in Biased \/ lock' = lock,
         pc'[p] = "reading" => pc[p] = "reading" \/ lock = 0,
         pc'[p] \in WriteHeld => pc[p] \in WriteHeld \/ reader_count = 0
  PROVE  Inv'
<1>1. CountsExact' /\ reader_count' \in Nat /\ writer_waiting' \in Nat
  BY CountsKept DEF Inv
<1>2. BiasWord'
  BY DEF Inv, BiasWord, OneBiased
<1>3. OneBiased'
  BY DEF Inv, BiasWord, OneBiased
<1>4. RWExclusion'
  <2> SUFFICES ASSUME NEW u \in Procs, NEW v \in Procs, pc'[u] \in WriteHeld,
                      pc'[v] \in WriteHeld \cup {"reading"}
               PROVE  u = v
    BY DEF RWExclusion
  <2>1. CASE pc'[v] \in WriteHeld
    BY <1>3, <2>1 DEF OneBiased, WriteHeld, Biased
  <2>2. CASE pc'[v] = "reading" /\ u = p
    <3>1. v # p /\ pc[v] = "reading"
      BY <2>2 DEF WriteHeld
    <3>2. CASE pc[p] \in WriteHeld
      BY <2>2, <3>1, <3>2 DEF Inv, RWExclusion
    <3>3. CASE reader_count = 0
      BY <3>1, <3>3, ZeroMeansNone DEF Inv, Registered
    <3> QED
      BY <2>2, <3>2, <3>3
  <2>3. CASE pc'[v] = "reading" /\ u # p /\ v = p
    <3>1. pc[u] \in WriteHeld /\ lock # 0
      BY <2>3 DEF Inv, BiasWord, WriteHeld, Biased
    <3> QED
      BY <2>3, <3>1 DEF Inv, RWExclusion
  <2>4. CASE pc'[v] = "reading" /\ u # p /\ v # p
    BY <2>4 DEF Inv, RWExclusion
  <2> QED
    BY <2>1, <2>2, <2>3, <2>4
<1> QED
  BY <1>1, <1>2, <1>3, <1>4 DEF Inv, TypeOK

\* Every step inside the lock code is a Goto with a change of one word.
LEMMA GotoEffect ==
  ASSUME TypeOK, NEW p \in Procs, NEW l \in Labels, Goto(p, l)
  PROVE  /\ ContextTypeOK(Labels)' /\ pc'[p] = l /\ mode' = mode
         /\ \A q \in Procs \ {p} : pc'[q] = pc[q]
BY DEF TypeOK, ContextTypeOK, Goto

\* The reader's steps preserve the invariant.
LEMMA ReadStepInv == ASSUME Inv, NEW p \in Procs, ReadStep(p) PROVE Inv'
<1>0. TypeOK /\ reader_count \in Nat /\ writer_waiting \in Nat /\ lock \in {0, RWLOCK_WRITE_BIAS}
  BY DEF Inv, TypeOK
<1> USE DEF ReaderShare, WaiterShare, Registered, Waiting, Biased, WriteHeld
<1>1. CASE ReadWaiting(p) \/ ReadBias(p)
  <2>1. PICK l \in {"idle", "rww", "rlock", "rinc"} : Goto(p, l)
    BY <1>1 DEF ReadWaiting, ReadBias, Retry
  <2>2. l \in Labels
    BY DEF Labels
  <2>3. pc[p] \in {"rww", "rlock"} /\ UNCHANGED lockVars
    BY <1>1 DEF ReadWaiting, ReadBias, Running
  <2> QED
    BY <1>0, <2>1, <2>2, <2>3, GotoEffect, MoveKeepsInv DEF lockVars
<1>2. CASE CountReader(p)
  <2>1. "rww2" \in Labels
    BY DEF Labels
  <2> QED
    BY <1>0, <1>2, <2>1, GotoEffect, MoveKeepsInv DEF CountReader, Running
<1>3. CASE RecheckWaiting(p)
  <2>1. PICK l \in {"rundo", "rlock2"} : Goto(p, l)
    BY <1>3 DEF RecheckWaiting
  <2>2. l \in Labels
    BY DEF Labels
  <2>3. pc[p] = "rww2" /\ UNCHANGED lockVars
    BY <1>3 DEF RecheckWaiting, Running
  <2> QED
    BY <1>0, <2>1, <2>2, <2>3, GotoEffect, MoveKeepsInv DEF lockVars
<1>4. CASE RecheckBias(p)
  <2>1. PICK l \in {"rundo", "reading"} : Goto(p, l) /\ (l = "reading" => lock = 0)
    BY <1>0, <1>4 DEF RecheckBias
  <2>2. l \in Labels
    BY DEF Labels
  <2>3. pc[p] = "rlock2" /\ UNCHANGED lockVars
    BY <1>4 DEF RecheckBias, Running
  <2> QED
    BY <1>0, <2>1, <2>2, <2>3, GotoEffect, MoveKeepsInv DEF lockVars
<1>5. CASE UncountReader(p)
  <2>1. PICK l \in {"idle", "rww"} : Goto(p, l)
    BY <1>5 DEF UncountReader, Retry
  <2>2. l \in Labels
    BY DEF Labels
  <2>3. /\ pc[p] = "rundo" /\ reader_count' = reader_count - 1
        /\ UNCHANGED <<lock, writer_waiting>>
    BY <1>5 DEF UncountReader, Running
  <2> QED
    BY <1>0, <2>1, <2>2, <2>3, GotoEffect, MoveKeepsInv
<1>6. CASE read_unlock(p)
  <2>1. "restore" \in Labels
    BY DEF Labels
  <2> QED
    BY <1>0, <1>6, <2>1, GotoEffect, MoveKeepsInv DEF read_unlock, Running
<1> QED
  BY <1>1, <1>2, <1>3, <1>4, <1>5, <1>6 DEF ReadStep

\* The writer's steps preserve the invariant.  They depend on the mode: only
\* write_lock counts itself as waiting.
LEMMA WriteStepInv ==
  ASSUME Inv, NEW p \in Procs, WriteStep(p),
         pc[p] \in {"wmark", "wdrain", "wunmark"} => mode[p] # "try",
         pc[p] \in {"wtest", "wundo"} => mode[p] = "try"
  PROVE  Inv'
<1>0. TypeOK /\ reader_count \in Nat /\ writer_waiting \in Nat /\ lock \in {0, RWLOCK_WRITE_BIAS}
  BY DEF Inv, TypeOK
<1>00. RWLOCK_WRITE_BIAS # 0
  BY DEF RWLOCK_WRITE_BIAS
<1>01. {"wcas", "wdrain", "wtest", "wunmark", "writing", "wundo", "idle", "restore"} \subseteq Labels
  BY DEF Labels
<1>02. pc[p] \in Biased => lock # 0
  BY DEF Inv, BiasWord
<1> USE DEF ReaderShare, WaiterShare, Registered, Waiting, Biased, WriteHeld
<1>1. CASE MarkWaiting(p)
  BY <1>0, <1>01, <1>1, GotoEffect, MoveKeepsInv DEF MarkWaiting, Running
<1>2. CASE TakeBias(p)
  <2>1. CASE mode[p] = "try"
    BY <1>0, <1>00, <1>01, <1>2, <2>1, GotoEffect, MoveKeepsInv DEF TakeBias, Running
  <2>2. CASE mode[p] # "try"
    BY <1>0, <1>00, <1>01, <1>2, <2>2, GotoEffect, MoveKeepsInv DEF TakeBias, Running
  <2> QED
    BY <2>1, <2>2
<1>3. CASE TryBiasFails(p)
  BY <1>0, <1>01, <1>3, GotoEffect, MoveKeepsInv DEF TryBiasFails, Running, lockVars
<1>4. CASE DrainReaders(p)
  BY <1>0, <1>01, <1>02, <1>4, GotoEffect, MoveKeepsInv DEF DrainReaders, Running, lockVars
<1>5. CASE UnmarkWaiting(p)
  BY <1>0, <1>01, <1>02, <1>5, GotoEffect, MoveKeepsInv DEF UnmarkWaiting, Running
<1>6. CASE TryTestReaders(p)
  <2>1. PICK l \in {"wundo", "writing"} : Goto(p, l) /\ (l = "writing" => reader_count = 0)
    BY <1>0, <1>6 DEF TryTestReaders
  <2>2. pc[p] = "wtest" /\ UNCHANGED lockVars
    BY <1>6 DEF TryTestReaders, Running
  <2> QED
    BY <1>0, <1>01, <1>02, <2>1, <2>2, GotoEffect, MoveKeepsInv DEF lockVars
<1>7. CASE TryUndo(p) \/ write_unlock(p)
  <2>1. PICK l \in {"idle", "restore"} : Goto(p, l)
    BY <1>7 DEF TryUndo, write_unlock
  <2>2. pc[p] \in {"wundo", "writing"} /\ lock' = 0 /\ UNCHANGED <<reader_count, writer_waiting>>
    BY <1>7 DEF TryUndo, write_unlock, Running
  <2> QED
    BY <1>0, <1>01, <2>1, <2>2, GotoEffect, MoveKeepsInv
<1> QED
  BY <1>1, <1>2, <1>3, <1>4, <1>5, <1>6, <1>7 DEF WriteStep

\* ModesFit is preserved: the mode changes only on entry to the lock code.
LEMMA ModesFitStep == TypeOK /\ ModesFit /\ [Next]_vars => ModesFit'
<1> SUFFICES ASSUME TypeOK, ModesFit, [Next]_vars PROVE ModesFit'
  OBVIOUS
<1> USE DEF ModesFit, TypeOK, ContextTypeOK
<1>1. ASSUME NEW p \in Procs, ReadStep(p) PROVE ModesFit'
  BY <1>1 DEF ReadStep, ReadWaiting, ReadBias, CountReader, RecheckWaiting, RecheckBias,
       UncountReader, read_unlock, Retry, Goto
<1>2. ASSUME NEW p \in Procs, WriteStep(p) PROVE ModesFit'
  BY <1>2 DEF WriteStep, MarkWaiting, TakeBias, TryBiasFails, DrainReaders,
       UnmarkWaiting, TryTestReaders, TryUndo, write_unlock, Goto, Running
<1>3. ASSUME NEW p \in Procs, RestoreIrq(p) PROVE ModesFit'
  BY <1>3 DEF RestoreIrq, LeaveLockCode
<1>4. ASSUME NEW p \in Procs, NEW m \in Modes, BeginRead(p, m) \/ BeginWrite(p, m)
      PROVE  ModesFit'
  BY <1>4 DEF BeginRead, BeginWrite, EnterLockCode
<1>5. ASSUME UNCHANGED <<pc, mode>> PROVE ModesFit'
  BY <1>5
<1>6. ASSUME NEW c \in CPUs, Return(c) \/ IrqEnter(c) PROVE UNCHANGED <<pc, mode>>
  BY <1>6 DEF Return, IrqEnter, IrqExit
<1> QED
  BY <1>1, <1>2, <1>3, <1>4, <1>5, <1>6 DEF Next, Step, vars

\* Entering and leaving the lock code, and interrupts, preserve the invariant.
LEMMA OuterStepInv ==
  ASSUME Inv
  PROVE  /\ \A p \in Procs : RestoreIrq(p) => Inv'
         /\ \A p \in Procs, m \in Modes : BeginRead(p, m) \/ BeginWrite(p, m) => Inv'
         /\ \A c \in CPUs : (Return(c) \/ IrqEnter(c)) /\ UNCHANGED lockVars => Inv'
<1>0. TypeOK /\ reader_count \in Nat /\ writer_waiting \in Nat /\ lock \in {0, RWLOCK_WRITE_BIAS}
  BY DEF Inv, TypeOK
<1>1. ASSUME NEW p \in Procs, RestoreIrq(p) PROVE Inv'
  <2>0. Cpu(p) \in CPUs
    BY DEF Procs, Cpu
  <2>1. ifl' \in [CPUs -> BOOLEAN]
    <3>1. flags[p] \in BOOLEAN /\ ifl[Cpu(p)] \in BOOLEAN
      BY <1>0, <2>0 DEF TypeOK, ContextTypeOK
    <3> QED
      BY <1>0, <1>1, <2>0, <3>1 DEF RestoreIrq, LeaveLockCode, TypeOK, ContextTypeOK
  <2>2. /\ ContextTypeOK(Labels)' /\ pc[p] = "restore" /\ pc'[p] = "idle"
        /\ mode' = mode /\ \A q \in Procs \ {p} : pc'[q] = pc[q]
        /\ UNCHANGED lockVars
    BY <1>0, <1>1, <2>1 DEF RestoreIrq, LeaveLockCode, Running, TypeOK, ContextTypeOK, Labels
  <2> QED
    BY <1>0, <2>2, MoveKeepsInv
       DEF lockVars, ReaderShare, WaiterShare, Registered, Waiting, Biased, WriteHeld
<1>2. ASSUME NEW p \in Procs, NEW m \in Modes, BeginRead(p, m) \/ BeginWrite(p, m) PROVE Inv'
  <2>0. Cpu(p) \in CPUs
    BY DEF Procs, Cpu
  <2>1. PICK l \in {"rww", "wmark", "wcas"} : EnterLockCode(p, m, l) /\ (l = "wcas" => m = "try")
    BY <1>2 DEF BeginRead, BeginWrite
  <2>2. ifl' \in [CPUs -> BOOLEAN] /\ flags' \in [Procs -> BOOLEAN]
    BY <1>0, <2>0, <2>1 DEF EnterLockCode, TypeOK, ContextTypeOK
  <2>3. /\ ContextTypeOK(Labels)' /\ pc[p] = "idle" /\ pc'[p] = l /\ mode'[p] = m
        /\ \A q \in Procs \ {p} : pc'[q] = pc[q] /\ mode'[q] = mode[q]
    BY <1>0, <2>1, <2>2 DEF EnterLockCode, Running, TypeOK, ContextTypeOK, Labels
  <2>4. UNCHANGED lockVars
    BY <1>2 DEF BeginRead, BeginWrite
  <2> QED
    BY <1>0, <2>1, <2>3, <2>4, MoveKeepsInv
       DEF lockVars, ReaderShare, WaiterShare, Registered, Waiting, Biased, WriteHeld
<1>3. ASSUME NEW c \in CPUs, Return(c) \/ IrqEnter(c), UNCHANGED lockVars PROVE Inv'
  <2>1. UNCHANGED <<pc, mode>> /\ ContextTypeOK(Labels)'
    <3>1. depth[c] \in 0 .. Depth
      BY <1>0 DEF TypeOK, ContextTypeOK
    <3>2. CASE Return(c)
      BY <1>0, <3>1, <3>2, DepthAssumption DEF Return, IrqExit, TypeOK, ContextTypeOK
    <3>3. CASE IrqEnter(c)
      BY <1>0, <3>1, <3>3, DepthAssumption DEF IrqEnter, TypeOK, ContextTypeOK
    <3> QED
      BY <1>3, <3>2, <3>3
  <2> QED
    BY <1>3, <2>1 DEF Inv, lockVars, TypeOK, CountsExact, BiasWord, OneBiased, RWExclusion, At
<1> QED
  BY <1>1, <1>2, <1>3

\* Every action preserves the invariant.
LEMMA InvStep == Inv /\ ModesFit /\ [Next]_vars => (Inv /\ ModesFit)'
<1> SUFFICES ASSUME Inv, ModesFit, [Next]_vars PROVE Inv' /\ ModesFit'
  OBVIOUS
<1>1. ModesFit'
  BY ModesFitStep DEF Inv
<1>2. CASE UNCHANGED vars
  BY <1>1, <1>2 DEF Inv, vars, TypeOK, ContextTypeOK, CountsExact, BiasWord, OneBiased,
       RWExclusion, At
<1>3. ASSUME NEW p \in Procs, Step(p) PROVE Inv'
  <2>1. CASE WriteStep(p)
    BY <2>1, WriteStepInv DEF ModesFit
  <2> QED
    BY <1>3, <2>1, ReadStepInv, OuterStepInv DEF Step
<1>4. ASSUME NEW c \in CPUs, Return(c) \/ (IrqEnter(c) /\ UNCHANGED lockVars) PROVE Inv'
  <2>1. UNCHANGED lockVars
    BY <1>4 DEF Return
  <2> QED
    BY <1>4, <2>1, OuterStepInv
<1>5. CASE Next
  BY <1>1, <1>3, <1>4, <1>5, OuterStepInv DEF Next
<1> QED
  BY <1>2, <1>5

\* The invariant holds initially.
LEMMA InvInit == Init => Inv /\ ModesFit
<1> SUFFICES ASSUME Init PROVE Inv /\ ModesFit
  OBVIOUS
<1>1. \A p \in Procs : pc[p] = "idle"
  BY DEF Init, ContextInit
<1>2. At(Registered) = {} /\ WaitingWriters = {}
  BY <1>1 DEF WaitingWriters, At, Registered, Waiting
<1>3. CountsExact
  BY <1>2, FS_EmptySet DEF Init, rwlock_init, CountsExact, WaitingWriters
<1>4. TypeOK
  BY DepthAssumption DEF Init, rwlock_init, ContextInit, TypeOK, ContextTypeOK, Labels, Modes
<1> QED
  BY <1>1, <1>3, <1>4 DEF Inv, ModesFit, BiasWord, OneBiased, RWExclusion, Biased, WriteHeld

\* The inductive invariant is an invariant.
THEOREM RwLockInv == Spec => [](Inv /\ ModesFit)
BY InvInit, InvStep, PTL DEF Spec

\* Type correctness; in particular neither counter ever underflows.
THEOREM RwLockTypeOK == Spec => []TypeOK
<1>1. Inv => TypeOK
  BY DEF Inv
<1> QED
  BY <1>1, RwLockInv, PTL

\* A writer excludes readers and other writers, though the two words are never
\* read and written in one step.
THEOREM RwLockExclusion == Spec => []RWExclusion
<1>1. Inv => RWExclusion
  BY DEF Inv
<1> QED
  BY <1>1, RwLockInv, PTL

\* reader_count and writer_waiting are exactly the numbers of contexts that
\* are registered or waiting.
THEOREM RwLockCountsExact == Spec => []CountsExact
<1>1. Inv => CountsExact
  BY DEF Inv
<1> QED
  BY <1>1, RwLockInv, PTL

-------------------------------------------------------------------------------
(* Refinement *)

\* A step of p that takes it in or out of no critical section is a stutter.
LEMMA MoveStutters ==
  ASSUME NEW p \in Procs, \A q \in Procs \ {p} : pc'[q] = pc[q],
         pc'[p] = "reading" <=> pc[p] = "reading",
         pc'[p] \in WriteHeld <=> pc[p] \in WriteHeld
  PROVE  UNCHANGED RW!rwVars
<1>1. \A q \in Procs : /\ pc'[q] = "reading" <=> pc[q] = "reading"
                       /\ pc'[q] \in WriteHeld <=> pc[q] \in WriteHeld
  OBVIOUS
<1>2. UNCHANGED readers
  BY <1>1 DEF readers, At
<1>3. UNCHANGED writers
  BY <1>1 DEF writers, At, WriteHeld
<1> QED
  BY <1>2, <1>3 DEF RW!rwVars

\* A step that makes p a reader while the lock word is free.
LEMMA BecomesReader ==
  ASSUME Inv, NEW p \in Procs, \A q \in Procs \ {p} : pc'[q] = pc[q],
         pc[p] = "rlock2", pc'[p] = "reading", lock = 0
  PROVE  RW!Next
<1>1. writers = {} /\ UNCHANGED writers
  BY DEF Inv, BiasWord, writers, At, WriteHeld, Biased
<1>2. readers' = readers \cup {p}
  BY DEF readers, At
<1> QED
  BY <1>1, <1>2 DEF RW!Next, RW!AcquireRead

\* A step that makes p, which has the lock word, a writer while nobody is
\* registered.
LEMMA BecomesWriter ==
  ASSUME Inv, NEW p \in Procs, \A q \in Procs \ {p} : pc'[q] = pc[q],
         pc[p] \in {"wdrain", "wtest"}, pc'[p] \in WriteHeld, reader_count = 0
  PROVE  RW!Next
<1>1. \A q \in Procs : pc[q] \notin WriteHeld
  BY DEF Inv, OneBiased, WriteHeld, Biased
<1>2. \A q \in Procs : pc[q] # "reading"
  BY ZeroMeansNone DEF Inv, Registered
<1>3. readers = {} /\ writers = {}
  BY <1>1, <1>2 DEF readers, writers, At
<1>4. UNCHANGED readers
  BY <1>2, <1>3 DEF readers, At, WriteHeld
<1>5. writers' = {p}
  BY <1>1 DEF writers, At, WriteHeld
<1> QED
  BY <1>3, <1>4, <1>5 DEF RW!Next, RW!AcquireWrite

\* Every step of the lock code is a step of the abstract lock, or a stutter.
LEMMA RwStep == Inv /\ ModesFit /\ [Next]_vars => [RW!Next]_RW!rwVars
<1> SUFFICES ASSUME Inv, ModesFit, [Next]_vars PROVE RW!Next \/ UNCHANGED RW!rwVars
  OBVIOUS
<1>0. TypeOK /\ reader_count \in Nat /\ lock \in {0, RWLOCK_WRITE_BIAS}
  BY DEF Inv, TypeOK
<1> DEFINE Goal == RW!Next \/ UNCHANGED RW!rwVars
<1>1. ASSUME NEW p \in Procs, ReadStep(p) PROVE Goal
  <2>1. CASE RecheckBias(p)
    <3>1. PICK l \in {"rundo", "reading"} :
            Goto(p, l) /\ (l = "reading" => lock = 0) /\ pc[p] = "rlock2"
      BY <2>1 DEF RecheckBias, Running
    <3>2. pc'[p] = l /\ \A q \in Procs \ {p} : pc'[q] = pc[q]
      BY <1>0, <3>1, GotoEffect DEF Labels
    <3> QED
      BY <3>1, <3>2, BecomesReader, MoveStutters DEF WriteHeld
  <2>2. CASE read_unlock(p)
    <3>1. /\ pc[p] = "reading" /\ pc'[p] = "restore"
          /\ \A q \in Procs \ {p} : pc'[q] = pc[q]
      BY <1>0, <2>2, GotoEffect DEF read_unlock, Running, Labels
    <3>2. p \in readers /\ readers' = readers \ {p}
      BY <3>1 DEF readers, At
    <3>3. writers' = writers \ {p}
      BY <3>1 DEF writers, At, WriteHeld
    <3> QED
      BY <3>2, <3>3 DEF RW!Next, RW!Release
  <2>3. CASE ~ RecheckBias(p) /\ ~ read_unlock(p)
    <3>1. PICK l \in {"idle", "rww", "rlock", "rinc", "rww2", "rlock2", "rundo"} : Goto(p, l)
      BY <1>1, <2>3 DEF ReadStep, ReadWaiting, ReadBias, CountReader, RecheckWaiting,
           UncountReader, Retry
    <3>2. pc[p] \in {"rww", "rlock", "rinc", "rww2", "rundo"}
      BY <1>1, <2>3 DEF ReadStep, ReadWaiting, ReadBias, CountReader, RecheckWaiting,
           UncountReader, Running
    <3>3. pc'[p] = l /\ \A q \in Procs \ {p} : pc'[q] = pc[q]
      BY <1>0, <3>1, GotoEffect DEF Labels
    <3> QED
      BY <3>2, <3>3, MoveStutters DEF WriteHeld
  <2> QED
    BY <2>1, <2>2, <2>3
<1>2. ASSUME NEW p \in Procs, WriteStep(p) PROVE Goal
  <2>1. CASE DrainReaders(p)
    <3>1. /\ pc[p] = "wdrain" /\ pc'[p] = "wunmark" /\ reader_count = 0
          /\ \A q \in Procs \ {p} : pc'[q] = pc[q]
      BY <1>0, <2>1, GotoEffect DEF DrainReaders, Running, Labels
    <3> QED
      BY <3>1, BecomesWriter DEF WriteHeld
  <2>2. CASE TryTestReaders(p)
    <3>1. PICK l \in {"wundo", "writing"} :
            Goto(p, l) /\ (l = "writing" => reader_count = 0) /\ pc[p] = "wtest"
      BY <1>0, <2>2 DEF TryTestReaders, Running
    <3>2. pc'[p] = l /\ \A q \in Procs \ {p} : pc'[q] = pc[q]
      BY <1>0, <3>1, GotoEffect DEF Labels
    <3> QED
      BY <3>1, <3>2, BecomesWriter, MoveStutters DEF WriteHeld
  <2>3. CASE write_unlock(p)
    <3>1. /\ pc[p] = "writing" /\ pc'[p] = "restore"
          /\ \A q \in Procs \ {p} : pc'[q] = pc[q]
      BY <1>0, <2>3, GotoEffect DEF write_unlock, Running, Labels
    <3>2. p \in writers /\ writers' = writers \ {p}
      BY <3>1 DEF writers, At, WriteHeld
    <3>3. readers' = readers \ {p}
      BY <3>1 DEF readers, At
    <3> QED
      BY <3>2, <3>3 DEF RW!Next, RW!Release
  <2>4. CASE UnmarkWaiting(p)
    <3>1. /\ pc[p] = "wunmark" /\ pc'[p] = "writing"
          /\ \A q \in Procs \ {p} : pc'[q] = pc[q]
      BY <1>0, <2>4, GotoEffect DEF UnmarkWaiting, Running, Labels
    <3> QED
      BY <3>1, MoveStutters DEF WriteHeld
  <2>5. CASE MarkWaiting(p) \/ TakeBias(p) \/ TryBiasFails(p) \/ TryUndo(p)
    <3>1. PICK l \in {"idle", "wcas", "wtest", "wdrain"} : Goto(p, l)
      BY <2>5 DEF MarkWaiting, TakeBias, TryBiasFails, TryUndo
    <3>2. pc[p] \in {"wmark", "wcas", "wundo"}
      BY <2>5 DEF MarkWaiting, TakeBias, TryBiasFails, TryUndo, Running
    <3>3. pc'[p] = l /\ \A q \in Procs \ {p} : pc'[q] = pc[q]
      BY <1>0, <3>1, GotoEffect DEF Labels
    <3> QED
      BY <3>2, <3>3, MoveStutters DEF WriteHeld
  <2> QED
    BY <1>2, <2>1, <2>2, <2>3, <2>4, <2>5 DEF WriteStep
<1>3. ASSUME NEW p \in Procs, RestoreIrq(p) PROVE Goal
  <2>1. pc[p] = "restore" /\ pc'[p] = "idle" /\ \A q \in Procs \ {p} : pc'[q] = pc[q]
    BY <1>0, <1>3 DEF RestoreIrq, LeaveLockCode, Running, TypeOK, ContextTypeOK
  <2> QED
    BY <2>1, MoveStutters DEF WriteHeld
<1>4. ASSUME NEW p \in Procs, NEW m \in Modes, BeginRead(p, m) \/ BeginWrite(p, m) PROVE Goal
  <2>1. /\ pc[p] = "idle" /\ pc'[p] \in {"rww", "wmark", "wcas"}
        /\ \A q \in Procs \ {p} : pc'[q] = pc[q]
    BY <1>0, <1>4 DEF BeginRead, BeginWrite, EnterLockCode, Running, TypeOK, ContextTypeOK
  <2> QED
    BY <2>1, MoveStutters DEF WriteHeld
<1>5. ASSUME UNCHANGED pc PROVE Goal
  BY <1>5 DEF RW!rwVars, readers, writers, At
<1>6. ASSUME NEW c \in CPUs, Return(c) \/ IrqEnter(c) PROVE UNCHANGED pc
  BY <1>6 DEF Return, IrqEnter, IrqExit
<1> QED
  BY <1>1, <1>2, <1>3, <1>4, <1>5, <1>6 DEF Next, Step, vars

\* The three words of the lock implement the abstract reader-writer lock.
THEOREM RwLockRefinesRwMutex == Spec => ImplementsRwMutex
<1>1. Init => RW!Init
  BY DEF Init, ContextInit, RW!Init, readers, writers, At, WriteHeld
<1> QED
  BY <1>1, RwStep, RwLockInv, PTL DEF Spec, ImplementsRwMutex, RW!Spec
===============================================================================
