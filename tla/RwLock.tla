-------------------------------- MODULE RwLock --------------------------------
(***************************************************************************)
(* The reader-writer lock of kernel/include/spinlock.h, lines 206-430.     *)
(*                                                                         *)
(* lock, reader_count and writer_waiting are three separate words; each    *)
(* access to one of them is a step of its own.  In particular the test     *)
(* "writer_waiting || (lock & RWLOCK_WRITE_BIAS)" of lines 225, 232, 306   *)
(* and 313 reads writer_waiting first and lock in a later step.            *)
(*                                                                         *)
(* The lock has been through rwlock_init (the magic checks do not fire).   *)
(* reader_count would wrap only with 2^32 contexts, so the increments of   *)
(* lines 230 and 311 never return 0.                                       *)
(***************************************************************************)
EXTENDS Contexts, FiniteSets

RWLOCK_WRITE_BIAS == 16777216    \* 0x01000000

ASSUME FiniteCpus == IsFiniteSet(CPUs)

VARIABLES lock,             \* lock->lock: 0 or RWLOCK_WRITE_BIAS
          reader_count,
          writer_waiting

lockVars == <<lock, reader_count, writer_waiting>>
vars == <<lock, reader_count, writer_waiting, pc, mode, flags, ifl, depth>>

Labels == {"idle", "rww", "rlock", "rinc", "rww2", "rlock2", "rundo", "reading",
           "wmark", "wcas", "wdrain", "wunmark", "wtest", "wundo", "writing",
           "restore"}

\* The contexts reader_count counts, the ones writer_waiting counts, the one
\* that owns the lock word, and those that hold the lock as their callers see it.
Registered == {"rww2", "rlock2", "rundo", "reading"}
Waiting    == {"wcas", "wdrain", "wunmark"}
Biased     == {"wdrain", "wunmark", "wtest", "wundo", "writing"}
WriteHeld  == {"wunmark", "writing"}

At(S) == {p \in Procs : pc[p] \in S}

rwlock_init == lock = 0 /\ reader_count = 0 /\ writer_waiting = 0

Init == rwlock_init /\ ContextInit

-------------------------------------------------------------------------------
(* read_lock and read_trylock *)

BeginRead(p, m) == EnterLockCode(p, m, "rww") /\ UNCHANGED lockVars

\* Mutant: a reader that backed off counts itself again without waiting.
Retry_Recounts(p) == IF mode[p] = "try" THEN "idle" ELSE "rinc"

\* A reader that meets a writer: read_trylock gives up, read_lock starts over.
Retry(p) == IF mode[p] = "try" THEN "idle" ELSE "rww"

ReadWaiting(p) ==
  /\ Running(p, "rww")
  /\ Goto(p, IF writer_waiting # 0 THEN Retry(p) ELSE "rlock")
  /\ UNCHANGED lockVars

\* Mutant: the first wait for writers uncounts a reader that was not counted.
ReadBias_Uncounts(p) ==
  /\ Running(p, "rlock")
  /\ Goto(p, IF lock # 0 THEN Retry(p) ELSE "rinc")
  /\ reader_count' = reader_count - (IF lock # 0 THEN 1 ELSE 0)
  /\ UNCHANGED <<lock, writer_waiting>>

ReadBias(p) ==
  /\ Running(p, "rlock")
  /\ Goto(p, IF lock # 0 THEN Retry(p) ELSE "rinc")
  /\ UNCHANGED lockVars

CountReader(p) ==
  /\ Running(p, "rinc")
  /\ reader_count' = reader_count + 1
  /\ Goto(p, "rww2")
  /\ UNCHANGED <<lock, writer_waiting>>

RecheckWaiting(p) ==
  /\ Running(p, "rww2")
  /\ Goto(p, IF writer_waiting # 0 THEN "rundo" ELSE "rlock2")
  /\ UNCHANGED lockVars

\* Mutant: the second look at the lock word is dropped.
RecheckBias_Dropped(p) ==
  /\ Running(p, "rlock2")
  /\ Goto(p, "reading")
  /\ UNCHANGED lockVars

RecheckBias(p) ==
  /\ Running(p, "rlock2")
  /\ Goto(p, IF lock # 0 THEN "rundo" ELSE "reading")
  /\ UNCHANGED lockVars

\* Mutant: a reader that backs off stays counted.
UncountReader_Kept(p) ==
  /\ Running(p, "rundo")
  /\ Goto(p, Retry(p))
  /\ UNCHANGED lockVars

UncountReader(p) ==
  /\ Running(p, "rundo")
  /\ reader_count' = reader_count - 1
  /\ Goto(p, Retry(p))
  /\ UNCHANGED <<lock, writer_waiting>>

read_unlock(p) ==
  /\ Running(p, "reading")
  /\ reader_count' = reader_count - 1
  /\ Goto(p, "restore")
  /\ UNCHANGED <<lock, writer_waiting>>

-------------------------------------------------------------------------------
(* write_lock and write_trylock *)

BeginWrite(p, m) ==
  /\ EnterLockCode(p, m, IF m = "try" THEN "wcas" ELSE "wmark")
  /\ UNCHANGED lockVars

MarkWaiting(p) ==
  /\ Running(p, "wmark")
  /\ writer_waiting' = writer_waiting + 1
  /\ Goto(p, "wcas")
  /\ UNCHANGED <<lock, reader_count>>

TakeBias(p) ==
  /\ Running(p, "wcas")
  /\ lock = 0
  /\ lock' = RWLOCK_WRITE_BIAS
  /\ Goto(p, IF mode[p] = "try" THEN "wtest" ELSE "wdrain")
  /\ UNCHANGED <<reader_count, writer_waiting>>

\* write_trylock returns 0; write_lock would retry the swap (a stutter).
TryBiasFails(p) ==
  /\ Running(p, "wcas")
  /\ lock # 0 /\ mode[p] = "try"
  /\ Goto(p, "idle")
  /\ UNCHANGED lockVars

DrainReaders(p) ==
  /\ Running(p, "wdrain")
  /\ reader_count = 0
  /\ Goto(p, "wunmark")
  /\ UNCHANGED lockVars

UnmarkWaiting(p) ==
  /\ Running(p, "wunmark")
  /\ writer_waiting' = writer_waiting - 1
  /\ Goto(p, "writing")
  /\ UNCHANGED <<lock, reader_count>>

\* Mutant: write_trylock does not look for readers.
TryTestReaders_Unchecked(p) ==
  /\ Running(p, "wtest")
  /\ Goto(p, "writing")
  /\ UNCHANGED lockVars

TryTestReaders(p) ==
  /\ Running(p, "wtest")
  /\ Goto(p, IF reader_count > 0 THEN "wundo" ELSE "writing")
  /\ UNCHANGED lockVars

TryUndo(p) ==
  /\ Running(p, "wundo")
  /\ lock' = 0
  /\ Goto(p, "idle")
  /\ UNCHANGED <<reader_count, writer_waiting>>

write_unlock(p) ==
  /\ Running(p, "writing")
  /\ lock' = 0
  /\ Goto(p, "restore")
  /\ UNCHANGED <<reader_count, writer_waiting>>

-------------------------------------------------------------------------------

RestoreIrq(p) == LeaveLockCode(p) /\ UNCHANGED lockVars

ReadStep(p) ==
  \/ ReadWaiting(p) \/ ReadBias(p) \/ CountReader(p) \/ RecheckWaiting(p)
  \/ RecheckBias(p) \/ UncountReader(p) \/ read_unlock(p)

WriteStep(p) ==
  \/ MarkWaiting(p) \/ TakeBias(p) \/ TryBiasFails(p) \/ DrainReaders(p)
  \/ UnmarkWaiting(p) \/ TryTestReaders(p) \/ TryUndo(p) \/ write_unlock(p)

Step(p) == ReadStep(p) \/ WriteStep(p) \/ RestoreIrq(p)

Return(c) == IrqExit(c) /\ UNCHANGED lockVars

Next ==
  \/ \E p \in Procs : \/ Step(p)
                      \/ \E m \in Modes : BeginRead(p, m) \/ BeginWrite(p, m)
  \/ \E c \in CPUs : Return(c) \/ (IrqEnter(c) /\ UNCHANGED lockVars)

Spec == Init /\ [][Next]_vars

\* CPUs execute instructions, sections end and handlers return; nothing is
\* assumed of who wins a race for the lock word.
Fairness ==
  /\ \A p \in Procs : WF_vars(Step(p))
  /\ \A c \in CPUs : WF_vars(Return(c))

FairSpec == Spec /\ Fairness

-------------------------------------------------------------------------------
(* Properties *)

\* Every variable has its type.
TypeOK ==
  /\ lock \in {0, RWLOCK_WRITE_BIAS}
  /\ reader_count \in Nat
  /\ writer_waiting \in Nat
  /\ ContextTypeOK(Labels)

\* A writer excludes readers and other writers, though the reader registers
\* and looks at the lock word in different steps, and the writer takes the
\* word and looks at the reader count in different steps.
RWExclusion ==
  \A p, q \in Procs : pc[p] \in WriteHeld /\ pc[q] \in WriteHeld \cup {"reading"} => p = q

\* The two counters count the contexts they stand for whatever the order of
\* increments, back-offs and unlocks; neither underflows.
CountsExact ==
  /\ reader_count = Cardinality(At(Registered))
  /\ writer_waiting = Cardinality({p \in At(Waiting) : mode[p] # "try"})

\* A writer that has the lock word gets the lock: readers that come and go
\* cannot keep reader_count above zero for ever, and under Discipline no
\* reader is suspended below a context that waits for the writer.
DrainCompletes ==
  \A p \in Procs : pc[p] = "wdrain" ~> pc[p] = "writing"

-------------------------------------------------------------------------------
(* Refinement *)

readers == At({"reading"})
writers == At(WriteHeld)

RW == INSTANCE RwMutex WITH Procs <- Procs, readers <- readers, writers <- writers

\* The three words implement the abstract reader-writer lock.
ImplementsRwMutex == RW!Spec
===============================================================================
