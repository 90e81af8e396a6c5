------------------------------- MODULE RwMutex -------------------------------
(***************************************************************************)
(* What a reader-writer lock promises: any number of readers or one        *)
(* writer, never both.  RwLock implements this specification.              *)
(***************************************************************************)
CONSTANT Procs          \* the execution contexts that use the lock

VARIABLES readers,      \* those that hold the lock for reading
          writers       \* those that hold it for writing

rwVars == <<readers, writers>>

Init == readers = {} /\ writers = {}

AcquireRead(p) ==
  /\ writers = {}
  /\ readers' = readers \cup {p}
  /\ UNCHANGED writers

AcquireWrite(p) ==
  /\ readers = {} /\ writers = {}
  /\ writers' = {p}
  /\ UNCHANGED readers

Release(p) ==
  /\ p \in readers \cup writers
  /\ readers' = readers \ {p}
  /\ writers' = writers \ {p}

Next == \E p \in Procs : AcquireRead(p) \/ AcquireWrite(p) \/ Release(p)

Spec == Init /\ [][Next]_rwVars
==============================================================================
