-------------------------------- MODULE Mutex --------------------------------
(***************************************************************************)
(* What a lock of kernel/include/spinlock.h promises to its callers: it is *)
(* held by at most one execution context at a time, only a free lock is    *)
(* acquired, only its holder releases it, and a held lock is released.     *)
(* SpinLock implements this specification.                                 *)
(***************************************************************************)
CONSTANTS Procs,        \* the execution contexts that use the lock
          NoProc        \* the holder of a free lock

VARIABLE holder

Init == holder = NoProc

Acquire(p) == holder = NoProc /\ holder' = p

Release(p) == holder = p /\ holder' = NoProc

Next == \E p \in Procs : Acquire(p) \/ Release(p)

Spec == Init /\ [][Next]_holder

FairSpec == Spec /\ \A p \in Procs : WF_holder(Release(p))
==============================================================================
