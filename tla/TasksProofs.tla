------------------------------ MODULE TasksProofs ------------------------------
(***************************************************************************)
(* Proofs about tasks, pids, stacks and address spaces, for any number of  *)
(* each.                                                                   *)
(*                                                                         *)
(* Two arguments carry them.  A linked task has one usage reference beside *)
(* those others took, and nobody drops that one: finish_task_switch looks  *)
(* at the task that was resumed, which came off the run queue and is not   *)
(* dead.  And a reference count of an address space is the sum of what     *)
(* points to it, which every switch moves from one place to another.       *)
(***************************************************************************)
EXTENDS Tasks, FiniteSetTheorems, TLAPS

\* What is linked, queued, running and current, and what the phases mean.
Linked ==
  /\ queued \subseteq task_list
  /\ curr \in task_list \cup {Idle}
  /\ current_task \in task_list \cup {NULL}
  /\ phase = "boot" => task_list = {}
  /\ phase \in {"run", "switch"} => current_task \in task_list
  /\ phase = "switch" => local_prev = curr
  /\ phase # "switch" => prev_mm = NULL

\* What the fields of a task struct say.
Fields ==
  /\ \A t \in TaskStructs \ task_list : task[t] = Blank /\ refs[t] = 0
  /\ task[Idle].mm = NULL /\ task[Idle].usage = 1 /\ refs[Idle] = 0
  /\ \A t \in task_list : task[t].usage = 1 + refs[t] /\ task[t].stack \in Stacks
  /\ \A t \in AllTasks : task[t].mm # NULL => task[t].active_mm = task[t].mm
  /\ \A t \in AllTasks : task[t].mm # init_mm

\* A queued task is not dead, nor is one that has just been switched to.
LiveQueued ==
  /\ \A t \in queued \cup {Idle} : ~ task[t].dead
  /\ phase = "switch" => ~ task[curr].dead

\* Until the wrap every pid in use is one that next_pid has passed.
PidsBelow == ~ wrapped => \A t \in task_list : task[t].pid < next_pid

Users(m) == {t \in AllTasks : task[t].mm = m}

\* mm_users counts the tasks of an address space; init_mm has one user more.
UsersExact ==
  \A m \in AllMms : mm_users[m] = Cardinality(Users(m)) + (IF m = init_mm THEN 1 ELSE 0)

\* An address space is allocated exactly while it is referred to.
CountAlive == \A m \in Mms : m \in heap <=> mm_count[m] > 0

\* The inductive invariant, in the three layers in which it is proved.
TaskInv == TypeOK /\ Linked /\ Fields /\ LiveQueued
MemInv  == HeapAccounted /\ PidsBelow /\ PidsUniqueUntilWrap
MmInv   == UsersExact /\ MmCountExact /\ CountAlive /\ PageTableAlive
Inv     == TaskInv /\ MemInv /\ MmInv

\* The fields of a task struct, as TypeOK has them.
TaskRec == [pid : 0 .. PID_MAX - 1, dead : BOOLEAN, usage : 0 .. MaxRefs + 1,
            stack : Stacks \cup {IdleStack, NULL}, mm : AllMms \cup {NULL},
            active_mm : AllMms \cup {NULL}, kthread : BOOLEAN]

\* The rest of TypeOK.
MemTypeOK ==
  /\ heap \subseteq TaskStructs \cup Stacks \cup Mms
  /\ next_pid \in 1 .. PID_MAX - 1
  /\ task_list \subseteq TaskStructs /\ orphans \subseteq Stacks
CpuTypeOK ==
  /\ queued \subseteq TaskStructs
  /\ current_task \in TaskStructs \cup {NULL}
  /\ curr \in AllTasks /\ local_prev \in AllTasks
  /\ cr3 \in AllMms /\ prev_mm \in AllMms \cup {NULL}
  /\ phase \in {"boot", "run", "switch", "panic"}
CountTypeOK ==
  /\ mm_users \in [AllMms -> Nat] /\ mm_count \in [AllMms -> Nat] /\ lost \in [AllMms -> Nat]
  /\ refs \in [AllTasks -> 0 .. MaxRefs]

LEMMA TypeParts ==
  /\ TypeOK <=> /\ task \in [AllTasks -> TaskRec] /\ wrapped \in BOOLEAN
                /\ MemTypeOK /\ CpuTypeOK /\ CountTypeOK
  /\ TypeOK' <=> /\ task' \in [AllTasks -> TaskRec] /\ wrapped' \in BOOLEAN
                 /\ MemTypeOK' /\ CpuTypeOK' /\ CountTypeOK'
  BY DEF TypeOK, TaskRec, MemTypeOK, CpuTypeOK, CountTypeOK

-------------------------------------------------------------------------------
(* Counting references *)

\* The tasks that use and that borrow address space m when the fields are f.
UsersOf(f, m)     == {t \in AllTasks : f[t].mm = m}
BorrowersOf(f, m) == {t \in AllTasks : f[t].mm = NULL /\ f[t].active_mm = m}

\* What a task struct r adds to these.
UserShare(r, m)   == IF r.mm = m THEN 1 ELSE 0
BorrowShare(r, m) == IF r.mm = NULL /\ r.active_mm = m THEN 1 ELSE 0

\* There are finitely many tasks.
LEMMA TasksFinite == IsFiniteSet(AllTasks)
  BY TaskAssumption, FS_AddElement DEF AllTasks

\* Two sets of tasks that differ at most in t differ by t in cardinality.
LEMMA CountMove ==
  ASSUME NEW S \in SUBSET AllTasks, NEW T \in SUBSET AllTasks, NEW t \in AllTasks,
         \A u \in AllTasks \ {t} : u \in S <=> u \in T
  PROVE  /\ Cardinality(S) \in Nat /\ Cardinality(T) \in Nat
         /\ Cardinality(T) = Cardinality(S) + (IF t \in T THEN 1 ELSE 0)
                                            - (IF t \in S THEN 1 ELSE 0)
<1>1. /\ IsFiniteSet(S) /\ IsFiniteSet(T)
      /\ Cardinality(S) \in Nat /\ Cardinality(T) \in Nat
  BY TasksFinite, FS_Subset, FS_CardinalityType
<1>2. CASE t \in T /\ t \notin S
  <2>1. T = S \cup {t}
    BY <1>2
  <2> QED
    BY <1>1, <1>2, <2>1, FS_AddElement
<1>3. CASE t \notin T /\ t \in S
  <2>1. T = S \ {t}
    BY <1>3
  <2> QED
    BY <1>1, <1>3, <2>1, FS_RemoveElement
<1>4. CASE t \in T <=> t \in S
  <2>1. T = S
    BY <1>4
  <2> QED
    BY <1>1, <1>4, <2>1
<1> QED
  BY <1>2, <1>3, <1>4

\* Rewriting the fields of one task moves its shares.
LEMMA SharesMove ==
  ASSUME NEW f, NEW g, NEW t \in AllTasks, NEW m,
         \A u \in AllTasks \ {t} : f[u] = g[u]
  PROVE  /\ Cardinality(UsersOf(f, m)) \in Nat /\ Cardinality(UsersOf(g, m)) \in Nat
         /\ Cardinality(BorrowersOf(f, m)) \in Nat /\ Cardinality(BorrowersOf(g, m)) \in Nat
         /\ Cardinality(UsersOf(g, m))
              = Cardinality(UsersOf(f, m)) + UserShare(g[t], m) - UserShare(f[t], m)
         /\ Cardinality(BorrowersOf(g, m))
              = Cardinality(BorrowersOf(f, m)) + BorrowShare(g[t], m) - BorrowShare(f[t], m)
<1>1. /\ Cardinality(UsersOf(f, m)) \in Nat /\ Cardinality(UsersOf(g, m)) \in Nat
      /\ Cardinality(UsersOf(g, m))
           = Cardinality(UsersOf(f, m)) + UserShare(g[t], m) - UserShare(f[t], m)
  <2>1. /\ UsersOf(f, m) \in SUBSET AllTasks /\ UsersOf(g, m) \in SUBSET AllTasks
        /\ \A u \in AllTasks \ {t} : u \in UsersOf(f, m) <=> u \in UsersOf(g, m)
        /\ t \in UsersOf(f, m) <=> f[t].mm = m
        /\ t \in UsersOf(g, m) <=> g[t].mm = m
    BY DEF UsersOf
  <2> QED
    BY <2>1, CountMove DEF UserShare
<1>2. /\ Cardinality(BorrowersOf(f, m)) \in Nat /\ Cardinality(BorrowersOf(g, m)) \in Nat
      /\ Cardinality(BorrowersOf(g, m))
           = Cardinality(BorrowersOf(f, m)) + BorrowShare(g[t], m) - BorrowShare(f[t], m)
  <2>1. /\ BorrowersOf(f, m) \in SUBSET AllTasks /\ BorrowersOf(g, m) \in SUBSET AllTasks
        /\ \A u \in AllTasks \ {t} : u \in BorrowersOf(f, m) <=> u \in BorrowersOf(g, m)
        /\ t \in BorrowersOf(f, m) <=> f[t].mm = NULL /\ f[t].active_mm = m
        /\ t \in BorrowersOf(g, m) <=> g[t].mm = NULL /\ g[t].active_mm = m
    BY DEF BorrowersOf
  <2> QED
    BY <2>1, CountMove DEF BorrowShare
<1> QED
  BY <1>1, <1>2

\* The two counts in the terms of these sets.
CountsFor(f, users, count, left, gone) ==
  \A m \in AllMms :
    /\ users[m] = Cardinality(UsersOf(f, m)) + (IF m = init_mm THEN 1 ELSE 0)
    /\ count[m] = (IF users[m] > 0 THEN 1 ELSE 0) + Cardinality(BorrowersOf(f, m))
                  + (IF left = m THEN 1 ELSE 0) + gone[m]

LEMMA CountsMeaning ==
  /\ CountsFor(task, mm_users, mm_count, prev_mm, lost) <=> UsersExact /\ MmCountExact
  /\ CountsFor(task', mm_users', mm_count', prev_mm', lost') <=> (UsersExact /\ MmCountExact)'
<1>1. \A m : UsersOf(task, m) = Users(m) /\ BorrowersOf(task, m) = Borrowers(m)
  BY DEF UsersOf, Users, BorrowersOf, Borrowers
<1>2. \A m : UsersOf(task', m) = Users(m)' /\ BorrowersOf(task', m) = Borrowers(m)'
  BY DEF UsersOf, Users, BorrowersOf, Borrowers
<1> QED
  BY <1>1, <1>2 DEF CountsFor, UsersExact, MmCountExact

\* The address space a task refers to has a reference that finish_task_switch
\* will not drop, and a user if the task is one.
LEMMA Referred ==
  ASSUME Inv, NEW t \in AllTasks
  PROVE  /\ task[t].mm # NULL => mm_users[task[t].mm] > 0
         /\ task[t].active_mm # NULL =>
              mm_count[task[t].active_mm] > (IF prev_mm = task[t].active_mm THEN 1 ELSE 0)
<1>1. /\ task \in [AllTasks -> TaskRec]
      /\ mm_users \in [AllMms -> Nat] /\ lost \in [AllMms -> Nat]
      /\ task[t].mm \in AllMms \cup {NULL} /\ task[t].active_mm \in AllMms \cup {NULL}
  BY DEF Inv, TaskInv, TypeOK, TaskRec
<1>2. CountsFor(task, mm_users, mm_count, prev_mm, lost)
  BY CountsMeaning DEF Inv, MmInv
<1>3. \A m : /\ IsFiniteSet(UsersOf(task, m)) /\ IsFiniteSet(BorrowersOf(task, m))
             /\ Cardinality(UsersOf(task, m)) \in Nat
             /\ Cardinality(BorrowersOf(task, m)) \in Nat
             /\ t \in UsersOf(task, m) => Cardinality(UsersOf(task, m)) # 0
             /\ t \in BorrowersOf(task, m) => Cardinality(BorrowersOf(task, m)) # 0
  <2>1. \A m : UsersOf(task, m) \in SUBSET AllTasks /\ BorrowersOf(task, m) \in SUBSET AllTasks
    BY DEF UsersOf, BorrowersOf
  <2> QED
    BY <2>1, TasksFinite, FS_Subset, FS_CardinalityType, FS_EmptySet
<1>4. task[t].mm # NULL => mm_users[task[t].mm] > 0
  <2> SUFFICES ASSUME task[t].mm # NULL
               PROVE  mm_users[task[t].mm] > 0
    OBVIOUS
  <2>1. t \in UsersOf(task, task[t].mm)
    BY DEF UsersOf
  <2> QED
    BY <1>1, <1>2, <1>3, <2>1 DEF CountsFor
<1>5. ASSUME task[t].active_mm # NULL
      PROVE  mm_count[task[t].active_mm] > (IF prev_mm = task[t].active_mm THEN 1 ELSE 0)
  <2>1. CASE task[t].mm = NULL
    <3>1. t \in BorrowersOf(task, task[t].active_mm)
      BY <2>1 DEF BorrowersOf
    <3> QED
      BY <1>1, <1>2, <1>3, <1>5, <3>1 DEF CountsFor
  <2>2. CASE task[t].mm # NULL
    <3>1. task[t].active_mm = task[t].mm /\ mm_users[task[t].active_mm] > 0
      BY <1>4, <2>2 DEF Inv, TaskInv, Fields
    <3> QED
      BY <1>1, <1>2, <1>3, <1>5, <3>1 DEF CountsFor
  <2> QED
    BY <2>1, <2>2
<1> QED
  BY <1>4, <1>5

\* What context_switch left for finish_task_switch to drop is counted.
LEMMA HandedOver ==
  ASSUME Inv, prev_mm \in AllMms
  PROVE  mm_count[prev_mm] > 0
<1>1. lost[prev_mm] \in Nat /\ Cardinality(Borrowers(prev_mm)) \in Nat
  <2>1. Borrowers(prev_mm) \in SUBSET AllTasks
    BY DEF Borrowers
  <2> QED
    BY <2>1, TasksFinite, FS_Subset, FS_CardinalityType DEF Inv, TaskInv, TypeOK
<1>2. mm_count[prev_mm] = (IF mm_users[prev_mm] > 0 THEN 1 ELSE 0)
                          + Cardinality(Borrowers(prev_mm)) + 1 + lost[prev_mm]
  BY DEF Inv, MmInv, MmCountExact
<1> QED
  BY <1>1, <1>2

-------------------------------------------------------------------------------
(* The initial states *)

\* Nothing is linked; init_mm has its own user and is borrowed by the idle task.
LEMMA InitInv == Init => Inv
<1> SUFFICES ASSUME Init PROVE Inv
  OBVIOUS
<1>1. /\ \A t \in TaskStructs : task[t] = Blank
      /\ task[Idle] = [pid |-> 0, dead |-> FALSE, usage |-> 1, stack |-> IdleStack,
                       mm |-> NULL, active_mm |-> init_mm, kthread |-> TRUE]
  BY TaskAssumption DEF Init, AllTasks, Blank
<1>2. TypeOK
  <2>1. task \in [AllTasks -> TaskRec]
    <3>1. Blank \in TaskRec /\ task[Idle] \in TaskRec
      BY <1>1, TaskAssumption DEF TaskRec, Blank, AllMms
    <3>2. task = [t \in AllTasks |-> task[t]]
      BY DEF Init
    <3> QED
      BY <1>1, <3>1, <3>2 DEF AllTasks
  <2>2. MemTypeOK /\ CpuTypeOK
    BY TaskAssumption DEF Init, MemTypeOK, CpuTypeOK, AllTasks, AllMms
  <2>3. CountTypeOK
    BY TaskAssumption DEF Init, CountTypeOK
  <2>4. wrapped \in BOOLEAN
    BY Zenon DEF Init
  <2> QED
    BY <2>1, <2>2, <2>3, <2>4, TypeParts
<1>3. Linked /\ LiveQueued /\ Fields
  BY <1>1, TaskAssumption DEF Init, Linked, LiveQueued, Fields, AllTasks, AllMms, Blank
<1>4. MemInv
  BY DEF Init, MemInv, HeapAccounted, PidsBelow, PidsUniqueUntilWrap
<1>5. CountAlive /\ PageTableAlive
  BY <1>1, TaskAssumption DEF Init, CountAlive, PageTableAlive, AllMms
<1>6. UsersExact /\ MmCountExact
  <2>1. \A m \in AllMms :
          Users(m) = {} /\ Borrowers(m) = IF m = init_mm THEN {Idle} ELSE {}
    BY <1>1, TaskAssumption DEF Users, Borrowers, AllTasks, AllMms, Blank
  <2>2. Cardinality({}) = 0 /\ Cardinality({Idle}) = 1
    BY FS_EmptySet, FS_Singleton
  <2>3. \A m \in AllMms : /\ Cardinality(Users(m)) = 0
                          /\ Cardinality(Borrowers(m)) = IF m = init_mm THEN 1 ELSE 0
    BY <2>1, <2>2
  <2>4. NULL \notin AllMms
    BY TaskAssumption DEF AllMms
  <2> QED
    BY <2>3, <2>4 DEF Init, UsersExact, MmCountExact
<1> QED
  BY <1>1, <1>2, <1>3, <1>4, <1>5, <1>6 DEF Inv, TaskInv, MmInv

-------------------------------------------------------------------------------
(* Allocation *)

\* A task struct that kmalloc returns is one nobody refers to.
LEMMA FreshTask ==
  ASSUME Inv, NEW t \in kmalloc(TaskStructs), t # NULL
  PROVE  /\ t \in TaskStructs \ task_list /\ t \in AllTasks /\ t # Idle /\ t \notin heap
         /\ t \notin queued /\ t # curr /\ t # current_task
         /\ task[t] = Blank /\ refs[t] = 0
<1>1. t \in TaskStructs /\ t \notin heap
  BY DEF kmalloc
<1>2. t \notin task_list
  BY <1>1 DEF Inv, MemInv, HeapAccounted
<1>3. t # Idle /\ t \in AllTasks
  BY <1>1, TaskAssumption DEF AllTasks
<1> QED
  BY <1>1, <1>2, <1>3 DEF Inv, TaskInv, Linked, Fields

\* A failed allocation, or one that is given back, leaves the heap as it was.
LEMMA AllocUndone ==
  ASSUME NEW t \in kmalloc(TaskStructs), NEW s \in kmalloc(Stacks)
  PROVE  /\ ~ Allocated(t, s) => HeapAfterAlloc(t, s) = heap
         /\ Allocated(t, s) => HeapAfterAlloc(t, s) \ {t, s} = heap
<1>1. CASE t = NULL
  BY <1>1 DEF HeapAfterAlloc, Allocated
<1>2. CASE t # NULL
  <2>1. t \notin heap /\ (s # NULL => s \notin heap)
    BY <1>2 DEF kmalloc
  <2> QED
    BY <1>2, <2>1 DEF HeapAfterAlloc, Allocated
<1> QED
  BY <1>1, <1>2

\* Pids stay in their range, and a step up is the only one without a wrap.
LEMMA PidRange ==
  ASSUME NEW n \in 1 .. PID_MAX - 1
  PROVE  alloc_pid(n) \in 1 .. PID_MAX - 1 /\ alloc_pid(n) \in {1, n + 1}
  BY TaskAssumption DEF alloc_pid

\* finish_task_switch finds a live task in prev and drops no task struct.
LEMMA NothingReaped ==
  ASSUME Inv, phase = "switch"
  PROVE  ~ task[local_prev].dead
  BY DEF Inv, TaskInv, Linked, LiveQueued

\* A reference that was taken is never the last one.
LEMMA PutFreesNothing ==
  ASSUME Inv, NEW t \in AllTasks, put_task_struct(t)
  PROVE  heap' = heap /\ t \in task_list
<1>1. refs[t] \in Nat /\ refs[t] > 0
  BY DEF put_task_struct, Inv, TaskInv, TypeOK
<1>2. t \in task_list /\ task[t].usage # 1
  BY <1>1, TaskAssumption DEF Inv, TaskInv, Fields, AllTasks
<1> QED
  BY <1>2 DEF put_task_struct, HeapAfterPut

-------------------------------------------------------------------------------
(* The first layer: links, fields and liveness of tasks *)

\* Linking and queueing a new task with fields r.
LEMMA NewTask ==
  ASSUME Inv, phase # "switch", NEW t \in kmalloc(TaskStructs), t # NULL,
         NEW r \in TaskRec, r.usage = 1, r.stack \in Stacks, ~ r.dead,
         r.mm # init_mm, r.mm # NULL => r.active_mm = r.mm,
         task' = [task EXCEPT ![t] = r],
         task_list' = task_list \cup {t}, queued' = queued \cup {t},
         current_task' \in {t, current_task} \ {NULL}, phase' = "run",
         UNCHANGED <<cpuVars, refs>>
  PROVE  task' \in [AllTasks -> TaskRec] /\ CpuTypeOK' /\ Linked' /\ Fields' /\ LiveQueued'
<1>1. task \in [AllTasks -> TaskRec] /\ CpuTypeOK /\ CountTypeOK /\ Linked /\ Fields /\ LiveQueued
  BY TypeParts DEF Inv, TaskInv
<1>2. t \in TaskStructs \ task_list /\ t \in AllTasks /\ t # Idle /\ refs[t] = 0
  BY FreshTask
<1>3. task' \in [AllTasks -> TaskRec]
  BY <1>1, <1>2
<1>4. task'[t] = r /\ \A u \in AllTasks \ {t} : task'[u] = task[u]
  BY <1>1, <1>2
<1>5. CpuTypeOK' /\ Linked'
  BY <1>1, <1>2 DEF CpuTypeOK, Linked, cpuVars
<1>6. Fields'
  BY <1>1, <1>2, <1>4, TaskAssumption DEF Fields, AllTasks
<1>7. LiveQueued'
  BY <1>1, <1>2, <1>4, TaskAssumption DEF LiveQueued, Linked, CpuTypeOK, AllTasks
<1> QED
  BY <1>3, <1>5, <1>6, <1>7

\* What fork makes: a queued task t with fields r, on its parent's stack, and a
\* stack s nobody points to.
NewUser(orig, t, s, r, m) ==
  /\ m \notin heap \/ m = task[orig].mm
  /\ r.mm = m /\ r.active_mm = m
  /\ heap' = heap \cup {t, s, m}
  /\ mm_users' = [mm_users EXCEPT ![m] = @ + 1]
  /\ mm_count' = IF mm_users[m] = 0 THEN [mm_count EXCEPT ![m] = @ + 1] ELSE mm_count

NewKthread(t, s, r) ==
  /\ r.mm = NULL /\ r.active_mm = task[current_task].active_mm
  /\ heap' = heap \cup {t, s}
  /\ mm_count' = IF r.active_mm = NULL THEN mm_count
                 ELSE [mm_count EXCEPT ![r.active_mm] = @ + 1]
  /\ mm_users' = mm_users

ForkMakes(orig, t, s, r) ==
  /\ t # NULL
  /\ r.pid = alloc_pid(next_pid) /\ r.usage = 1 /\ ~ r.dead
  /\ r.stack = task[orig].stack
  /\ task' = [task EXCEPT ![t] = r]
  /\ orphans' = orphans \cup {s}
  /\ task_list' = task_list \cup {t} /\ queued' = queued \cup {t}
  /\ \/ \E m \in Mms : NewUser(orig, t, s, r, m)
     \/ NewKthread(t, s, r)

\* Every fork is of this kind, by a linked task.
LEMMA ForkParts ==
  ASSUME Inv, NEW orig \in AllTasks, Fork(orig)
  PROVE  /\ phase = "run" /\ orig \in task_list /\ TakeTwoPids
         /\ UNCHANGED <<current_task, cpuVars, phase, refs, lost>>
         /\ \E t \in kmalloc(TaskStructs), s \in Stacks \ heap, r \in TaskRec : ForkMakes(orig, t, s, r)
<1>1. /\ task \in [AllTasks -> TaskRec] /\ MemTypeOK /\ Linked /\ Fields
  BY TypeParts DEF Inv, TaskInv
<1>2. /\ phase = "run" /\ TakeTwoPids
      /\ UNCHANGED <<current_task, cpuVars, phase, refs, lost>>
      /\ orig \in {curr, current_task} /\ curr # Idle
  BY DEF Fork
<1>3. orig \in task_list /\ current_task \in task_list /\ current_task \in AllTasks
  BY <1>1, <1>2 DEF Linked, MemTypeOK, AllTasks
<1> DEFINE p == dup_task_struct(orig)
<1>4. /\ p \in TaskRec /\ p.pid = alloc_pid(next_pid) /\ ~ p.dead /\ p.usage = 1
      /\ p.stack = task[orig].stack /\ p.mm = task[orig].mm
  <2>1. task[orig] \in TaskRec /\ alloc_pid(next_pid) \in 0 .. PID_MAX - 1
    BY <1>1, PidRange DEF MemTypeOK
  <2>2. 1 \in 0 .. MaxRefs + 1
    BY TaskAssumption
  <2> QED
    BY <2>1, <2>2 DEF dup_task_struct, TaskRec
<1>5. PICK t \in kmalloc(TaskStructs), s \in kmalloc(Stacks) :
        /\ Allocated(t, s)
        /\ orphans' = orphans \cup {s}
        /\ task_list' = task_list \cup {t}
        /\ queued' = queued \cup {t}
        /\ \/ \E m \in (Mms \ heap) \cup ({p.mm} \ {NULL}) :
                /\ ForkUser(p, m, t)
                /\ heap' = HeapAfterAlloc(t, s) \cup {m}
           \/ /\ ForkKthread(p, t)
              /\ heap' = HeapAfterAlloc(t, s)
  BY DEF Fork
<1> HIDE DEF p
<1>6. t # NULL /\ s \in Stacks \ heap /\ HeapAfterAlloc(t, s) = heap \cup {t, s}
  BY <1>5 DEF Allocated, kmalloc, HeapAfterAlloc
<1>7. CASE \E m \in (Mms \ heap) \cup ({p.mm} \ {NULL}) :
             ForkUser(p, m, t) /\ heap' = HeapAfterAlloc(t, s) \cup {m}
  <2>1. PICK m \in (Mms \ heap) \cup ({p.mm} \ {NULL}) :
               ForkUser(p, m, t) /\ heap' = HeapAfterAlloc(t, s) \cup {m}
    BY <1>7
  <2>2. m \in Mms /\ (m \notin heap \/ m = task[orig].mm)
    BY <1>1, <1>3, <1>4, <2>1 DEF Fields, TaskRec, AllMms
  <2> DEFINE r == [p EXCEPT !.mm = m, !.active_mm = m]
  <2>3. /\ r \in TaskRec /\ r.pid = alloc_pid(next_pid) /\ r.usage = 1 /\ ~ r.dead
        /\ r.stack = task[orig].stack /\ r.mm = m /\ r.active_mm = m
    BY <1>4, <2>2 DEF TaskRec, AllMms
  <2>4. /\ task' = [task EXCEPT ![t] = r]
        /\ mm_users' = [mm_users EXCEPT ![m] = @ + 1]
        /\ mm_count' = IF mm_users[m] = 0 THEN [mm_count EXCEPT ![m] = @ + 1] ELSE mm_count
    BY <2>1 DEF ForkUser
  <2>5. heap' = heap \cup {t, s, m}
    BY <1>6, <2>1
  <2> HIDE DEF r
  <2>6. NewUser(orig, t, s, r, m)
    BY <2>2, <2>3, <2>4, <2>5 DEF NewUser
  <2>7. ForkMakes(orig, t, s, r)
    BY <1>5, <1>6, <2>2, <2>3, <2>4, <2>6 DEF ForkMakes
  <2> QED
    BY <1>2, <1>3, <1>6, <2>3, <2>7
<1>8. CASE ForkKthread(p, t) /\ heap' = HeapAfterAlloc(t, s)
  <2> DEFINE r == sched_fork_kthread(p)
  <2>1. /\ r \in TaskRec /\ r.pid = alloc_pid(next_pid) /\ r.usage = 1 /\ ~ r.dead
        /\ r.stack = task[orig].stack /\ r.mm = NULL
        /\ r.active_mm = task[current_task].active_mm
    BY <1>1, <1>3, <1>4 DEF TaskRec, sched_fork_kthread
  <2>2. /\ task' = [task EXCEPT ![t] = r]
        /\ mm_count' = IF r.active_mm = NULL THEN mm_count
                       ELSE [mm_count EXCEPT ![r.active_mm] = @ + 1]
        /\ UNCHANGED mm_users
    BY <1>8 DEF ForkKthread
  <2>3. heap' = heap \cup {t, s}
    BY <1>6, <1>8
  <2> HIDE DEF r
  <2>4. NewKthread(t, s, r)
    BY <2>1, <2>2, <2>3 DEF NewKthread
  <2>5. ForkMakes(orig, t, s, r)
    BY <1>5, <1>6, <2>1, <2>2, <2>4 DEF ForkMakes
  <2> QED
    BY <1>2, <1>3, <1>6, <2>1, <2>5
<1> QED
  BY <1>5, <1>7, <1>8

\* A switch rewrites at most two fields: the address space that next borrows
\* and the one that the task switched from no longer does.
LEMMA SwitchParts ==
  ASSUME Inv, NEW next \in AllTasks, Schedule(next)
  PROVE  /\ next # curr /\ next \in queued \cup {Idle} /\ phase = "run" /\ prev_mm = NULL
         /\ task[curr].active_mm \in AllMms
         /\ task' \in [AllTasks -> TaskRec]
         /\ \A t \in AllTasks \ {next, curr} : task'[t] = task[t]
         /\ task'[next] = IF task[next].mm = NULL
                          THEN [task[next] EXCEPT !.active_mm = task[curr].active_mm]
                          ELSE task[next]
         /\ task'[curr] = IF task[curr].mm = NULL
                          THEN [task[curr] EXCEPT !.active_mm = NULL]
                          ELSE task[curr]
         /\ \A t \in AllTasks : /\ task'[t].pid = task[t].pid /\ task'[t].dead = task[t].dead
                                /\ task'[t].usage = task[t].usage
                                /\ task'[t].stack = task[t].stack /\ task'[t].mm = task[t].mm
<1>1. task \in [AllTasks -> TaskRec] /\ CpuTypeOK /\ Linked /\ PageTableAlive
  BY TypeParts DEF Inv, TaskInv, MmInv
<1>2. /\ next # curr /\ next \in queued \cup {Idle} /\ phase = "run" /\ prev_mm = NULL
      /\ curr \in AllTasks /\ task[curr].active_mm \in AllMms
  BY <1>1 DEF Schedule, Linked, CpuTypeOK, PageTableAlive
<1> DEFINE new(t) == CASE t = next /\ task[next].mm = NULL ->
                            [task[t] EXCEPT !.active_mm = task[curr].active_mm]
                       [] t = curr /\ task[curr].mm = NULL ->
                            [task[t] EXCEPT !.active_mm = NULL]
                       [] OTHER -> task[t]
<1>3. task' = [t \in AllTasks |-> new(t)]
  BY DEF Schedule, context_switch
<1>4. /\ new(next) = IF task[next].mm = NULL
                     THEN [task[next] EXCEPT !.active_mm = task[curr].active_mm]
                     ELSE task[next]
      /\ new(curr) = IF task[curr].mm = NULL
                     THEN [task[curr] EXCEPT !.active_mm = NULL]
                     ELSE task[curr]
      /\ \A t \in AllTasks \ {next, curr} : new(t) = task[t]
  BY <1>2
<1> HIDE DEF new
<1>5. \A t \in AllTasks : task'[t] = new(t)
  BY <1>3
<1> DEFINE same(q, r) == /\ q.pid = r.pid /\ q.dead = r.dead /\ q.usage = r.usage
                         /\ q.stack = r.stack /\ q.mm = r.mm
<1>6. \A r \in TaskRec : /\ same(r, r)
                         /\ \A m \in AllMms \cup {NULL} :
                              LET q == [r EXCEPT !.active_mm = m] IN q \in TaskRec /\ same(q, r)
  BY DEF TaskRec
<1>7. \A t \in AllTasks : task[t] \in TaskRec
  BY <1>1
<1> HIDE DEF same
<1>8. \A t \in AllTasks : new(t) \in TaskRec /\ same(new(t), task[t])
  <2> SUFFICES ASSUME NEW t \in AllTasks
               PROVE  new(t) \in TaskRec /\ same(new(t), task[t])
    OBVIOUS
  <2>1. CASE t = next
    BY <1>2, <1>4, <1>6, <1>7, <2>1
  <2>2. CASE t = curr
    <3>1. task[t] \in TaskRec /\ NULL \in AllMms \cup {NULL} /\ same(task[t], task[t])
      BY <1>6, <1>7
    <3>2. LET q == [task[t] EXCEPT !.active_mm = NULL] IN q \in TaskRec /\ same(q, task[t])
      BY <1>6, <3>1
    <3>3. new(t) = task[t] \/ new(t) = [task[t] EXCEPT !.active_mm = NULL]
      BY <1>4, <2>2
    <3> QED
      BY <3>1, <3>2, <3>3
  <2>3. CASE t \notin {next, curr}
    BY <1>4, <1>6, <1>7, <2>3
  <2> QED
    BY <2>1, <2>2, <2>3
<1> QED
  BY <1>2, <1>3, <1>4, <1>5, <1>8 DEF same

\* Every step keeps what TypeOK, Linked, Fields and LiveQueued say.
LEMMA TaskStep ==
  ASSUME Inv, [Next]_vars
  PROVE  TaskInv'
<1>1. /\ task \in [AllTasks -> TaskRec] /\ wrapped \in BOOLEAN
      /\ MemTypeOK /\ CpuTypeOK /\ CountTypeOK /\ Linked /\ Fields /\ LiveQueued
  BY TypeParts DEF Inv, TaskInv
<1> SUFFICES /\ task' \in [AllTasks -> TaskRec] /\ wrapped' \in BOOLEAN
             /\ MemTypeOK' /\ CpuTypeOK' /\ CountTypeOK' /\ Linked' /\ Fields' /\ LiveQueued'
  BY TypeParts DEF TaskInv
<1>2. ASSUME TakePid
      PROVE  next_pid' \in 1 .. PID_MAX - 1 /\ wrapped' \in BOOLEAN
  <2>1. wrapped' \in BOOLEAN
    BY <1>2, Zenon DEF TakePid
  <2> QED
    BY <1>1, <1>2, <2>1, PidRange DEF TakePid, MemTypeOK
<1>3. CASE AllocInitFails
  <2>1. heap' = heap
    BY <1>3, AllocUndone DEF AllocInitFails, BootPanics
  <2> QED
    BY <1>1, <1>3, <2>1
    DEF AllocInitFails, BootPanics, MemTypeOK, CpuTypeOK, CountTypeOK, Linked, Fields,
        LiveQueued, cpuVars, mmVars
<1>4. CASE AllocInitMmFails
  <2>1. heap' = heap /\ TakePid
    BY <1>4, AllocUndone DEF AllocInitMmFails, BootPanics
  <2> QED
    BY <1>1, <1>2, <1>4, <2>1
    DEF AllocInitMmFails, BootPanics, MemTypeOK, CpuTypeOK, CountTypeOK, Linked, Fields,
        LiveQueued, cpuVars, mmVars
<1>5. CASE CreateInitProcess
  <2>1. PICK t \in kmalloc(TaskStructs), s \in kmalloc(Stacks), m \in Mms \ heap :
          /\ Allocated(t, s)
          /\ heap' = HeapAfterAlloc(t, s) \cup {m}
          /\ task' = [task EXCEPT ![t] = [Blank EXCEPT !.pid = 1, !.usage = 1, !.stack = s,
                                                       !.mm = m, !.active_mm = m]]
          /\ mm_users' = [mm_users EXCEPT ![m] = 1]
          /\ mm_count' = [mm_count EXCEPT ![m] = 1]
          /\ task_list' = task_list \cup {t}
          /\ current_task' = t
          /\ queued' = queued \cup {t}
    BY <1>5 DEF CreateInitProcess
  <2> DEFINE r == [Blank EXCEPT !.pid = 1, !.usage = 1, !.stack = s, !.mm = m, !.active_mm = m]
  <2>2. t \in TaskStructs /\ s \in Stacks /\ m \in Mms /\ t # NULL
    BY <2>1 DEF Allocated, kmalloc
  <2>3. /\ r \in TaskRec /\ r.usage = 1 /\ r.stack \in Stacks /\ ~ r.dead
        /\ r.mm # init_mm /\ r.active_mm = r.mm
    <3>1. Blank \in TaskRec /\ ~ Blank.dead
      BY TaskAssumption DEF Blank, TaskRec
    <3>2. 1 \in 0 .. PID_MAX - 1 /\ 1 \in 0 .. MaxRefs + 1 /\ m \in AllMms /\ m # init_mm
      BY <2>2, TaskAssumption DEF AllMms
    <3> QED
      BY <2>2, <3>1, <3>2 DEF TaskRec
  <2>4. /\ UNCHANGED <<cpuVars, refs, orphans, lost>> /\ phase = "boot" /\ phase' = "run"
        /\ TakePid
    BY <1>5 DEF CreateInitProcess
  <2>5. task' = [task EXCEPT ![t] = r] /\ current_task' \in {t, current_task} \ {NULL}
    BY <2>1, <2>2
  <2> HIDE DEF r
  <2>6. task' \in [AllTasks -> TaskRec] /\ CpuTypeOK' /\ Linked' /\ Fields' /\ LiveQueued'
    BY <2>1, <2>2, <2>3, <2>4, <2>5, NewTask
  <2>7. MemTypeOK' /\ wrapped' \in BOOLEAN
    BY <1>1, <1>2, <2>1, <2>2, <2>4 DEF MemTypeOK, HeapAfterAlloc, Allocated
  <2>8. CountTypeOK'
    BY <1>1, <2>1, <2>2, <2>4 DEF CountTypeOK
  <2> QED
    BY <2>6, <2>7, <2>8
<1>6. CASE Halted \/ UNCHANGED vars
  BY <1>1, <1>6 DEF Halted, vars, MemTypeOK, CpuTypeOK, CountTypeOK, Linked, Fields, LiveQueued
<1>7. CASE ForkFails
  <2>1. heap' = heap
    BY <1>7, AllocUndone DEF ForkFails
  <2> QED
    BY <1>1, <1>7, <2>1
    DEF ForkFails, MemTypeOK, CpuTypeOK, CountTypeOK, Linked, Fields, LiveQueued, cpuVars, mmVars
<1>8. ASSUME NEW orig \in AllTasks, Fork(orig)
      PROVE  /\ task' \in [AllTasks -> TaskRec] /\ wrapped' \in BOOLEAN
             /\ MemTypeOK' /\ CpuTypeOK' /\ CountTypeOK' /\ Linked' /\ Fields' /\ LiveQueued'
  <2>1. /\ phase = "run" /\ orig \in task_list /\ TakeTwoPids
        /\ UNCHANGED <<current_task, cpuVars, phase, refs, lost>>
    BY <1>8, ForkParts
  <2>2. PICK t \in kmalloc(TaskStructs), s \in Stacks \ heap, r \in TaskRec : ForkMakes(orig, t, s, r)
    BY <1>8, ForkParts
  <2>3. task' \in [AllTasks -> TaskRec] /\ CpuTypeOK' /\ Linked' /\ Fields' /\ LiveQueued'
    <3>1. r.stack \in Stacks
      BY <1>1, <2>1, <2>2 DEF Fields, ForkMakes
    <3>2. r.mm # init_mm /\ (r.mm # NULL => r.active_mm = r.mm)
      BY <2>2, TaskAssumption DEF ForkMakes, NewUser, NewKthread
    <3>3. current_task' \in {t, current_task} \ {NULL} /\ phase' = "run" /\ phase # "switch"
      BY <1>1, <2>1, TaskAssumption DEF Linked, MemTypeOK
    <3> QED
      BY <2>1, <2>2, <3>1, <3>2, <3>3, NewTask DEF ForkMakes
  <2>4. MemTypeOK'
    <3>1. next_pid' \in 1 .. PID_MAX - 1
      BY <1>1, <2>1, PidRange DEF TakeTwoPids, MemTypeOK
    <3>2. t \in TaskStructs
      BY <2>2 DEF kmalloc, ForkMakes
    <3> QED
      BY <1>1, <2>2, <3>1, <3>2 DEF MemTypeOK, ForkMakes, NewUser, NewKthread
  <2>5. CountTypeOK'
    <3>1. r.active_mm \in AllMms \cup {NULL}
      BY <2>2 DEF TaskRec
    <3> QED
      BY <1>1, <2>1, <2>2, <3>1 DEF CountTypeOK, AllMms, ForkMakes, NewUser, NewKthread
  <2>6. wrapped' \in BOOLEAN
    BY <2>1, Zenon DEF TakeTwoPids
  <2> QED
    BY <2>3, <2>4, <2>5, <2>6
<1>9. ASSUME NEW t \in AllTasks, get_task_struct(t)
      PROVE  /\ task' \in [AllTasks -> TaskRec] /\ wrapped' \in BOOLEAN
             /\ MemTypeOK' /\ CpuTypeOK' /\ CountTypeOK' /\ Linked' /\ Fields' /\ LiveQueued'
  <2>1. t \in task_list /\ t # Idle /\ task[t] \in TaskRec /\ task[t].usage = 1 + refs[t]
        /\ refs[t] \in Nat /\ refs[t] < MaxRefs
    BY <1>1, <1>9, TaskAssumption DEF get_task_struct, MemTypeOK, Fields, CountTypeOK
  <2>2. task[t].usage + 1 \in 0 .. MaxRefs + 1 /\ refs[t] + 1 \in 0 .. MaxRefs
    BY <2>1, TaskAssumption
  <2> DEFINE r == [task[t] EXCEPT !.usage = @ + 1]
  <2>3. /\ r \in TaskRec /\ r.usage = 1 + (refs[t] + 1) /\ r.dead = task[t].dead
        /\ r.stack = task[t].stack /\ r.mm = task[t].mm /\ r.active_mm = task[t].active_mm
    BY <2>1, <2>2 DEF TaskRec
  <2>4. task' = [task EXCEPT ![t] = r] /\ refs' = [refs EXCEPT ![t] = refs[t] + 1]
    BY <1>1, <1>9 DEF get_task_struct, CountTypeOK
  <2> HIDE DEF r
  <2>5. /\ task'[t] = r /\ refs'[t] = refs[t] + 1
        /\ \A u \in AllTasks \ {t} : task'[u] = task[u] /\ refs'[u] = refs[u]
        /\ task' \in [AllTasks -> TaskRec] /\ refs' \in [AllTasks -> 0 .. MaxRefs]
    BY <1>1, <2>2, <2>3, <2>4 DEF CountTypeOK
  <2>6. UNCHANGED <<memVars, mmVars, cpuVars, current_task, queued, phase>>
    BY <1>9 DEF get_task_struct
  <2>7. Fields'
    BY <1>1, <2>1, <2>3, <2>5, <2>6 DEF Fields, MemTypeOK, AllTasks, memVars
  <2>8. LiveQueued'
    BY <1>1, <2>3, <2>5, <2>6 DEF LiveQueued, CpuTypeOK, AllTasks, cpuVars
  <2> QED
    BY <1>1, <2>5, <2>6, <2>7, <2>8
    DEF MemTypeOK, CpuTypeOK, CountTypeOK, Linked, memVars, mmVars, cpuVars
<1>10. ASSUME NEW t \in AllTasks, put_task_struct(t)
      PROVE  /\ task' \in [AllTasks -> TaskRec] /\ wrapped' \in BOOLEAN
             /\ MemTypeOK' /\ CpuTypeOK' /\ CountTypeOK' /\ Linked' /\ Fields' /\ LiveQueued'
  <2>1. t \in task_list /\ t # Idle /\ task[t] \in TaskRec /\ task[t].usage = 1 + refs[t]
        /\ refs[t] \in 0 .. MaxRefs /\ refs[t] > 0
    <3>1. t \in task_list /\ t # Idle
      BY <1>1, <1>10, PutFreesNothing, TaskAssumption DEF MemTypeOK
    <3> QED
      BY <1>1, <1>10, <3>1 DEF put_task_struct, Fields, CountTypeOK
  <2>2. task[t].usage - 1 \in 0 .. MaxRefs + 1 /\ refs[t] - 1 \in 0 .. MaxRefs
    BY <2>1, TaskAssumption
  <2> DEFINE r == [task[t] EXCEPT !.usage = @ - 1]
  <2>3. /\ r \in TaskRec /\ r.usage = 1 + (refs[t] - 1) /\ r.dead = task[t].dead
        /\ r.stack = task[t].stack /\ r.mm = task[t].mm /\ r.active_mm = task[t].active_mm
    BY <2>1, <2>2 DEF TaskRec
  <2>4. task' = [task EXCEPT ![t] = r] /\ refs' = [refs EXCEPT ![t] = refs[t] - 1]
    BY <1>1, <1>10 DEF put_task_struct, CountTypeOK
  <2> HIDE DEF r
  <2>5. /\ task'[t] = r /\ refs'[t] = refs[t] - 1
        /\ \A u \in AllTasks \ {t} : task'[u] = task[u] /\ refs'[u] = refs[u]
        /\ task' \in [AllTasks -> TaskRec] /\ refs' \in [AllTasks -> 0 .. MaxRefs]
    BY <1>1, <2>2, <2>3, <2>4 DEF CountTypeOK
  <2>6. UNCHANGED <<memVars, mmVars, cpuVars, current_task, queued, phase>>
    BY <1>10, PutFreesNothing DEF put_task_struct, memVars
  <2>7. Fields'
    BY <1>1, <2>1, <2>3, <2>5, <2>6 DEF Fields, MemTypeOK, AllTasks, memVars
  <2>8. LiveQueued'
    BY <1>1, <2>3, <2>5, <2>6 DEF LiveQueued, CpuTypeOK, AllTasks, cpuVars
  <2> QED
    BY <1>1, <2>5, <2>6, <2>7, <2>8
    DEF MemTypeOK, CpuTypeOK, CountTypeOK, Linked, memVars, mmVars, cpuVars
<1>11. ASSUME NEW next \in AllTasks, Schedule(next)
      PROVE  /\ task' \in [AllTasks -> TaskRec] /\ wrapped' \in BOOLEAN
             /\ MemTypeOK' /\ CpuTypeOK' /\ CountTypeOK' /\ Linked' /\ Fields' /\ LiveQueued'
  <2>1. /\ next # curr /\ next \in queued \cup {Idle} /\ phase = "run" /\ prev_mm = NULL
        /\ task[curr].active_mm \in AllMms
        /\ task' \in [AllTasks -> TaskRec]
        /\ \A t \in AllTasks \ {next, curr} : task'[t] = task[t]
        /\ task'[next] = IF task[next].mm = NULL
                         THEN [task[next] EXCEPT !.active_mm = task[curr].active_mm]
                         ELSE task[next]
        /\ task'[curr] = IF task[curr].mm = NULL
                         THEN [task[curr] EXCEPT !.active_mm = NULL]
                         ELSE task[curr]
        /\ \A t \in AllTasks : /\ task'[t].pid = task[t].pid /\ task'[t].dead = task[t].dead
                               /\ task'[t].usage = task[t].usage
                               /\ task'[t].stack = task[t].stack /\ task'[t].mm = task[t].mm
    BY <1>11, SwitchParts
  <2>2. /\ UNCHANGED <<memVars, current_task, queued, mm_users, refs>>
        /\ curr' = next /\ local_prev' = next /\ phase' = "switch"
        /\ prev_mm' \in {NULL, task[curr].active_mm}
        /\ cr3' \in {cr3, task[next].mm} /\ (cr3' = cr3 \/ task[next].mm # NULL)
    BY <1>11, <2>1 DEF Schedule, context_switch, PrevAfterSwitch, HandOver
  <2>3. CountTypeOK'
    <3>1. task[next].active_mm \in AllMms \cup {NULL}
      BY <1>1 DEF TaskRec
    <3>2. mm_count' \in [AllMms -> Nat] /\ lost' \in [AllMms -> Nat]
      BY <1>1, <1>11, <2>1, <3>1 DEF Schedule, context_switch, Borrow, CountTypeOK
    <3> QED
      BY <1>1, <2>2, <3>2 DEF CountTypeOK
  <2>4. CpuTypeOK'
    <3>1. task[next].mm \in AllMms \cup {NULL}
      BY <1>1 DEF TaskRec
    <3> QED
      BY <1>1, <1>11, <2>1, <2>2, <3>1 DEF CpuTypeOK
  <2>5. Linked'
    BY <1>1, <2>1, <2>2 DEF Linked, memVars
  <2>6. Fields'
    <3>1. \A t \in TaskStructs \ task_list : t # next /\ t # curr
      BY <1>1, <2>1, TaskAssumption DEF Linked, MemTypeOK
    <3>2. \A t \in TaskStructs \ task_list : task'[t] = Blank
      BY <1>1, <2>1, <3>1 DEF Fields, AllTasks
    <3>3. \A t \in AllTasks : task[t].mm # NULL => task'[t] = task[t]
      BY <2>1
    <3> QED
      BY <1>1, <2>1, <2>2, <3>2, <3>3 DEF Fields, AllTasks, MemTypeOK, memVars
  <2>7. LiveQueued'
    BY <1>1, <2>1, <2>2 DEF LiveQueued, CpuTypeOK, AllTasks
  <2>8. MemTypeOK' /\ wrapped' = wrapped
    BY <1>1, <2>2 DEF MemTypeOK, memVars
  <2> QED
    BY <1>1, <2>1, <2>3, <2>4, <2>5, <2>6, <2>7, <2>8
<1>12. CASE FinishTaskSwitch
  <2>1. /\ task' = task /\ heap' = HeapAfterDrop(prev_mm) /\ phase = "switch"
        /\ prev_mm' = NULL /\ phase' \in {"run", "panic"}
        /\ UNCHANGED <<next_pid, task_list, current_task, queued, curr, local_prev, cr3,
                       mm_users, wrapped, refs, orphans, lost>>
    BY <1>12, NothingReaped DEF FinishTaskSwitch, kernel_main
  <2>2. mm_count' \in [AllMms -> Nat]
    <3>1. ASSUME prev_mm # NULL
          PROVE  prev_mm \in AllMms /\ mm_count[prev_mm] - 1 \in Nat
      <4>1. prev_mm \in AllMms /\ mm_count[prev_mm] \in Nat
        BY <1>1, <3>1 DEF CpuTypeOK, CountTypeOK
      <4>2. mm_count[prev_mm] > 0
        BY <4>1, HandedOver, <3>1
      <4> QED
        BY <4>1, <4>2
    <3> QED
      BY <1>1, <1>12, <3>1 DEF FinishTaskSwitch, CountTypeOK
  <2>3. MemTypeOK'
    BY <1>1, <2>1 DEF MemTypeOK, HeapAfterDrop
  <2> QED
    BY <1>1, <2>1, <2>2, <2>3 DEF CpuTypeOK, CountTypeOK, Linked, Fields, LiveQueued
<1>13. CASE Exit
  <2>1. /\ phase = "run" /\ curr \in task_list \ {current_task} /\ curr \in AllTasks /\ curr # Idle
        /\ task' = [task EXCEPT ![curr].dead = TRUE, ![curr].mm = NULL]
        /\ queued' = queued \ {curr}
        /\ UNCHANGED <<memVars, current_task, cpuVars, phase, refs, lost>>
    BY <1>1, <1>13, TaskAssumption DEF Exit, MemTypeOK, AllTasks
  <2> DEFINE r == [task[curr] EXCEPT !.dead = TRUE, !.mm = NULL]
  <2>2. task' = [task EXCEPT ![curr] = r]
    BY <1>1, <2>1 DEF TaskRec
  <2>3. /\ r \in TaskRec /\ r.mm = NULL /\ r.usage = task[curr].usage
        /\ r.stack = task[curr].stack
    BY <1>1, <2>1 DEF TaskRec
  <2> HIDE DEF r
  <2>4. /\ task'[curr] = r /\ \A t \in AllTasks \ {curr} : task'[t] = task[t]
        /\ task' \in [AllTasks -> TaskRec]
    BY <1>1, <2>1, <2>2, <2>3
  <2>5. CountTypeOK'
    <3>1. task[curr].mm # NULL => /\ task[curr].mm \in AllMms
                                  /\ mm_users[task[curr].mm] - 1 \in Nat
      <4>1. task[curr].mm # NULL => task[curr].mm \in AllMms /\ mm_users[task[curr].mm] \in Nat
        BY <1>1, <2>1 DEF TaskRec, CountTypeOK
      <4>2. task[curr].mm # NULL => mm_users[task[curr].mm] > 0
        BY <2>1, Referred
      <4> QED
        BY <4>1, <4>2
    <3>2. mm_users' \in [AllMms -> Nat] /\ mm_count' \in [AllMms -> Nat]
      BY <1>1, <1>13, <3>1 DEF Exit, CountTypeOK
    <3> QED
      BY <1>1, <2>1, <3>2 DEF CountTypeOK
  <2>6. Fields'
    BY <1>1, <2>1, <2>3, <2>4, TaskAssumption DEF Fields, AllTasks, MemTypeOK, memVars
  <2>7. LiveQueued'
    BY <1>1, <2>1, <2>4 DEF LiveQueued, CpuTypeOK, AllTasks, cpuVars
  <2> QED
    BY <1>1, <2>1, <2>4, <2>5, <2>6, <2>7 DEF MemTypeOK, CpuTypeOK, Linked, memVars, cpuVars
<1>14. CASE Sleep
  BY <1>1, <1>14 DEF Sleep, MemTypeOK, CpuTypeOK, CountTypeOK, Linked, Fields, LiveQueued,
                     memVars, cpuVars, mmVars
<1>15. ASSUME NEW t \in AllTasks, Wake(t)
      PROVE  /\ task' \in [AllTasks -> TaskRec] /\ wrapped' \in BOOLEAN
             /\ MemTypeOK' /\ CpuTypeOK' /\ CountTypeOK' /\ Linked' /\ Fields' /\ LiveQueued'
  BY <1>1, <1>15 DEF Wake, MemTypeOK, CpuTypeOK, CountTypeOK, Linked, Fields, LiveQueued,
                     memVars, cpuVars, mmVars
<1> QED
  BY <1>3, <1>4, <1>5, <1>6, <1>7, <1>8, <1>9, <1>10, <1>11, <1>12, <1>13, <1>14, <1>15
  DEF Next

-------------------------------------------------------------------------------
(* The second layer: the heap and the pids *)

\* Pids taken without a wrap are the next ones up.
LEMMA PidUp ==
  ASSUME TypeOK
  PROVE  /\ TakePid /\ ~ wrapped' => ~ wrapped /\ next_pid' = next_pid + 1
         /\ TakeTwoPids /\ ~ wrapped' => /\ ~ wrapped /\ alloc_pid(next_pid) = next_pid + 1
                                         /\ next_pid' = alloc_pid(next_pid) + 1
  BY Zenon DEF TakePid, TakeTwoPids

\* A step that links no task, moves no stack, and allocates and frees at most
\* address spaces.
LEMMA MemQuiet ==
  ASSUME Inv, heap' \cap TaskStructs = heap \cap TaskStructs,
         heap' \cap Stacks = heap \cap Stacks,
         task_list' = task_list, orphans' = orphans,
         \A t \in task_list : task'[t].pid = task[t].pid /\ task'[t].stack = task[t].stack,
         ~ wrapped' => ~ wrapped /\ next_pid' \in Nat /\ next_pid' >= next_pid
  PROVE  MemInv'
<1>1. HeapAccounted'
  <2>1. {task'[t].stack : t \in task_list'} = {task[t].stack : t \in task_list}
    OBVIOUS
  <2> QED
    BY <2>1 DEF Inv, MemInv, HeapAccounted
<1>2. PidsBelow'
  <2>1. \A t \in task_list : task[t].pid \in Nat
    BY DEF Inv, TaskInv, TypeOK, AllTasks
  <2>2. next_pid \in Nat
    BY DEF Inv, TaskInv, TypeOK
  <2> QED
    BY <2>1, <2>2 DEF Inv, MemInv, PidsBelow
<1>3. PidsUniqueUntilWrap'
  BY DEF Inv, MemInv, PidsUniqueUntilWrap
<1> QED
  BY <1>1, <1>2, <1>3 DEF MemInv

\* A step that links a new task t with fields r and allocates it and a stack
\* s, and perhaps address spaces besides.
LEMMA MemNew ==
  ASSUME Inv, NEW t \in kmalloc(TaskStructs), t # NULL, NEW s \in Stacks, NEW r \in TaskRec,
         task' = [task EXCEPT ![t] = r], task_list' = task_list \cup {t},
         heap' \cap TaskStructs = (heap \cap TaskStructs) \cup {t},
         heap' \cap Stacks = (heap \cap Stacks) \cup {s},
         \/ r.stack = s /\ orphans' = orphans
         \/ orphans' = orphans \cup {s} /\ \E u \in task_list : r.stack = task[u].stack,
         ~ wrapped' => /\ ~ wrapped /\ next_pid' \in Nat /\ next_pid' > next_pid
                       /\ r.pid < next_pid' /\ \A u \in task_list : r.pid # task[u].pid
  PROVE  MemInv'
<1>1. t \in TaskStructs \ task_list /\ t \in AllTasks
  BY FreshTask
<1>2. /\ task \in [AllTasks -> TaskRec] /\ task_list \subseteq AllTasks
      /\ \A u \in task_list : task[u].pid \in Nat
      /\ r.pid \in Nat /\ next_pid \in Nat
  BY TypeParts DEF Inv, TaskInv, TypeOK, AllTasks, TaskRec
<1>3. task'[t] = r /\ \A u \in task_list : task'[u] = task[u]
  BY <1>1, <1>2
<1>4. HeapAccounted'
  <2>1. {task'[u].stack : u \in task_list'} = {task[u].stack : u \in task_list} \cup {r.stack}
    BY <1>3
  <2>2. /\ heap \cap TaskStructs = task_list
        /\ heap \cap Stacks = {task[u].stack : u \in task_list} \cup orphans
    BY DEF Inv, MemInv, HeapAccounted
  <2>3. heap' \cap Stacks = {task'[u].stack : u \in task_list'} \cup orphans'
    <3> DEFINE A == {task[u].stack : u \in task_list}
    <3>1. \/ r.stack = s /\ orphans' = orphans
          \/ orphans' = orphans \cup {s} /\ r.stack \in A
      OBVIOUS
    <3> HIDE DEF A
    <3>2. heap' \cap Stacks = A \cup orphans \cup {s}
      BY <2>2 DEF A
    <3>3. A \cup {r.stack} \cup orphans' = A \cup orphans \cup {s}
      BY <3>1
    <3> QED
      BY <2>1, <3>2, <3>3 DEF A
  <2> QED
    BY <2>2, <2>3 DEF HeapAccounted
<1>5. PidsBelow'
  BY <1>2, <1>3 DEF Inv, MemInv, PidsBelow
<1>6. PidsUniqueUntilWrap'
  BY <1>1, <1>3 DEF Inv, MemInv, PidsUniqueUntilWrap
<1> QED
  BY <1>4, <1>5, <1>6 DEF MemInv

\* Every step keeps what HeapAccounted, PidsBelow and PidsUniqueUntilWrap say.
LEMMA MemStep ==
  ASSUME Inv, [Next]_vars
  PROVE  MemInv'
<1>1. /\ task \in [AllTasks -> TaskRec] /\ MemTypeOK /\ CpuTypeOK /\ CountTypeOK
      /\ Linked /\ Fields /\ TypeOK /\ next_pid \in Nat /\ task_list \subseteq AllTasks
  BY TypeParts DEF Inv, TaskInv, MemTypeOK, AllTasks
<1>2. CASE AllocInitFails
  <2>1. heap' = heap
    BY <1>2, AllocUndone DEF AllocInitFails, BootPanics
  <2> QED
    BY <1>1, <1>2, <2>1, MemQuiet DEF AllocInitFails, BootPanics
<1>3. CASE AllocInitMmFails
  <2>1. heap' = heap /\ TakePid
    BY <1>3, AllocUndone DEF AllocInitMmFails, BootPanics
  <2>2. ~ wrapped' => ~ wrapped /\ next_pid' \in Nat /\ next_pid' >= next_pid
    BY <1>1, <2>1, PidUp
  <2> QED
    BY <1>1, <1>3, <2>1, <2>2, MemQuiet DEF AllocInitMmFails, BootPanics
<1>4. CASE CreateInitProcess
  <2>1. PICK t \in kmalloc(TaskStructs), s \in kmalloc(Stacks), m \in Mms \ heap :
          /\ Allocated(t, s)
          /\ heap' = HeapAfterAlloc(t, s) \cup {m}
          /\ task' = [task EXCEPT ![t] = [Blank EXCEPT !.pid = 1, !.usage = 1, !.stack = s,
                                                       !.mm = m, !.active_mm = m]]
          /\ task_list' = task_list \cup {t}
    BY <1>4 DEF CreateInitProcess
  <2> DEFINE r == [Blank EXCEPT !.pid = 1, !.usage = 1, !.stack = s, !.mm = m, !.active_mm = m]
  <2>2. t \in TaskStructs /\ s \in Stacks /\ m \in Mms /\ t # NULL /\ s # NULL
    BY <2>1 DEF Allocated, kmalloc
  <2>3. r \in TaskRec /\ r.pid = 1 /\ r.stack = s
    <3>1. Blank \in TaskRec
      BY TaskAssumption DEF Blank, TaskRec
    <3>2. 1 \in 0 .. PID_MAX - 1 /\ 1 \in 0 .. MaxRefs + 1 /\ m \in AllMms
      BY <2>2, TaskAssumption DEF AllMms
    <3> QED
      BY <2>2, <3>1, <3>2 DEF TaskRec
  <2>4. task' = [task EXCEPT ![t] = r] /\ orphans' = orphans /\ TakePid /\ task_list = {}
    BY <1>1, <1>4, <2>1 DEF CreateInitProcess, Linked
  <2> HIDE DEF r
  <2>5. /\ heap' \cap TaskStructs = (heap \cap TaskStructs) \cup {t}
        /\ heap' \cap Stacks = (heap \cap Stacks) \cup {s}
    BY <2>1, <2>2, HeapAssumption DEF HeapAfterAlloc, AllMms
  <2>6. ~ wrapped' => /\ ~ wrapped /\ next_pid' \in Nat /\ next_pid' > next_pid
                      /\ r.pid < next_pid' /\ \A u \in task_list : r.pid # task[u].pid
    BY <1>1, <2>3, <2>4, PidUp DEF MemTypeOK
  <2> QED
    BY <2>1, <2>2, <2>3, <2>4, <2>5, <2>6, MemNew
<1>5. CASE Halted \/ UNCHANGED vars
  BY <1>1, <1>5, MemQuiet DEF Halted, vars
<1>6. CASE ForkFails
  <2>1. heap' = heap
    BY <1>6, AllocUndone DEF ForkFails
  <2> QED
    BY <1>1, <1>6, <2>1, MemQuiet DEF ForkFails
<1>7. ASSUME NEW orig \in AllTasks, Fork(orig)
      PROVE  MemInv'
  <2>1. orig \in task_list /\ TakeTwoPids
    BY <1>7, ForkParts
  <2>2. PICK t \in kmalloc(TaskStructs), s \in Stacks \ heap, r \in TaskRec :
               ForkMakes(orig, t, s, r)
    BY <1>7, ForkParts
  <2>3. t \in TaskStructs /\ t # NULL
    BY <2>2 DEF kmalloc, ForkMakes
  <2>4. /\ heap' \cap TaskStructs = (heap \cap TaskStructs) \cup {t}
        /\ heap' \cap Stacks = (heap \cap Stacks) \cup {s}
    <3>1. heap' = heap \cup {t, s} \/ \E m \in Mms : heap' = heap \cup {t, s, m}
      BY <2>2 DEF ForkMakes, NewUser, NewKthread
    <3> QED
      BY <2>2, <2>3, <3>1, HeapAssumption DEF AllMms
  <2>5. ~ wrapped' => /\ ~ wrapped /\ next_pid' \in Nat /\ next_pid' > next_pid
                      /\ r.pid < next_pid' /\ \A u \in task_list : r.pid # task[u].pid
    <3> SUFFICES ASSUME ~ wrapped'
                 PROVE  /\ ~ wrapped /\ next_pid' \in Nat /\ next_pid' > next_pid
                        /\ r.pid < next_pid' /\ \A u \in task_list : r.pid # task[u].pid
      OBVIOUS
    <3>1. ~ wrapped /\ r.pid = next_pid + 1 /\ next_pid' = next_pid + 2
      BY <1>1, <2>1, <2>2, PidUp DEF ForkMakes
    <3>2. \A u \in task_list : task[u].pid \in Nat /\ task[u].pid < next_pid
      BY <1>1, <3>1 DEF Inv, MemInv, PidsBelow, TaskRec
    <3> QED
      BY <1>1, <3>1, <3>2
  <2> QED
    BY <2>1, <2>2, <2>3, <2>4, <2>5, MemNew DEF ForkMakes
<1>8. ASSUME NEW t \in AllTasks, get_task_struct(t) \/ put_task_struct(t)
      PROVE  MemInv'
  <2>1. UNCHANGED memVars
    BY <1>8, PutFreesNothing DEF get_task_struct, put_task_struct, memVars
  <2>2. \A u \in task_list : task'[u].pid = task[u].pid /\ task'[u].stack = task[u].stack
    BY <1>1, <1>8 DEF get_task_struct, put_task_struct, TaskRec
  <2> QED
    BY <1>1, <2>1, <2>2, MemQuiet DEF memVars
<1>9. ASSUME NEW next \in AllTasks, Schedule(next)
      PROVE  MemInv'
  <2>1. UNCHANGED memVars
    BY <1>9 DEF Schedule
  <2>2. \A u \in task_list : task'[u].pid = task[u].pid /\ task'[u].stack = task[u].stack
    BY <1>1, <1>9, SwitchParts
  <2> QED
    BY <1>1, <2>1, <2>2, MemQuiet DEF memVars
<1>10. CASE FinishTaskSwitch
  <2>1. /\ task' = task /\ heap' = HeapAfterDrop(prev_mm)
        /\ UNCHANGED <<next_pid, task_list, wrapped, orphans>>
    BY <1>10, NothingReaped DEF FinishTaskSwitch
  <2>2. heap' \cap TaskStructs = heap \cap TaskStructs /\ heap' \cap Stacks = heap \cap Stacks
    BY <1>1, <2>1, HeapAssumption DEF HeapAfterDrop, CpuTypeOK
  <2> QED
    BY <1>1, <2>1, <2>2, MemQuiet
<1>11. CASE Exit
  <2>1. UNCHANGED memVars
    BY <1>11 DEF Exit
  <2>2. \A u \in task_list : task'[u].pid = task[u].pid /\ task'[u].stack = task[u].stack
    BY <1>1, <1>11 DEF Exit, TaskRec
  <2> QED
    BY <1>1, <2>1, <2>2, MemQuiet DEF memVars
<1>12. CASE Sleep \/ \E t \in AllTasks : Wake(t)
  BY <1>1, <1>12, MemQuiet DEF Sleep, Wake, memVars
<1> QED
  BY <1>2, <1>3, <1>4, <1>5, <1>6, <1>7, <1>8, <1>9, <1>10, <1>11, <1>12 DEF Next

-------------------------------------------------------------------------------
(* The third layer: the references to address spaces *)

\* The one reference that all users of an address space share.
UsersRef(n) == IF n > 0 THEN 1 ELSE 0
LeftRef(left, m) == IF left = m THEN 1 ELSE 0

\* Address spaces with users are referred to.
LEMMA UsersCounted ==
  ASSUME Inv, NEW m \in AllMms, mm_users[m] > 0
  PROVE  mm_count[m] > 0
<1>1. lost[m] \in Nat /\ Cardinality(Borrowers(m)) \in Nat
  <2>1. Borrowers(m) \in SUBSET AllTasks
    BY DEF Borrowers
  <2> QED
    BY <2>1, TasksFinite, FS_Subset, FS_CardinalityType DEF Inv, TaskInv, TypeOK
<1>2. mm_count[m] = 1 + Cardinality(Borrowers(m)) + (IF prev_mm = m THEN 1 ELSE 0) + lost[m]
  BY DEF Inv, MmInv, MmCountExact
<1> QED
  BY <1>1, <1>2

\* A step that rewrites no address space pointer and no count.
LEMMA MmQuiet ==
  ASSUME Inv, \A t \in AllTasks : task'[t].mm = task[t].mm /\ task'[t].active_mm = task[t].active_mm,
         UNCHANGED <<mm_users, mm_count, lost, curr, cr3, prev_mm, heap>>
  PROVE  MmInv'
<1>1. \A m : Users(m)' = Users(m) /\ Borrowers(m)' = Borrowers(m)
  BY DEF Users, Borrowers
<1>2. curr \in AllTasks
  BY DEF Inv, TaskInv, TypeOK
<1> QED
  BY <1>1, <1>2 DEF Inv, MmInv, UsersExact, MmCountExact, CountAlive, PageTableAlive

\* A step that rewrites the pointers of one task keeps the counts exact if it
\* moves them by what its old and new pointers, rq->prev_mm and the lost
\* references amount to.
LEMMA MmOneTask ==
  ASSUME Inv, NEW t \in AllTasks, NEW r,
         task'[t] = r, \A u \in AllTasks \ {t} : task'[u] = task[u],
         \A m \in AllMms :
           /\ mm_users'[m] \in Nat /\ lost'[m] \in Nat
           /\ mm_users'[m] = mm_users[m] + UserShare(r, m) - UserShare(task[t], m)
           /\ mm_count'[m] = mm_count[m] + UsersRef(mm_users'[m]) - UsersRef(mm_users[m])
                             + BorrowShare(r, m) - BorrowShare(task[t], m)
                             + LeftRef(prev_mm', m) - LeftRef(prev_mm, m)
                             + lost'[m] - lost[m]
  PROVE  UsersExact' /\ MmCountExact'
<1>1. \A m \in AllMms :
        /\ Cardinality(UsersOf(task, m)) \in Nat /\ Cardinality(UsersOf(task', m)) \in Nat
        /\ Cardinality(BorrowersOf(task, m)) \in Nat /\ Cardinality(BorrowersOf(task', m)) \in Nat
        /\ Cardinality(UsersOf(task', m))
             = Cardinality(UsersOf(task, m)) + UserShare(r, m) - UserShare(task[t], m)
        /\ Cardinality(BorrowersOf(task', m))
             = Cardinality(BorrowersOf(task, m)) + BorrowShare(r, m) - BorrowShare(task[t], m)
  <2> DEFINE f == task
             g == task'
  <2>1. g[t] = r /\ \A u \in AllTasks \ {t} : f[u] = g[u]
    OBVIOUS
  <2> HIDE DEF f, g
  <2>2. \A m :
         /\ Cardinality(UsersOf(f, m)) \in Nat /\ Cardinality(UsersOf(g, m)) \in Nat
         /\ Cardinality(BorrowersOf(f, m)) \in Nat /\ Cardinality(BorrowersOf(g, m)) \in Nat
         /\ Cardinality(UsersOf(g, m))
              = Cardinality(UsersOf(f, m)) + UserShare(g[t], m) - UserShare(f[t], m)
         /\ Cardinality(BorrowersOf(g, m))
              = Cardinality(BorrowersOf(f, m)) + BorrowShare(g[t], m) - BorrowShare(f[t], m)
    BY <2>1, SharesMove
  <2> QED
    BY <2>1, <2>2 DEF f, g
<1>2. CountsFor(task, mm_users, mm_count, prev_mm, lost)
  BY CountsMeaning DEF Inv, MmInv
<1>3. \A m \in AllMms : lost[m] \in Nat /\ mm_users[m] \in Nat
  BY DEF Inv, TaskInv, TypeOK
<1>4. CountsFor(task', mm_users', mm_count', prev_mm', lost')
  BY <1>1, <1>2, <1>3 DEF CountsFor, UserShare, BorrowShare, UsersRef, LeftRef
<1> QED
  BY <1>4, CountsMeaning

\* A new task: r is its task struct, and the address space it refers to, if it
\* refers to one, has its counts raised and is allocated.
LEMMA MmNew ==
  ASSUME Inv, NEW t \in kmalloc(TaskStructs), t # NULL, NEW r \in TaskRec,
         task' = [task EXCEPT ![t] = r], UNCHANGED <<cpuVars, lost>>,
         heap \subseteq heap', prev_mm = NULL,
         \/ \E m \in Mms :
              /\ m \notin heap \/ mm_users[m] > 0
              /\ r.mm = m /\ r.active_mm = m
              /\ heap' \cap Mms = (heap \cap Mms) \cup {m}
              /\ mm_users' = [mm_users EXCEPT ![m] = mm_users[m] + 1]
              /\ mm_count' = IF mm_users[m] = 0
                             THEN [mm_count EXCEPT ![m] = mm_count[m] + 1] ELSE mm_count
         \/ /\ r.mm = NULL /\ heap' \cap Mms = heap \cap Mms /\ mm_users' = mm_users
            /\ \/ r.active_mm = NULL /\ mm_count' = mm_count
               \/ /\ r.active_mm \in AllMms /\ mm_count[r.active_mm] > 0
                  /\ mm_count' = [mm_count EXCEPT ![r.active_mm] = mm_count[r.active_mm] + 1]
  PROVE  MmInv'
<1>1. /\ task \in [AllTasks -> TaskRec] /\ CpuTypeOK /\ CountTypeOK /\ NULL \notin AllMms
      /\ CountAlive /\ PageTableAlive
  BY TypeParts, TaskAssumption DEF Inv, TaskInv, MmInv, AllMms
<1>2. t \in AllTasks /\ t # curr /\ task[t] = Blank
  BY FreshTask
<1>3. task'[t] = r /\ \A u \in AllTasks \ {t} : task'[u] = task[u]
  BY <1>1, <1>2
<1>4. \A m \in AllMms : UserShare(task[t], m) = 0 /\ BorrowShare(task[t], m) = 0
  BY <1>1, <1>2 DEF UserShare, BorrowShare, Blank
<1>5. \A m \in AllMms : /\ mm_users[m] \in Nat /\ lost[m] \in Nat /\ mm_count[m] \in Nat
                        /\ lost' = lost /\ prev_mm' = prev_mm
  BY <1>1 DEF CountTypeOK, cpuVars
<1>6. PageTableAlive'
  BY <1>1, <1>2, <1>3 DEF PageTableAlive, CpuTypeOK, cpuVars
<1>7. CASE \E m \in Mms :
             /\ m \notin heap \/ mm_users[m] > 0
             /\ r.mm = m /\ r.active_mm = m
             /\ heap' \cap Mms = (heap \cap Mms) \cup {m}
             /\ mm_users' = [mm_users EXCEPT ![m] = mm_users[m] + 1]
             /\ mm_count' = IF mm_users[m] = 0
                            THEN [mm_count EXCEPT ![m] = mm_count[m] + 1] ELSE mm_count
  <2>1. PICK m \in Mms :
             /\ m \notin heap \/ mm_users[m] > 0
             /\ r.mm = m /\ r.active_mm = m
             /\ heap' \cap Mms = (heap \cap Mms) \cup {m}
             /\ mm_users' = [mm_users EXCEPT ![m] = mm_users[m] + 1]
             /\ mm_count' = IF mm_users[m] = 0
                            THEN [mm_count EXCEPT ![m] = mm_count[m] + 1] ELSE mm_count
    BY <1>7
  <2>2. m \in AllMms /\ m # NULL
    BY <1>1 DEF AllMms
  <2>3. \A n \in AllMms : /\ UserShare(r, n) = (IF n = m THEN 1 ELSE 0)
                          /\ BorrowShare(r, n) = 0
    BY <2>1, <2>2 DEF UserShare, BorrowShare
  <2>4. \A n \in AllMms :
          /\ mm_users'[n] = mm_users[n] + (IF n = m THEN 1 ELSE 0)
          /\ mm_count'[n] = mm_count[n] + (IF n = m /\ mm_users[m] = 0 THEN 1 ELSE 0)
    BY <1>1, <1>5, <2>1, <2>2 DEF CountTypeOK
  <2>5. \A n \in AllMms : UsersRef(mm_users'[n]) - UsersRef(mm_users[n])
                            = (IF n = m /\ mm_users[m] = 0 THEN 1 ELSE 0)
    BY <1>5, <2>2, <2>4 DEF UsersRef
  <2>6. UsersExact' /\ MmCountExact'
    BY <1>2, <1>3, <1>4, <1>5, <2>3, <2>4, <2>5, MmOneTask DEF UsersRef, LeftRef
  <2>7. CountAlive'
    <3>1. mm_count'[m] > 0
      BY <1>5, <2>2, <2>4, UsersCounted
    <3>2. \A n \in Mms \ {m} : mm_count'[n] = mm_count[n] /\ (n \in heap' <=> n \in heap)
      BY <1>5, <2>1, <2>4 DEF AllMms
    <3>3. m \in heap'
      BY <2>1
    <3> QED
      BY <1>1, <3>1, <3>2, <3>3 DEF CountAlive
  <2> QED
    BY <1>6, <2>6, <2>7 DEF MmInv
<1>8. CASE /\ r.mm = NULL /\ heap' \cap Mms = heap \cap Mms /\ mm_users' = mm_users
           /\ \/ r.active_mm = NULL /\ mm_count' = mm_count
              \/ /\ r.active_mm \in AllMms /\ mm_count[r.active_mm] > 0
                 /\ mm_count' = [mm_count EXCEPT ![r.active_mm] = mm_count[r.active_mm] + 1]
  <2>1. \A n \in AllMms : /\ UserShare(r, n) = 0
                          /\ BorrowShare(r, n) = (IF n = r.active_mm THEN 1 ELSE 0)
    BY <1>1, <1>8 DEF UserShare, BorrowShare
  <2>2. \A n \in AllMms : mm_count'[n] = mm_count[n] + (IF n = r.active_mm THEN 1 ELSE 0)
    BY <1>1, <1>5, <1>8 DEF CountTypeOK
  <2>3. UsersExact' /\ MmCountExact'
    BY <1>2, <1>3, <1>4, <1>5, <1>8, <2>1, <2>2, MmOneTask DEF UsersRef, LeftRef
  <2>4. CountAlive'
    <3>1. \A n \in Mms : n \in heap' <=> n \in heap
      BY <1>8
    <3>2. \A n \in Mms : mm_count'[n] > 0 <=> mm_count[n] > 0
      BY <1>5, <1>8, <2>2 DEF AllMms
    <3> QED
      BY <1>1, <3>1, <3>2 DEF CountAlive
  <2> QED
    BY <1>6, <2>3, <2>4 DEF MmInv
<1> QED
  BY <1>7, <1>8

\* A switch moves references: next's from what it pointed to, which is lost, to
\* the loaded address space, and the one of the task switched from to
\* rq->prev_mm.
LEMMA MmSwitch ==
  ASSUME Inv, NEW next \in AllTasks, Schedule(next)
  PROVE  MmInv'
<1> DEFINE oldmm == task[curr].active_mm
           lazy == task[next].mm = NULL
           kernel == task[curr].mm = NULL
           one(P) == IF P THEN 1 ELSE 0
<1>1. /\ task \in [AllTasks -> TaskRec] /\ CpuTypeOK /\ CountTypeOK /\ NULL \notin AllMms
      /\ CountAlive /\ PageTableAlive /\ Fields
  BY TypeParts, TaskAssumption DEF Inv, TaskInv, MmInv, AllMms
<1>2. /\ next # curr /\ curr \in AllTasks /\ prev_mm = NULL /\ oldmm \in AllMms
      /\ \A t \in AllTasks \ {next, curr} : task'[t] = task[t]
      /\ task'[next] = IF lazy THEN [task[next] EXCEPT !.active_mm = oldmm] ELSE task[next]
      /\ task'[curr] = IF kernel THEN [task[curr] EXCEPT !.active_mm = NULL] ELSE task[curr]
      /\ \A t \in AllTasks : task'[t].mm = task[t].mm
  BY <1>1, SwitchParts DEF CpuTypeOK
<1>3. /\ task[next] \in TaskRec /\ task[curr] \in TaskRec
      /\ task[next].active_mm \in AllMms \cup {NULL}
  BY <1>1, <1>2 DEF TaskRec
<1>4. /\ lazy => task'[next].active_mm = oldmm
      /\ ~ lazy => task'[next] = task[next]
      /\ kernel => task'[curr].active_mm = NULL
      /\ ~ kernel => task'[curr] = task[curr]
  BY <1>2, <1>3 DEF TaskRec
<1>5. \A m \in AllMms :
        /\ BorrowShare(task'[next], m) = one(lazy /\ m = oldmm)
        /\ BorrowShare(task[next], m) = one(lazy /\ m = task[next].active_mm)
        /\ BorrowShare(task'[curr], m) = 0
        /\ BorrowShare(task[curr], m) = one(kernel /\ m = oldmm)
        /\ UserShare(task'[next], m) = UserShare(task[next], m)
        /\ UserShare(task'[curr], m) = UserShare(task[curr], m)
  BY <1>1, <1>2, <1>4 DEF BorrowShare, UserShare
<1>6. /\ prev_mm' = IF kernel THEN oldmm ELSE NULL
      /\ mm_users' = mm_users /\ heap' = heap /\ curr' = next
      /\ cr3' = IF lazy THEN cr3 ELSE task[next].mm
  BY <1>2 DEF Schedule, context_switch, HandOver, memVars
<1>7. \A m \in AllMms : /\ mm_count'[m] = mm_count[m] + one(lazy /\ m = oldmm)
                        /\ lost'[m] = lost[m] + one(lazy /\ m = task[next].active_mm)
                        /\ mm_count[m] \in Nat /\ lost[m] \in Nat /\ mm_users[m] \in Nat
  BY <1>1, <1>2, <1>3 DEF Schedule, context_switch, Borrow, CountTypeOK
<1>8. \A m \in AllMms :
        /\ Cardinality(UsersOf(task, m)) \in Nat
        /\ Cardinality(UsersOf(task', m)) = Cardinality(UsersOf(task, m))
        /\ Cardinality(BorrowersOf(task, m)) \in Nat
        /\ Cardinality(BorrowersOf(task', m)) \in Nat
        /\ Cardinality(BorrowersOf(task', m))
             = Cardinality(BorrowersOf(task, m))
               + one(lazy /\ m = oldmm) - one(lazy /\ m = task[next].active_mm)
               - one(kernel /\ m = oldmm)
  <2> DEFINE f == task
             g == task'
             h == [task EXCEPT ![next] = task'[next]]
  <2>1. /\ f[next] = task[next] /\ h[next] = task'[next]
        /\ h[curr] = task[curr] /\ g[curr] = task'[curr]
    BY <1>1, <1>2
  <2>2. \A u \in AllTasks \ {next} : f[u] = h[u]
    BY <1>1
  <2>3. \A u \in AllTasks \ {curr} : h[u] = g[u]
    BY <1>1, <1>2
  <2>4. curr \in AllTasks
    BY <1>2
  <2> HIDE DEF f, g, h
  <2> SUFFICES ASSUME NEW m \in AllMms
               PROVE  /\ Cardinality(UsersOf(f, m)) \in Nat
                      /\ Cardinality(UsersOf(g, m)) = Cardinality(UsersOf(f, m))
                      /\ Cardinality(BorrowersOf(f, m)) \in Nat
                      /\ Cardinality(BorrowersOf(g, m)) \in Nat
                      /\ Cardinality(BorrowersOf(g, m))
                           = Cardinality(BorrowersOf(f, m))
                             + one(lazy /\ m = oldmm) - one(lazy /\ m = task[next].active_mm)
                             - one(kernel /\ m = oldmm)
    BY DEF f, g
  <2>5. /\ Cardinality(UsersOf(f, m)) \in Nat /\ Cardinality(UsersOf(h, m)) \in Nat
        /\ Cardinality(BorrowersOf(f, m)) \in Nat /\ Cardinality(BorrowersOf(h, m)) \in Nat
        /\ Cardinality(UsersOf(h, m))
             = Cardinality(UsersOf(f, m)) + UserShare(h[next], m) - UserShare(f[next], m)
        /\ Cardinality(BorrowersOf(h, m))
             = Cardinality(BorrowersOf(f, m)) + BorrowShare(h[next], m) - BorrowShare(f[next], m)
    BY <2>2, SharesMove
  <2>6. /\ Cardinality(UsersOf(g, m)) \in Nat /\ Cardinality(BorrowersOf(g, m)) \in Nat
        /\ Cardinality(UsersOf(g, m))
             = Cardinality(UsersOf(h, m)) + UserShare(g[curr], m) - UserShare(h[curr], m)
        /\ Cardinality(BorrowersOf(g, m))
             = Cardinality(BorrowersOf(h, m)) + BorrowShare(g[curr], m) - BorrowShare(h[curr], m)
    BY <2>3, <2>4, SharesMove
  <2>7. \A q : UserShare(q, m) \in {0, 1} /\ BorrowShare(q, m) \in {0, 1}
    BY DEF UserShare, BorrowShare
  <2> HIDE DEF lazy, kernel, oldmm, one
  <2>8. /\ UserShare(h[next], m) = UserShare(f[next], m)
        /\ UserShare(g[curr], m) = UserShare(h[curr], m)
        /\ BorrowShare(h[next], m) = one(lazy /\ m = oldmm)
        /\ BorrowShare(f[next], m) = one(lazy /\ m = task[next].active_mm)
        /\ BorrowShare(g[curr], m) = 0
        /\ BorrowShare(h[curr], m) = one(kernel /\ m = oldmm)
    BY <1>5, <2>1
  <2> QED
    BY <2>5, <2>6, <2>7, <2>8
<1>9. UsersExact' /\ MmCountExact'
  <2>1. CountsFor(task, mm_users, mm_count, prev_mm, lost)
    BY CountsMeaning DEF Inv, MmInv
  <2>2. CountsFor(task', mm_users', mm_count', prev_mm', lost')
    <3> SUFFICES ASSUME NEW m \in AllMms
                 PROVE  /\ mm_users'[m] = Cardinality(UsersOf(task', m))
                                          + (IF m = init_mm THEN 1 ELSE 0)
                        /\ mm_count'[m] = (IF mm_users'[m] > 0 THEN 1 ELSE 0)
                                          + Cardinality(BorrowersOf(task', m))
                                          + (IF prev_mm' = m THEN 1 ELSE 0) + lost'[m]
      BY DEF CountsFor
    <3>1. /\ mm_users[m] = Cardinality(UsersOf(task, m)) + (IF m = init_mm THEN 1 ELSE 0)
          /\ mm_count[m] = (IF mm_users[m] > 0 THEN 1 ELSE 0)
                           + Cardinality(BorrowersOf(task, m)) + lost[m]
      BY <1>1, <1>2, <1>7, <1>8, <2>1 DEF CountsFor
    <3>2. (IF prev_mm' = m THEN 1 ELSE 0) = one(kernel /\ m = oldmm)
      BY <1>1, <1>6
    <3>3. \A P : one(P) \in {0, 1}
      OBVIOUS
    <3> HIDE DEF one, lazy, kernel, oldmm
    <3> QED
      BY <1>6, <1>7, <1>8, <3>1, <3>2, <3>3
  <2> QED
    BY <2>2, CountsMeaning
<1>10. CountAlive'
  <2>1. oldmm \in Mms => oldmm \in heap
    BY <1>1, TaskAssumption DEF PageTableAlive
  <2> QED
    BY <1>1, <1>6, <1>7, <2>1 DEF CountAlive, AllMms
<1>11. PageTableAlive'
  <2>1. CASE lazy
    BY <1>1, <1>4, <1>6, <2>1 DEF PageTableAlive
  <2>2. CASE ~ lazy
    <3>1. cr3' = task[next].mm /\ task'[curr'].active_mm = task[next].mm
      BY <1>1, <1>4, <1>6, <2>2 DEF Fields
    <3>2. task[next].mm \in AllMms
      BY <1>3, <2>2 DEF TaskRec
    <3>3. mm_count[task[next].mm] > 0
      BY <2>2, <3>2, Referred, UsersCounted
    <3> QED
      BY <1>1, <1>6, <3>1, <3>2, <3>3 DEF PageTableAlive, CountAlive, AllMms
  <2> QED
    BY <2>1, <2>2
<1> QED
  BY <1>9, <1>10, <1>11 DEF MmInv

\* finish_task_switch drops the reference in rq->prev_mm; the address space is
\* freed with it only if nothing refers to it, and so is not the loaded one.
LEMMA MmFinish ==
  ASSUME Inv, FinishTaskSwitch
  PROVE  MmInv'
<1>1. /\ CpuTypeOK /\ CountTypeOK /\ NULL \notin AllMms /\ CountAlive /\ PageTableAlive
  BY TypeParts, TaskAssumption DEF Inv, TaskInv, MmInv, AllMms
<1>2. /\ task' = task /\ heap' = HeapAfterDrop(prev_mm) /\ prev_mm' = NULL
      /\ mm_count' = IF prev_mm = NULL THEN mm_count
                     ELSE [mm_count EXCEPT ![prev_mm] = mm_count[prev_mm] - 1]
      /\ UNCHANGED <<curr, cr3, mm_users, lost>>
  BY NothingReaped DEF FinishTaskSwitch
<1>3. \A m \in AllMms : mm_count[m] \in Nat /\ mm_users[m] \in Nat /\ lost[m] \in Nat
  BY <1>1 DEF CountTypeOK
<1>4. \A m \in AllMms : mm_count'[m] = mm_count[m] - LeftRef(prev_mm, m)
  BY <1>1, <1>2, <1>3 DEF CountTypeOK, LeftRef
<1>5. UsersExact' /\ MmCountExact'
  <2>1. \A m : Users(m)' = Users(m) /\ Borrowers(m)' = Borrowers(m)
    BY <1>2 DEF Users, Borrowers
  <2>2. \A m \in AllMms : Cardinality(Borrowers(m)) \in Nat
    <3>1. \A m : Borrowers(m) \in SUBSET AllTasks
      BY DEF Borrowers
    <3> QED
      BY <3>1, TasksFinite, FS_Subset, FS_CardinalityType
  <2>3. UsersExact /\ MmCountExact
    BY DEF Inv, MmInv
  <2> QED
    BY <1>1, <1>2, <1>3, <1>4, <2>1, <2>2, <2>3 DEF UsersExact, MmCountExact, LeftRef
<1>6. CountAlive'
  <2>1. prev_mm \in AllMms => mm_count[prev_mm] > 0
    BY HandedOver
  <2> QED
    BY <1>1, <1>2, <1>3, <1>4, <2>1 DEF CountAlive, HeapAfterDrop, LeftRef, AllMms
<1>7. PageTableAlive'
  <2>1. /\ curr \in AllTasks /\ cr3 = task[curr].active_mm /\ cr3 \in AllMms
        /\ mm_count[cr3] > (IF prev_mm = cr3 THEN 1 ELSE 0)
    BY <1>1, Referred DEF CpuTypeOK, PageTableAlive
  <2> QED
    BY <1>1, <1>2, <1>3, <2>1 DEF PageTableAlive, HeapAfterDrop
<1> QED
  BY <1>5, <1>6, <1>7 DEF MmInv

\* The last user of an address space turns the users' reference into its own.
LEMMA MmExit ==
  ASSUME Inv, Exit
  PROVE  MmInv'
<1>1. /\ task \in [AllTasks -> TaskRec] /\ CpuTypeOK /\ CountTypeOK /\ NULL \notin AllMms
      /\ CountAlive /\ PageTableAlive /\ Fields
  BY TypeParts, TaskAssumption DEF Inv, TaskInv, MmInv, AllMms
<1>2. /\ curr \in AllTasks /\ task[curr] \in TaskRec
      /\ UNCHANGED <<heap, curr, cr3, prev_mm, lost>>
  BY <1>1 DEF Exit, CpuTypeOK, memVars, cpuVars
<1> DEFINE m == task[curr].mm
           r == [task[curr] EXCEPT !.dead = TRUE, !.mm = NULL]
<1>3. task'[curr] = r /\ \A u \in AllTasks \ {curr} : task'[u] = task[u]
  BY <1>1, <1>2 DEF Exit, TaskRec
<1>4. r.mm = NULL /\ r.active_mm = task[curr].active_mm /\ m \in AllMms \cup {NULL}
  BY <1>2 DEF TaskRec
<1> HIDE DEF r
<1>5. \A n \in AllMms : mm_count[n] \in Nat /\ mm_users[n] \in Nat /\ lost[n] \in Nat
  BY <1>1 DEF CountTypeOK
<1>6. /\ m # NULL => mm_users[m] > 0 /\ task[curr].active_mm = m
  BY <1>1, <1>2, Referred DEF Fields
<1>7. \A n \in AllMms :
        /\ mm_users'[n] = mm_users[n] - (IF n = m THEN 1 ELSE 0)
        /\ mm_count'[n] = mm_count[n] + (IF n = m /\ mm_users[n] > 1 THEN 1 ELSE 0)
  BY <1>1, <1>4, <1>5 DEF Exit, CountTypeOK
<1>8. \A n \in AllMms :
        /\ UserShare(r, n) = 0 /\ UserShare(task[curr], n) = (IF n = m THEN 1 ELSE 0)
        /\ BorrowShare(r, n) - BorrowShare(task[curr], n) = (IF n = m THEN 1 ELSE 0)
        /\ BorrowShare(r, n) \in {0, 1} /\ BorrowShare(task[curr], n) \in {0, 1}
  BY <1>1, <1>4, <1>6 DEF UserShare, BorrowShare
<1>9. \A n \in AllMms : UsersRef(mm_users'[n]) - UsersRef(mm_users[n])
                          = (IF n = m /\ ~ mm_users[n] > 1 THEN 0 - 1 ELSE 0)
  BY <1>1, <1>5, <1>6, <1>7 DEF UsersRef
<1>10. UsersExact' /\ MmCountExact'
  <2>1. \A n \in AllMms :
           /\ mm_users'[n] \in Nat /\ lost'[n] \in Nat
           /\ mm_users'[n] = mm_users[n] + UserShare(r, n) - UserShare(task[curr], n)
           /\ mm_count'[n] = mm_count[n] + UsersRef(mm_users'[n]) - UsersRef(mm_users[n])
                             + BorrowShare(r, n) - BorrowShare(task[curr], n)
                             + LeftRef(prev_mm', n) - LeftRef(prev_mm, n)
                             + lost'[n] - lost[n]
    BY <1>1, <1>2, <1>5, <1>6, <1>7, <1>8, <1>9 DEF UsersRef, LeftRef
  <2> QED
    BY <1>2, <1>3, <2>1, MmOneTask
<1>11. CountAlive'
  <2>1. \A n \in AllMms : mm_count'[n] > 0 <=> mm_count[n] > 0
    BY <1>5, <1>6, <1>7, UsersCounted
  <2> QED
    BY <1>1, <1>2, <2>1 DEF CountAlive, AllMms
<1>12. PageTableAlive'
  BY <1>1, <1>2, <1>3, <1>4 DEF PageTableAlive
<1> QED
  BY <1>10, <1>11, <1>12 DEF MmInv

\* Every step keeps the counts exact and what is loaded allocated.
LEMMA MmStep ==
  ASSUME Inv, [Next]_vars
  PROVE  MmInv'
<1>1. /\ task \in [AllTasks -> TaskRec] /\ CpuTypeOK /\ CountTypeOK /\ NULL \notin AllMms
      /\ CountAlive /\ Linked /\ MemTypeOK
  BY TypeParts, TaskAssumption DEF Inv, TaskInv, MmInv, AllMms
<1>2. CASE AllocInitFails
  <2>1. heap' = heap
    BY <1>2, AllocUndone DEF AllocInitFails, BootPanics
  <2> QED
    BY <1>2, <2>1, MmQuiet DEF AllocInitFails, BootPanics, mmVars, cpuVars
<1>3. CASE AllocInitMmFails
  <2>1. heap' = heap
    BY <1>3, AllocUndone DEF AllocInitMmFails, BootPanics
  <2> QED
    BY <1>3, <2>1, MmQuiet DEF AllocInitMmFails, BootPanics, mmVars, cpuVars
<1>4. CASE CreateInitProcess
  <2>1. PICK t \in kmalloc(TaskStructs), s \in kmalloc(Stacks), m \in Mms \ heap :
          /\ Allocated(t, s)
          /\ heap' = HeapAfterAlloc(t, s) \cup {m}
          /\ task' = [task EXCEPT ![t] = [Blank EXCEPT !.pid = 1, !.usage = 1, !.stack = s,
                                                       !.mm = m, !.active_mm = m]]
          /\ mm_users' = [mm_users EXCEPT ![m] = 1]
          /\ mm_count' = [mm_count EXCEPT ![m] = 1]
    BY <1>4 DEF CreateInitProcess
  <2> DEFINE r == [Blank EXCEPT !.pid = 1, !.usage = 1, !.stack = s, !.mm = m, !.active_mm = m]
  <2>2. t \in TaskStructs /\ s \in Stacks /\ m \in Mms /\ m \in AllMms /\ t # NULL /\ s # NULL
    BY <2>1 DEF Allocated, kmalloc, AllMms
  <2>3. r \in TaskRec /\ r.mm = m /\ r.active_mm = m
    <3>1. Blank \in TaskRec
      BY TaskAssumption DEF Blank, TaskRec
    <3>2. 1 \in 0 .. PID_MAX - 1 /\ 1 \in 0 .. MaxRefs + 1
      BY TaskAssumption
    <3> QED
      BY <2>2, <3>1, <3>2 DEF TaskRec
  <2>4. /\ task' = [task EXCEPT ![t] = r] /\ prev_mm = NULL /\ UNCHANGED <<cpuVars, lost>>
    BY <1>1, <1>4, <2>1 DEF CreateInitProcess, Linked
  <2> HIDE DEF r
  <2>5. heap \subseteq heap' /\ heap' \cap Mms = (heap \cap Mms) \cup {m}
    BY <2>1, <2>2, HeapAssumption DEF HeapAfterAlloc, AllMms
  <2>6. mm_count[m] = 0 /\ mm_users[m] = 0
    <3>1. mm_count[m] \in Nat /\ mm_users[m] \in Nat /\ ~ mm_count[m] > 0
      BY <1>1, <2>1, <2>2 DEF CountTypeOK, CountAlive
    <3> QED
      BY <2>2, <3>1, UsersCounted
  <2>7. /\ mm_users' = [mm_users EXCEPT ![m] = mm_users[m] + 1]
        /\ mm_count' = [mm_count EXCEPT ![m] = mm_count[m] + 1]
    BY <2>1, <2>6
  <2> QED
    BY <2>1, <2>2, <2>3, <2>4, <2>5, <2>6, <2>7, MmNew
<1>5. CASE Halted \/ UNCHANGED vars
  BY <1>5, MmQuiet DEF Halted, vars
<1>6. CASE ForkFails
  <2>1. heap' = heap
    BY <1>6, AllocUndone DEF ForkFails
  <2> QED
    BY <1>6, <2>1, MmQuiet DEF ForkFails, mmVars, cpuVars
<1>7. ASSUME NEW orig \in AllTasks, Fork(orig)
      PROVE  MmInv'
  <2>1. /\ phase = "run" /\ orig \in task_list
        /\ UNCHANGED <<cpuVars, lost>>
    BY <1>7, ForkParts
  <2>2. PICK t \in kmalloc(TaskStructs), s \in Stacks \ heap, r \in TaskRec :
               ForkMakes(orig, t, s, r)
    BY <1>7, ForkParts
  <2>3. /\ t \in TaskStructs /\ t # NULL /\ prev_mm = NULL /\ task' = [task EXCEPT ![t] = r]
        /\ current_task \in AllTasks /\ r.active_mm \in AllMms \cup {NULL}
    BY <1>1, <2>1, <2>2 DEF kmalloc, ForkMakes, Linked, MemTypeOK, AllTasks, TaskRec
  <2>4. CASE \E m \in Mms : NewUser(orig, t, s, r, m)
    <3>1. PICK m \in Mms : NewUser(orig, t, s, r, m)
      BY <2>4
    <3>2. m \notin heap \/ mm_users[m] > 0
      <4>1. m = task[orig].mm => m # NULL /\ mm_users[m] > 0
        BY TaskAssumption, Referred
      <4> QED
        BY <3>1, <4>1 DEF NewUser
    <3>3. heap \subseteq heap' /\ heap' \cap Mms = (heap \cap Mms) \cup {m}
      BY <2>2, <2>3, <3>1, HeapAssumption DEF NewUser, AllMms
    <3> QED
      BY <2>1, <2>3, <3>1, <3>2, <3>3, MmNew DEF NewUser
  <2>5. CASE NewKthread(t, s, r)
    <3>1. r.active_mm # NULL => mm_count[r.active_mm] > 0
      <4>1. r.active_mm = task[current_task].active_mm
        BY <2>5 DEF NewKthread
      <4> QED
        BY <2>3, <4>1, Referred DEF Linked
    <3>2. heap \subseteq heap' /\ heap' \cap Mms = heap \cap Mms
      BY <2>2, <2>3, <2>5, HeapAssumption DEF NewKthread, AllMms
    <3> QED
      BY <2>1, <2>3, <2>5, <3>1, <3>2, MmNew DEF NewKthread
  <2> QED
    BY <2>2, <2>4, <2>5 DEF ForkMakes
<1>8. ASSUME NEW t \in AllTasks, get_task_struct(t) \/ put_task_struct(t)
      PROVE  MmInv'
  <2>1. heap' = heap /\ UNCHANGED <<mmVars, cpuVars>>
    BY <1>8, PutFreesNothing DEF get_task_struct, put_task_struct, memVars
  <2>2. \A u \in AllTasks : task'[u].mm = task[u].mm /\ task'[u].active_mm = task[u].active_mm
    BY <1>1, <1>8 DEF get_task_struct, put_task_struct, TaskRec
  <2> QED
    BY <2>1, <2>2, MmQuiet DEF mmVars, cpuVars
<1>9. CASE Sleep \/ \E t \in AllTasks : Wake(t)
  BY <1>9, MmQuiet DEF Sleep, Wake, memVars, mmVars, cpuVars
<1> QED
  BY <1>2, <1>3, <1>4, <1>5, <1>6, <1>7, <1>8, <1>9, MmSwitch, MmFinish, MmExit DEF Next

-------------------------------------------------------------------------------
(* The theorems *)

\* The invariant holds in every reachable state.
THEOREM TasksInv == Spec => []Inv
<1>1. Inv /\ [Next]_vars => Inv'
  BY TaskStep, MemStep, MmStep DEF Inv
<1> QED
  BY <1>1, InitInv, PTL DEF Spec

\* Every variable keeps its type, so that the counts of alloc_pid, the usage
\* counts and the reference counts of address spaces never leave their ranges.
THEOREM TasksTypeOK == Spec => []TypeOK
<1>1. Inv => TypeOK
  BY DEF Inv, TaskInv
<1> QED
  BY <1>1, TasksInv, PTL

\* Neither a failed allocation nor an undone one loses memory: all that is
\* allocated is linked, a linked task's stack, or a stack whose pointer
\* dup_task_struct overwrote.
THEOREM TasksHeapAccounted == Spec => []HeapAccounted
<1>1. Inv => HeapAccounted
  BY DEF Inv, MemInv
<1> QED
  BY <1>1, TasksInv, PTL

\* No task that is linked, queued, running or current has been freed, nor has
\* its stack, whatever put_task_struct and finish_task_switch do.
THEOREM TasksStayAlive == Spec => []TasksAlive
<1>1. Inv => TasksAlive
  <2> SUFFICES ASSUME Inv, NEW t \in (task_list \cup queued \cup {curr, current_task}) \ {Idle, NULL}
               PROVE  {t, task[t].stack} \subseteq heap /\ task[t].usage = 1 + refs[t]
    BY DEF TasksAlive
  <2>1. t \in task_list
    BY DEF Inv, TaskInv, Linked
  <2>2. t \in heap /\ task[t].stack \in heap
    BY <2>1 DEF Inv, MemInv, HeapAccounted
  <2> QED
    BY <2>1, <2>2 DEF Inv, TaskInv, Fields
<1> QED
  BY <1>1, TasksInv, PTL

\* Until alloc_pid wraps, fork gives no task a pid that is in use.
THEOREM TasksPidsUnique == Spec => []PidsUniqueUntilWrap
<1>1. Inv => PidsUniqueUntilWrap
  BY DEF Inv, MemInv
<1> QED
  BY <1>1, TasksInv, PTL

\* The reference count of every address space is the number of its references,
\* also between context_switch and finish_task_switch.
THEOREM TasksMmCountExact == Spec => []MmCountExact
<1>1. Inv => MmCountExact
  BY DEF Inv, MmInv
<1> QED
  BY <1>1, TasksInv, PTL

\* The CPU never runs on the page tables of an address space that mmdrop freed.
THEOREM TasksPageTableAlive == Spec => []PageTableAlive
<1>1. Inv => PageTableAlive
  BY DEF Inv, MmInv
<1> QED
  BY <1>1, TasksInv, PTL
===============================================================================
