-------------------------------- MODULE Tasks --------------------------------
(***************************************************************************)
(* Task structs, pids, kernel stacks, usage counts, the task list and the  *)
(* references to address spaces: kernel/core/sched/sched.c (alloc_pid to   *)
(* sched_fork, schedule, context_switch, finish_task_switch) and the       *)
(* creation of the first task in src/kernel/main.c.                        *)
(*                                                                         *)
(* One CPU.  schedule runs with interrupts disabled from its choice of the *)
(* next task to finish_task_switch, which is a step of its own because it  *)
(* runs on another stack.  Which task is picked is Cfs's matter; here any  *)
(* queued one may be.                                                      *)
(*                                                                         *)
(* kmalloc may fail at any time; main.c's stub, which always fails, is one *)
(* of these behaviours.  kfree is taken to free; main.c's stub is empty.   *)
(* do_fork, do_exit, mm_alloc and mmdrop are not in the repository (marked *)
(* external); nor is the start of a new task, which is taken to begin, as  *)
(* a resumed one, with finish_task_switch.                                 *)
(***************************************************************************)
EXTENDS Integers, FiniteSets

CONSTANTS TaskStructs,      \* the task structs kmalloc can return
          Stacks,           \* the kernel stacks kmalloc can return
          Mms,              \* the address spaces mm_alloc can return
          Idle,             \* rq->idle, and its stack and address space, are
          IdleStack,        \* set up before the scheduler runs
          init_mm,
          NULL,
          PID_MAX,
          MaxRefs           \* bound: references others take to one task

AllTasks == TaskStructs \cup {Idle}
AllMms   == Mms \cup {init_mm}

ASSUME TaskAssumption ==
  /\ PID_MAX \in Nat /\ PID_MAX > 1
  /\ MaxRefs \in Nat
  /\ {Idle, NULL} \cap TaskStructs = {} /\ {init_mm, NULL} \cap Mms = {}
  /\ {IdleStack, NULL} \cap Stacks = {} /\ init_mm # NULL
  /\ IsFiniteSet(TaskStructs)

\* What the allocators return is distinct memory.
ASSUME HeapAssumption ==
  /\ TaskStructs \cap Stacks = {}
  /\ (TaskStructs \cup Stacks) \cap AllMms = {}

VARIABLES heap,             \* the objects kmalloc and mm_alloc have handed out
          task,             \* task[t]: the fields of a task struct
          next_pid,
          task_list,        \* the tasks linked on task_list
          current_task,     \* what get_current returns
          queued,           \* the tasks on the run queue
          curr,             \* rq->curr
          prev_mm,          \* rq->prev_mm
          local_prev,       \* prev, as context_switch sees it after switch_to
          cr3,              \* the address space loaded on the CPU
          mm_users, mm_count,
          phase,            \* "boot", "run", "switch" or "panic"
          wrapped,          \* history: next_pid has wrapped
          refs,             \* history: references taken by get_task_struct
          orphans,          \* history: stacks dup_task_struct lost track of
          lost              \* history: mm references no pointer stands for

memVars == <<heap, task_list, next_pid, wrapped, orphans>>
mmVars  == <<mm_users, mm_count, lost>>
cpuVars == <<curr, prev_mm, local_prev, cr3>>
vars == <<heap, task, next_pid, task_list, current_task, queued, curr, prev_mm,
          local_prev, cr3, mm_users, mm_count, phase, wrapped, refs, orphans, lost>>

Blank == [pid |-> 0, dead |-> FALSE, usage |-> 0, stack |-> NULL,
          mm |-> NULL, active_mm |-> NULL, kthread |-> FALSE]

Init ==
  /\ heap = {} /\ task_list = {} /\ queued = {}
  /\ task = [t \in AllTasks |->
               IF t = Idle THEN [Blank EXCEPT !.usage = 1, !.stack = IdleStack,
                                   !.active_mm = init_mm, !.kthread = TRUE]
               ELSE Blank]
  /\ next_pid = 1 /\ wrapped = FALSE
  /\ current_task = NULL
  /\ curr = Idle /\ prev_mm = NULL /\ local_prev = Idle /\ cr3 = init_mm
  /\ mm_users = [m \in AllMms |-> IF m = init_mm THEN 1 ELSE 0]
  /\ mm_count = [m \in AllMms |-> IF m = init_mm THEN 2 ELSE 0]
  /\ phase = "boot"
  /\ refs = [t \in AllTasks |-> 0]
  /\ orphans = {}
  /\ lost = [m \in AllMms |-> 0]

-------------------------------------------------------------------------------
(* Allocation *)

\* kmalloc: NULL or an object that is not in use.
kmalloc(pool) == {NULL} \cup (pool \ heap)

\* Mutant: the wrap comes one pid too late.
alloc_pid_Late(n) == IF n + 1 > PID_MAX THEN 1 ELSE n + 1

\* The value of next_pid after pid n has been given out.
alloc_pid(n) == IF n + 1 >= PID_MAX THEN 1 ELSE n + 1

\* Mutant: a failure to get a stack leaves the task struct allocated.
HeapAfterAlloc_Leaks(t, s) ==
  IF t = NULL THEN heap ELSE heap \cup ({t, s} \ {NULL})

\* alloc_task_struct asks for a task struct, then for a stack; if the second
\* fails it frees the first.
HeapAfterAlloc(t, s) ==
  IF t = NULL THEN heap
  ELSE IF s = NULL THEN (heap \cup {t}) \ {t}
  ELSE heap \cup {t, s}

Allocated(t, s) == t # NULL /\ s # NULL

\* put_task_struct: the last reference frees the stack and the task struct
\* (free_task_struct), and does not unlink the task.
HeapAfterPut(H, t) == IF task[t].usage = 1 THEN H \ {t, task[t].stack} ELSE H

\* A pid is consumed only by a successful allocation.
TakePid ==
  /\ next_pid' = alloc_pid(next_pid)
  /\ wrapped' = (wrapped \/ next_pid' # next_pid + 1)

\* alloc_task_struct and dup_task_struct take one each.
TakeTwoPids ==
  LET n == alloc_pid(next_pid)
  IN  /\ next_pid' = alloc_pid(n)
      /\ wrapped' = (wrapped \/ n # next_pid + 1 \/ next_pid' # n + 1)

-------------------------------------------------------------------------------
(* The first task *)

BootPanics(H) ==
  /\ phase' = "panic"
  /\ heap' = H
  /\ UNCHANGED <<task, task_list, current_task, queued, cpuVars, mmVars, refs, orphans>>

AllocInitFails ==
  /\ phase = "boot"
  /\ \E t \in kmalloc(TaskStructs), s \in kmalloc(Stacks) :
       ~ Allocated(t, s) /\ BootPanics(HeapAfterAlloc(t, s))
  /\ UNCHANGED <<next_pid, wrapped>>

\* mm_alloc fails: the task struct and its stack are freed, then panic.
AllocInitMmFails ==
  /\ phase = "boot"
  /\ \E t \in kmalloc(TaskStructs), s \in kmalloc(Stacks) :
       Allocated(t, s) /\ BootPanics(HeapAfterAlloc(t, s) \ {t, s})
  /\ TakePid

\* create_init_process, set_current and wake_up_new_task.  The pid is forced
\* to 1 after alloc_pid gave one.
CreateInitProcess ==
  /\ phase = "boot"
  /\ \E t \in kmalloc(TaskStructs), s \in kmalloc(Stacks), m \in Mms \ heap :
       /\ Allocated(t, s)
       /\ heap' = HeapAfterAlloc(t, s) \cup {m}
       /\ task' = [task EXCEPT ![t] = [Blank EXCEPT !.pid = 1, !.usage = 1, !.stack = s,
                                                    !.mm = m, !.active_mm = m]]
       /\ mm_users' = [mm_users EXCEPT ![m] = 1]
       /\ mm_count' = [mm_count EXCEPT ![m] = 1]
       /\ task_list' = task_list \cup {t}
       /\ current_task' = t
       /\ queued' = queued \cup {t}
  /\ TakePid
  /\ phase' = "run"
  /\ UNCHANGED <<cpuVars, refs, orphans, lost>>

\* panic halts for ever.
Halted == phase = "panic" /\ UNCHANGED vars

-------------------------------------------------------------------------------
(* Fork: do_fork (external) calls dup_task_struct, gives the copy an address  *)
(* space or makes it a kernel thread, then calls sched_fork and               *)
(* wake_up_new_task.                                                          *)

\* Mutant: the copy keeps its parent's pid.
dup_task_struct_SamePid(orig) == [task[orig] EXCEPT !.dead = FALSE, !.usage = 1]

\* *tsk = *orig copies the stack pointer with the rest; the pid is the second
\* one that was taken.
dup_task_struct(orig) ==
  [task[orig] EXCEPT !.pid = alloc_pid(next_pid), !.dead = FALSE, !.usage = 1]

\* sched_fork of a kernel thread: the address space of current, whoever called.
sched_fork_kthread(p) ==
  [p EXCEPT !.kthread = TRUE, !.mm = NULL, !.active_mm = task[current_task].active_mm]

\* The copy's fields and the counts of the address space m it refers to.
ForkUser(p, m, t) ==
  /\ task' = [task EXCEPT ![t] = [p EXCEPT !.mm = m, !.active_mm = m]]
  /\ mm_users' = [mm_users EXCEPT ![m] = @ + 1]
  /\ mm_count' = IF mm_users[m] = 0 THEN [mm_count EXCEPT ![m] = @ + 1] ELSE mm_count

ForkKthread(p, t) ==
  LET k == sched_fork_kthread(p)
  IN  /\ task' = [task EXCEPT ![t] = k]
      /\ mm_count' = IF k.active_mm = NULL THEN mm_count
                     ELSE [mm_count EXCEPT ![k.active_mm] = @ + 1]
      /\ UNCHANGED mm_users

\* orig is the caller, or current.
Fork(orig) ==
  /\ phase = "run" /\ curr # Idle /\ ~ task[curr].dead
  /\ orig \in {curr, current_task}
  /\ \E t \in kmalloc(TaskStructs), s \in kmalloc(Stacks) :
       /\ Allocated(t, s)
       /\ orphans' = orphans \cup {s}
       /\ task_list' = task_list \cup {t}
       /\ queued' = queued \cup {t}
       /\ LET p == dup_task_struct(orig)
          IN  \/ \E m \in (Mms \ heap) \cup ({p.mm} \ {NULL}) :    \* copied, or CLONE_VM
                   /\ ~ p.kthread
                   /\ ForkUser(p, m, t)
                   /\ heap' = HeapAfterAlloc(t, s) \cup {m}
              \/ /\ ForkKthread(p, t)
                 /\ heap' = HeapAfterAlloc(t, s)
  /\ TakeTwoPids
  /\ UNCHANGED <<current_task, cpuVars, phase, refs, lost>>

ForkFails ==
  /\ phase = "run" /\ curr # Idle /\ ~ task[curr].dead
  /\ \E t \in kmalloc(TaskStructs), s \in kmalloc(Stacks) :
       ~ Allocated(t, s) /\ heap' = HeapAfterAlloc(t, s)
  /\ UNCHANGED <<task, next_pid, task_list, current_task, queued, cpuVars, mmVars,
                 phase, wrapped, refs, orphans>>

-------------------------------------------------------------------------------
(* Usage counts *)

get_task_struct(t) ==
  /\ phase = "run" /\ t \in task_list /\ refs[t] < MaxRefs
  /\ task' = [task EXCEPT ![t].usage = @ + 1]
  /\ refs' = [refs EXCEPT ![t] = @ + 1]
  /\ UNCHANGED <<memVars, mmVars, cpuVars, current_task, queued, phase>>

put_task_struct(t) ==
  /\ phase = "run" /\ refs[t] > 0
  /\ task' = [task EXCEPT ![t].usage = @ - 1]
  /\ heap' = HeapAfterPut(heap, t)
  /\ refs' = [refs EXCEPT ![t] = @ - 1]
  /\ UNCHANGED <<task_list, next_pid, wrapped, orphans, mmVars, cpuVars,
                 current_task, queued, phase>>

-------------------------------------------------------------------------------
(* Switching *)

\* Mutant: a third argument of switch_to returns the task switched from.
PrevAfterSwitch_Last(prev, next) == prev

\* switch_to (switch.S) takes two arguments and returns nothing: the resumed
\* task finds the local variable prev of its own context_switch, itself.
PrevAfterSwitch(prev, next) == next

\* Mutant: no reference is taken to a borrowed address space.
Borrow_NoGet(next, oldmm) ==
  /\ mm_count' = mm_count
  /\ lost' = lost

\* A task without an address space keeps the loaded one and counts itself.  A
\* new kernel thread's pointer, with its reference from sched_fork, is
\* overwritten.
Borrow(next, oldmm) ==
  /\ mm_count' = [mm_count EXCEPT ![oldmm] = @ + 1]
  /\ lost' = IF task[next].active_mm = NULL THEN lost
             ELSE [lost EXCEPT ![task[next].active_mm] = @ + 1]

\* Mutant: the address space prev borrowed is forgotten.
HandOver_Forgets(prev, oldmm) == NULL

\* What context_switch leaves in rq->prev_mm for finish_task_switch to drop.
HandOver(prev, oldmm) == IF task[prev].mm = NULL THEN oldmm ELSE prev_mm

context_switch(prev, next) ==
  LET oldmm == task[prev].active_mm
      lazy  == task[next].mm = NULL
  IN  /\ IF lazy THEN Borrow(next, oldmm) ELSE UNCHANGED <<mm_count, lost>>
      /\ cr3' = IF lazy THEN cr3 ELSE task[next].mm
      /\ task' = [t \in AllTasks |->
                    CASE t = next /\ lazy -> [task[t] EXCEPT !.active_mm = oldmm]
                      [] t = prev /\ task[prev].mm = NULL ->
                           [task[t] EXCEPT !.active_mm = NULL]
                      [] OTHER -> task[t]]
      /\ prev_mm' = HandOver(prev, oldmm)
      /\ local_prev' = PrevAfterSwitch(prev, next)

\* schedule, up to switch_to.  With prev = next it only releases the lock.
Schedule(next) ==
  /\ phase = "run"
  /\ next \in IF queued = {} THEN {Idle} ELSE queued
  /\ next # curr
  /\ curr' = next
  /\ context_switch(curr, next)
  /\ phase' = "switch"
  /\ UNCHANGED <<memVars, current_task, queued, mm_users, refs>>

\* mmdrop (external): the last reference frees the address space.
HeapAfterDrop(m) == IF m # NULL /\ mm_count[m] = 1 THEN heap \ {m} ELSE heap

\* kernel_main panics when its call of schedule returns.  That is where the idle
\* task resumes if it is the context that booted, which is decided elsewhere.
kernel_main == IF curr = Idle THEN {"run", "panic"} ELSE {"run"}

\* It drops what context_switch left in rq->prev_mm, and its reference to prev
\* if prev is dead.
FinishTaskSwitch ==
  LET reap == task[local_prev].dead
  IN  /\ phase = "switch"
      /\ phase' \in kernel_main
      /\ prev_mm' = NULL
      /\ mm_count' = IF prev_mm = NULL THEN mm_count ELSE [mm_count EXCEPT ![prev_mm] = @ - 1]
      /\ task' = IF reap THEN [task EXCEPT ![local_prev].usage = @ - 1] ELSE task
      /\ heap' = IF reap THEN HeapAfterPut(HeapAfterDrop(prev_mm), local_prev)
                 ELSE HeapAfterDrop(prev_mm)
      /\ UNCHANGED <<next_pid, task_list, current_task, queued, curr, local_prev, cr3,
                     mm_users, wrapped, refs, orphans, lost>>

\* do_exit (external): the task is dead, off the queue, and lends itself the
\* address space it used until it is switched from.  init does not exit.
Exit ==
  /\ phase = "run" /\ curr \in task_list \ {current_task} /\ ~ task[curr].dead
  /\ LET m == task[curr].mm
     IN  IF m = NULL THEN UNCHANGED <<mm_users, mm_count>>
         ELSE /\ mm_users' = [mm_users EXCEPT ![m] = @ - 1]
              /\ mm_count' = IF mm_users[m] > 1 THEN [mm_count EXCEPT ![m] = @ + 1]
                             ELSE mm_count
  /\ task' = [task EXCEPT ![curr].dead = TRUE, ![curr].mm = NULL]
  /\ queued' = queued \ {curr}
  /\ UNCHANGED <<memVars, current_task, cpuVars, phase, refs, lost>>

\* Sleeping and waking, which Cfs models: a task leaves or enters the queue.
Sleep ==
  /\ phase = "run" /\ curr \in queued
  /\ queued' = queued \ {curr}
  /\ UNCHANGED <<memVars, task, current_task, cpuVars, mmVars, phase, refs>>

Wake(t) ==
  /\ phase = "run" /\ t \in task_list \ queued /\ ~ task[t].dead
  /\ queued' = queued \cup {t}
  /\ UNCHANGED <<memVars, task, current_task, cpuVars, mmVars, phase, refs>>

Next ==
  \/ AllocInitFails \/ AllocInitMmFails \/ CreateInitProcess \/ Halted
  \/ \E t \in AllTasks : \/ Fork(t) \/ get_task_struct(t) \/ put_task_struct(t)
                         \/ Schedule(t) \/ Wake(t)
  \/ ForkFails \/ FinishTaskSwitch \/ Exit \/ Sleep

Spec == Init /\ [][Next]_vars

-------------------------------------------------------------------------------
(* Properties *)

\* Every variable has its type; pids stay within 1 .. PID_MAX - 1.
TypeOK ==
  /\ heap \subseteq TaskStructs \cup Stacks \cup Mms
  /\ task \in [AllTasks -> [pid : 0 .. PID_MAX - 1, dead : BOOLEAN, usage : 0 .. MaxRefs + 1,
                            stack : Stacks \cup {IdleStack, NULL}, mm : AllMms \cup {NULL},
                            active_mm : AllMms \cup {NULL}, kthread : BOOLEAN]]
  /\ next_pid \in 1 .. PID_MAX - 1
  /\ task_list \subseteq TaskStructs /\ queued \subseteq TaskStructs
  /\ current_task \in TaskStructs \cup {NULL}
  /\ curr \in AllTasks /\ local_prev \in AllTasks
  /\ cr3 \in AllMms /\ prev_mm \in AllMms \cup {NULL}
  /\ mm_users \in [AllMms -> Nat] /\ mm_count \in [AllMms -> Nat] /\ lost \in [AllMms -> Nat]
  /\ phase \in {"boot", "run", "switch", "panic"}
  /\ wrapped \in BOOLEAN
  /\ refs \in [AllTasks -> 0 .. MaxRefs]
  /\ orphans \subseteq Stacks

Borrowers(m) == {t \in AllTasks : task[t].mm = NULL /\ task[t].active_mm = m}

\* mm_count is exact: one for the users, one for each task that borrows the
\* address space, one for the reference that context_switch has left for
\* finish_task_switch to drop on another stack.  The only references that are
\* never dropped are those sched_fork took for kernel threads.
MmCountExact ==
  \A m \in AllMms :
    mm_count[m] = (IF mm_users[m] > 0 THEN 1 ELSE 0) + Cardinality(Borrowers(m))
                  + (IF prev_mm = m THEN 1 ELSE 0) + lost[m]

\* The page tables the CPU walks are never those of a freed address space: what
\* is loaded is what the running task has as active_mm, and it is allocated,
\* even when its last user exits while a kernel thread borrows it.
PageTableAlive == cr3 = task[curr].active_mm /\ cr3 \in heap \cup {init_mm}

\* Until next_pid has wrapped no two tasks have one pid, init's forced 1 included.
PidsUniqueUntilWrap ==
  ~ wrapped => \A t, u \in task_list : t # u => task[t].pid # task[u].pid

\* Failed and successful allocations leave nothing unreachable but the stack that
\* each dup_task_struct overwrites the pointer of: every allocated task struct is
\* on the task list, every allocated stack is some task's or such a stack.  (A
\* dead task stays on the list and is never freed; that is no allocation's doing.)
HeapAccounted ==
  /\ heap \cap TaskStructs = task_list
  /\ heap \cap Stacks = {task[t].stack : t \in task_list} \cup orphans

\* A task that is linked, queued, running or current is allocated, and so is
\* its stack, though copies share their parent's stack and freeing does not
\* unlink.  The code gets this from never freeing a dead task:
\* finish_task_switch looks at the resumed task, not at the dead one.
TasksAlive ==
  \A t \in (task_list \cup queued \cup {curr, current_task}) \ {Idle, NULL} :
    {t, task[t].stack} \subseteq heap /\ task[t].usage = 1 + refs[t]
===============================================================================
