---------------------------------- MODULE Cfs ----------------------------------
(***************************************************************************)
(* The fair scheduling class of kernel/core/sched/sched_fair.c and the run *)
(* queue code of sched.c that drives it (schedule, wake-ups, activation),  *)
(* on the one CPU the kernel is configured for.                            *)
(*                                                                         *)
(* Everything here runs under rq->lock with interrupts disabled, so each   *)
(* entry point is one action; its body is a composition of functions from  *)
(* run queues to run queues, named after the C functions.  The red-black   *)
(* tree is its in-order traversal; rb_leftmost is the cached pointer the   *)
(* code keeps beside it.  vruntime is a u64 compared by the sign of a      *)
(* difference; U64 values stand for 2^64.  Groups, bandwidth control and   *)
(* statistics are left out: an entity is a task and has no parent.  The    *)
(* task list, the references to address spaces and the register switch are *)
(* other components' state.                                                *)
(*                                                                         *)
(* Two things are read as meant, not as written.  Every task is taken to   *)
(* be of the fair class: no code of the repository assigns sched_class.    *)
(* And current, which init stays for ever once main.c has set it (module   *)
(* Tasks models that), is taken to be rq->curr.                            *)
(***************************************************************************)
EXTENDS Integers, Sequences, SequencesExt, FiniteSets

CONSTANTS Tasks,
          Idle, None,
          Scale,        \* Scale[t]: NICE_0_LOAD / weight, the speed of t's vruntime
          U64,          \* the number of values of a vruntime
          MaxRan,       \* bound: time between two calls of update_curr
          MaxLead,      \* bound: how far a task runs ahead of another
          Thresh,       \* the sleeper credit of place_entity
          Gran,         \* wakeup_gran
          NrLatency,    \* sched_nr_latency
          NextBuddy, LastBuddy,     \* sched features
          Sleepers,     \* the tasks that sleep or are taken off the queue
          CopiesOnRq    \* whether new tasks come from dup_task_struct

ASSUME CfsAssumption ==
  /\ Idle \notin Tasks /\ None \notin Tasks /\ Idle # None /\ IsFiniteSet(Tasks)
  /\ Scale \in [Tasks -> Nat \ {0}]
  /\ {U64, MaxRan, MaxLead, NrLatency} \subseteq Nat \ {0}
  /\ U64 % 2 = 0                   \* it stands for 2^64
  /\ {Thresh, Gran} \subseteq Nat
  /\ {NextBuddy, LastBuddy, CopiesOnRq} \subseteq BOOLEAN
  /\ Sleepers \subseteq Tasks

VARIABLES rq,           \* the run queue and the entities: see Init
          curr,         \* rq->curr
          need_resched, \* TIF_NEED_RESCHED of rq->curr
          state         \* state[t]: task state, "none" before fork

vars == <<rq, curr, need_resched, state>>

\* The state sched_init leaves, once the idle task is rq->idle and rq->curr:
\* pick_next_task relies on that, and no code of the repository sets it.
Init ==
  /\ rq = [timeline |-> << >>,      \* cfs.tasks_timeline, in order
           leftmost |-> None,       \* cfs.rb_leftmost
           curr |-> None,           \* cfs.curr
           min_vruntime |-> 0,      \* cfs.min_vruntime
           next |-> None, last |-> None, skip |-> None,
           nr |-> 0,                \* cfs.nr_running
           h_nr |-> 0,              \* cfs.h_nr_running
           nr_running |-> 0,        \* rq->nr_running
           vruntime |-> [t \in Tasks |-> 0],
           on_rq |-> [t \in Tasks |-> FALSE],
           ran |-> 0]               \* now - cfs.curr->exec_start
  /\ curr = Idle
  /\ need_resched = FALSE
  /\ state = [t \in Tasks |-> "none"]

-------------------------------------------------------------------------------
(* Virtual time *)

\* (s64)(a - b) < 0
Before(a, b) == (a - b) % U64 >= U64 \div 2

max_vruntime(a, b) == IF Before(b, a) THEN a ELSE b
min_vruntime(a, b) == IF Before(b, a) THEN b ELSE a

\* The s64 difference between t's vruntime and min_vruntime.
entity_key(r, t) ==
  LET d == (r.vruntime[t] - r.min_vruntime) % U64
  IN  IF d >= U64 \div 2 THEN d - U64 ELSE d

\* The smaller of the running and the leftmost vruntime, or the one there is.
Earliest(r) ==
  LET running == r.curr # None /\ r.on_rq[r.curr]
      left == r.leftmost # None
  IN  CASE running /\ left -> min_vruntime(r.vruntime[r.curr], r.vruntime[r.leftmost])
        [] running /\ ~ left -> r.vruntime[r.curr]
        [] ~ running /\ left -> r.vruntime[r.leftmost]
        [] OTHER -> r.min_vruntime

\* Mutant: the old minimum is overwritten.
update_min_vruntime_Overwrites(r) == [r EXCEPT !.min_vruntime = Earliest(r)]

\* min_vruntime follows the earliest vruntime, unless it is already past it.
update_min_vruntime(r) == [r EXCEPT !.min_vruntime = max_vruntime(@, Earliest(r))]

\* Mutant: the current task is not charged.
update_curr_Free(r) ==
  IF r.curr = None \/ r.ran = 0 THEN r
  ELSE update_min_vruntime([r EXCEPT !.ran = 0])

\* The time since the last call is charged, scaled by weight, to the current
\* entity.
update_curr(r) ==
  IF r.curr = None \/ r.ran = 0 THEN r
  ELSE update_min_vruntime([r EXCEPT !.ran = 0,
                              !.vruntime[r.curr] = (@ + r.ran * Scale[r.curr]) % U64])

\* wakeup_preempt_entity(a, b) = 1: a is behind b by more than the granularity;
\* < 1 otherwise.
PreemptedBy(r, a, b) ==
  LET diff == (r.vruntime[a] - r.vruntime[b]) % U64
  IN  diff < U64 \div 2 /\ diff > Gran

-------------------------------------------------------------------------------
(* The timeline *)

\* Mutant: equal keys go to the left and the cached leftmost stays.
enqueue_timeline_StaleLeft(r, t) ==
  LET after == {i \in DOMAIN r.timeline : entity_key(r, r.timeline[i]) < entity_key(r, t)}
      pos == Cardinality(after) + 1
  IN  [r EXCEPT !.timeline = InsertAt(@, pos, t),
                !.leftmost = IF r.timeline = << >> THEN t ELSE @]

\* __enqueue_entity: t goes behind every entity it is not before, and becomes
\* the cached leftmost if it is before all.
enqueue_timeline(r, t) ==
  LET after == {i \in DOMAIN r.timeline : entity_key(r, t) >= entity_key(r, r.timeline[i])}
      pos == Cardinality(after) + 1
  IN  [r EXCEPT !.timeline = InsertAt(@, pos, t),
                !.leftmost = IF pos = 1 THEN t ELSE @]

\* Where the node of t is in the traversal.
Position(r, t) == CHOOSE i \in DOMAIN r.timeline : r.timeline[i] = t

\* rb_next
TreeNext(r, t) ==
  LET i == Position(r, t)
  IN  IF i = Len(r.timeline) THEN None ELSE r.timeline[i + 1]

\* __dequeue_entity
dequeue_timeline(r, t) ==
  [r EXCEPT !.leftmost = IF @ = t THEN TreeNext(r, t) ELSE @,
            !.timeline = RemoveAt(@, Position(r, t))]

clear_buddies(r, t) ==
  [r EXCEPT !.next = IF @ = t THEN None ELSE @,
            !.last = IF @ = t THEN None ELSE @,
            !.skip = IF @ = t THEN None ELSE @]

-------------------------------------------------------------------------------
(* Entering and leaving the run queue *)

\* A task that slept resumes Thresh before min_vruntime, unless its own
\* vruntime is later.
place_entity(r, t) ==
  [r EXCEPT !.vruntime[t] = max_vruntime(@, (r.min_vruntime - Thresh) % U64)]

\* A woken task is placed near min_vruntime; any other one carries a vruntime
\* relative to it.  The current entity is not in the timeline.
enqueue_entity(r, t, wakeup) ==
  LET r1 == IF wakeup THEN r
            ELSE [r EXCEPT !.vruntime[t] = (@ + r.min_vruntime) % U64]
      r2 == [update_curr(r1) EXCEPT !.nr = @ + 1]
      r3 == IF wakeup THEN place_entity(r2, t) ELSE r2
      r4 == IF t # r3.curr THEN enqueue_timeline(r3, t) ELSE r3
  IN  [r4 EXCEPT !.on_rq[t] = TRUE]

\* Mutant: a sleeping task stays a buddy.
dequeue_entity_KeepsBuddies(r, t, sleep) ==
  LET r1 == update_curr(r)
      r2 == IF t # r1.curr THEN dequeue_timeline(r1, t) ELSE r1
      r3 == [r2 EXCEPT !.on_rq[t] = FALSE, !.nr = @ - 1]
      r4 == IF sleep THEN r3 ELSE [r3 EXCEPT !.vruntime[t] = (@ - r3.min_vruntime) % U64]
  IN  update_min_vruntime(r4)

dequeue_entity(r, t, sleep) ==
  LET r1 == clear_buddies(update_curr(r), t)
      r2 == IF t # r1.curr THEN dequeue_timeline(r1, t) ELSE r1
      r3 == [r2 EXCEPT !.on_rq[t] = FALSE, !.nr = @ - 1]
      r4 == IF sleep THEN r3 ELSE [r3 EXCEPT !.vruntime[t] = (@ - r3.min_vruntime) % U64]
  IN  update_min_vruntime(r4)

\* An entity that is on the queue already is only counted again.
enqueue_task_fair(r, t, wakeup) ==
  LET r1 == IF r.on_rq[t] THEN r ELSE enqueue_entity(r, t, wakeup)
  IN  [r1 EXCEPT !.h_nr = @ + 1, !.nr_running = @ + 1]

\* Mutant: rq->nr_running is not lowered.
dequeue_task_fair_NrKept(r, t, sleep) ==
  [dequeue_entity(r, t, sleep) EXCEPT !.h_nr = @ - 1]

dequeue_task_fair(r, t, sleep) ==
  [dequeue_entity(r, t, sleep) EXCEPT !.h_nr = @ - 1, !.nr_running = @ - 1]

-------------------------------------------------------------------------------
(* Picking the next task *)

\* Mutant: the previous task does not go back to the timeline.
put_prev_entity_Lost(r, t) ==
  LET r1 == IF r.on_rq[t] THEN update_curr(r) ELSE r IN [r1 EXCEPT !.curr = None]

\* Mutant: cfs.curr is not reset.
put_prev_entity_KeepsCurr(r, t) ==
  IF r.on_rq[t] THEN enqueue_timeline(update_curr(r), t) ELSE r

put_prev_entity(r, t) ==
  LET r1 == IF r.on_rq[t] THEN enqueue_timeline(update_curr(r), t) ELSE r
  IN  [r1 EXCEPT !.curr = None]

set_next_entity(r, t) ==
  [(IF r.on_rq[t] THEN dequeue_timeline(r, t) ELSE r) EXCEPT !.curr = t, !.ran = 0]

\* The leftmost entity, or the one after it if the leftmost is to be skipped,
\* or a buddy, as long as fairness to the leftmost allows it.
pick_next_entity(r) ==
  LET left == r.leftmost
      second == TreeNext(r, left)
      fair(t) == t # None /\ ~ PreemptedBy(r, t, left)
  IN  IF left = None THEN None
      ELSE IF fair(r.next) THEN r.next
      ELSE IF fair(r.last) THEN r.last
      ELSE IF r.skip = left /\ fair(second) THEN second
      ELSE left

Picked(r, t) == [rq |-> r, task |-> t]

\* The previous task runs on while it is not behind the leftmost one.
pick_next_task_fair(r, prev) ==
  IF r.nr = 0 THEN Picked(r, None)
  ELSE
    LET r1 == IF prev = Idle THEN r ELSE update_curr(r)
        stays == /\ prev # Idle /\ r1.on_rq[prev] /\ r1.leftmost # None
                 /\ entity_key(r1, prev) <= entity_key(r1, r1.leftmost)
        r2 == IF prev = Idle THEN r1 ELSE put_prev_entity(r1, prev)
        t == pick_next_entity(r2)
    IN  IF stays THEN Picked(r1, prev)
        ELSE IF t = None THEN Picked(r2, None)
        ELSE Picked(set_next_entity(clear_buddies(r2, t), t), t)

\* The idle class (external) picks the idle task.  It is taken to put the
\* previous task if pick_next_task_fair has not: where the fair class gives up
\* at once, because no task is queued, only this resets cfs.curr.
pick_next_task_idle(r, prev) ==
  Picked(IF prev # Idle /\ r.curr = prev THEN put_prev_entity(r, prev) ELSE r, Idle)

pick_next_task(r, prev) ==
  LET p == pick_next_task_fair(r, prev)
  IN  IF p.task # None THEN p ELSE pick_next_task_idle(p.rq, prev)

schedule ==
  LET p == pick_next_task(rq, curr)
  IN  /\ rq' = p.rq
      /\ curr' = p.task
      /\ need_resched' = FALSE
      /\ UNCHANGED state

-------------------------------------------------------------------------------
(* Waking and stopping tasks *)

\* check_preempt_wakeup(t) on run queue r, with t just queued: the new run
\* queue and the new need_resched.  A fair task preempts the idle task.
check_preempt_curr(r, t, fork) ==
  LET scale == r.nr >= NrLatency
      marked == NextBuddy /\ scale /\ ~ fork
      r1 == IF marked THEN [r EXCEPT !.next = t] ELSE r
      r2 == update_curr(r1)
      preempts == PreemptedBy(r2, curr, t)
      r3 == IF preempts /\ ~ marked THEN [r2 EXCEPT !.next = t] ELSE r2
      r4 == IF preempts /\ r3.on_rq[curr] /\ LastBuddy /\ scale
            THEN [r3 EXCEPT !.last = curr] ELSE r3
  IN  IF curr = Idle THEN [rq |-> r, resched |-> TRUE]
      ELSE IF curr = t THEN [rq |-> r, resched |-> need_resched]
      ELSE IF need_resched THEN [rq |-> r1, resched |-> TRUE]
      ELSE [rq |-> r4, resched |-> preempts]

Wake(r, t, fork) ==
  LET c == check_preempt_curr(r, t, fork)
  IN  rq' = c.rq /\ need_resched' = c.resched /\ UNCHANGED curr

\* sched_fork: the entity of a task fresh from alloc_task_struct is off the
\* queue; one that dup_task_struct copied has its parent's on_rq.
sched_fork(t) ==
  /\ state[t] = "none"
  /\ state' = [state EXCEPT ![t] = "new"]
  /\ rq' = [rq EXCEPT !.vruntime[t] = 0,
                      !.on_rq[t] = CopiesOnRq /\ curr # Idle /\ rq.on_rq[curr]]
  /\ UNCHANGED <<curr, need_resched>>

wake_up_new_task(t) ==
  /\ state[t] = "new"
  /\ state' = [state EXCEPT ![t] = "running"]
  /\ Wake(enqueue_task_fair(rq, t, FALSE), t, TRUE)

\* set_current_state(TASK_INTERRUPTIBLE): the task is still on the queue.
PrepareToSleep(t) ==
  /\ t = curr /\ t \in Sleepers /\ state[t] = "running"
  /\ state' = [state EXCEPT ![t] = "sleeping"]
  /\ UNCHANGED <<rq, curr, need_resched>>

\* deactivate_task with DEQUEUE_SLEEP of a task that prepared to sleep, or
\* without it of any queued task (to change its parameters, say).
deactivate_task(t, sleep) ==
  /\ t \in Sleepers /\ rq.on_rq[t]
  /\ state[t] = IF sleep THEN "sleeping" ELSE "running"
  /\ rq' = dequeue_task_fair(rq, t, sleep)
  /\ state' = [state EXCEPT ![t] = IF sleep THEN @ ELSE "detached"]
  /\ UNCHANGED <<curr, need_resched>>

\* activate_task of a task taken off without DEQUEUE_SLEEP.  The class it calls
\* is the fair one.
activate_task(t) ==
  /\ state[t] = "detached"
  /\ rq' = enqueue_task_fair(rq, t, FALSE)
  /\ state' = [state EXCEPT ![t] = "running"]
  /\ UNCHANGED <<curr, need_resched>>

\* A sleeper still on the queue (ttwu_remote) only changes state.
wake_up_process(t) ==
  /\ state[t] = "sleeping"
  /\ state' = [state EXCEPT ![t] = "running"]
  /\ Wake(IF rq.on_rq[t] THEN rq ELSE enqueue_task_fair(rq, t, TRUE), t, FALSE)

\* The yielding task becomes the one to skip, unless it is alone.
yield_task_fair(r) ==
  IF r.nr_running = 1 THEN r
  ELSE [update_curr(clear_buddies(r, curr)) EXCEPT !.skip = curr]

\* yield and sys_sched_yield, which calls schedule with interrupts still off.
\* The task whose state is set and whose class is asked is rq->curr; the code
\* says current.
yield ==
  LET p == pick_next_task(yield_task_fair(rq), curr)
  IN  /\ curr # Idle /\ rq.on_rq[curr]
      /\ state' = [state EXCEPT ![curr] = "running"]
      /\ rq' = p.rq
      /\ curr' = p.task
      /\ need_resched' = FALSE

\* The clock, part of the environment, advances while a fair task runs: what
\* update_rq_clock adds to clock_task when no interrupt or steal time is to be
\* taken off and the clock does not go back.  Bound: a task does not run on
\* when it is MaxLead ahead of min_vruntime or of another task, so that
\* vruntimes stay within half the range of a u64 of each other (2^63 ns: 292
\* years).
Tick ==
  LET absolute(t) == IF state[t] = "detached" THEN rq.vruntime[t] + rq.min_vruntime
                     ELSE rq.vruntime[t]
      started == {t \in Tasks : state[t] \notin {"none", "new"}}
      near(v) == LET lead == (absolute(curr) - v) % U64
                 IN  lead <= MaxLead \/ lead >= U64 \div 2
  IN  /\ rq.curr # None /\ rq.ran < MaxRan
      /\ near(rq.min_vruntime) /\ \A t \in started : near(absolute(t))
      /\ rq' = [rq EXCEPT !.ran = @ + 1]
      /\ UNCHANGED <<curr, need_resched, state>>

Next ==
  \/ schedule \/ yield \/ Tick
  \/ \E t \in Tasks :
       \/ sched_fork(t) \/ wake_up_new_task(t)
       \/ PrepareToSleep(t) \/ wake_up_process(t) \/ activate_task(t)
       \/ \E sleep \in BOOLEAN : deactivate_task(t, sleep)

Spec == Init /\ [][Next]_vars

\* Time passes; nothing else is assumed.
FairSpec == Spec /\ WF_vars(Tick)

-------------------------------------------------------------------------------
(* Properties *)

Queued == {t \in Tasks : rq.on_rq[t]}

\* Every task on the queue is either the current entity or in the timeline,
\* once, whatever the order of sleeps, wake-ups and switches: a wake-up that
\* comes before the sleeper has switched away neither loses nor doubles it.
TimelineComplete ==
  /\ IsInjective(rq.timeline)
  /\ ToSet(rq.timeline) = Queued \ {rq.curr}

\* The cached leftmost pointer is the timeline's first entity.
LeftmostCached ==
  rq.leftmost = IF rq.timeline = << >> THEN None ELSE Head(rq.timeline)

\* What the current task has run since it was last charged, in its own time.
Uncharged(t) == IF t = rq.curr THEN rq.ran * Scale[t] ELSE 0

\* The vruntimes of queued tasks, charged or not, are within a quarter of the
\* range of a u64 of min_vruntime.
InWindow ==
  \A t \in Queued : /\ -U64 < 4 * entity_key(rq, t)
                    /\ 4 * (entity_key(rq, t) + Uncharged(t)) < U64

\* The timeline is in vruntime order across the wrap of the u64, and the
\* cached leftmost pointer is its first entity.
TimelineOrdered ==
  /\ \A i, j \in DOMAIN rq.timeline :
       i < j => ~ Before(rq.vruntime[rq.timeline[j]], rq.vruntime[rq.timeline[i]])
  /\ LeftmostCached

\* The three counters agree with the queue: schedule() compares two of them to
\* take its fast path, and the fair class gives up when the third is zero.
CountersExact ==
  rq.nr = Cardinality(Queued) /\ rq.h_nr = rq.nr /\ rq.nr_running = rq.nr

\* rq->nr_running is the number of tasks the run queue can run: those in the
\* timeline and the current one, if it has not left the queue.  (A copy of a
\* queued task made by dup_task_struct is counted and never inserted.)
NrRunningIsRunnable ==
  rq.nr_running =
    Cardinality(ToSet(rq.timeline) \cup {t \in {rq.curr} \ {None} : rq.on_rq[t]})

\* The class's current entity is the running task's, and none when idle runs.
CurrentAgrees == rq.curr = IF curr = Idle THEN None ELSE curr

\* A buddy is never a task that left the queue, so pick_next_entity cannot
\* choose a sleeping task.
BuddiesQueued == \A t \in {rq.next, rq.last, rq.skip} \ {None} : rq.on_rq[t]

\* min_vruntime never goes back.
MinVruntimeMonotone ==
  [][~ Before(rq'.min_vruntime, rq.min_vruntime)]_vars

\* schedule is called again and again, by itself or by tasks that yield.  A call
\* that would change nothing is no step, so it may as well have been made.
Reschedules ==
  LET p == pick_next_task(rq, curr) IN <<p.rq, p.task, FALSE>> # <<rq, curr, need_resched>>

ScheduleIsCalled == []<> ~ Reschedules \/ []<><<schedule \/ yield>>_vars

\* As long as schedule is called, no task on the queue waits for ever, though
\* yields, buddies and wake-ups let others pass it.  (That it is called is up to
\* the tasks: no interrupt path calls it.)
NoStarvation ==
  ScheduleIsCalled => \A t \in Tasks : rq.on_rq[t] ~> (curr = t \/ ~ rq.on_rq[t])
================================================================================
