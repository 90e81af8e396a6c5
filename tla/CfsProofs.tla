------------------------------- MODULE CfsProofs -------------------------------
(***************************************************************************)
(* Proofs about the fair class's run queue, for any number of tasks, any   *)
(* weights, any settings of the scheduler's features and any history of    *)
(* forks, sleeps, wake-ups, yields and switches.                           *)
(*                                                                         *)
(* Each function of the code gets a lemma that says what it does to a run  *)
(* queue; the entry points are compositions of these.  Throughout, a new   *)
(* task's entity is off the queue (CopiesOnRq is FALSE): with entities     *)
(* that dup_task_struct copies the invariants fail, as a run shows.        *)
(***************************************************************************)
EXTENDS Cfs, DataLemmas

Ticks  == 0 .. U64 - 1
Maybe  == Tasks \cup {None}
States == {"none", "new", "running", "sleeping", "detached"}

RunQueue ==
  [timeline : Seq(Tasks), leftmost : Maybe, curr : Maybe, min_vruntime : Ticks,
   next : Maybe, last : Maybe, skip : Maybe, nr : Int, h_nr : Int, nr_running : Int,
   vruntime : [Tasks -> Ticks], on_rq : [Tasks -> BOOLEAN], ran : Nat]

QueuedIn(r) == {t \in Tasks : r.on_rq[t]}

\* The timeline holds the tasks of S, each once, and its first is the leftmost.
Holds(r, S) ==
  /\ IsInjective(r.timeline)
  /\ ToSet(r.timeline) = S
  /\ r.leftmost = IF r.timeline = << >> THEN None ELSE Head(r.timeline)

Counted(r) ==
  r.nr = Cardinality(QueuedIn(r)) /\ r.h_nr = r.nr /\ r.nr_running = r.nr

Buddied(r) == \A t \in {r.next, r.last, r.skip} \ {None} : r.on_rq[t]

\* What holds of the run queue between two entry points.
QueueInv(r) ==
  /\ r \in RunQueue
  /\ Holds(r, QueuedIn(r) \ {r.curr})
  /\ Counted(r)
  /\ Buddied(r)

\* A task that is new, or taken off the queue to be put back, is not on it.
OffQueue == \A t \in Tasks : state[t] \in {"none", "new", "detached"} => ~ rq.on_rq[t]

Inv ==
  /\ QueueInv(rq)
  /\ curr \in Tasks \cup {Idle} /\ CurrentAgrees
  /\ need_resched \in BOOLEAN
  /\ state \in [Tasks -> States] /\ OffQueue

-------------------------------------------------------------------------------
(* The timeline *)

SameLine(r, q)    == q.timeline = r.timeline /\ q.leftmost = r.leftmost
SameTimes(r, q)   == q.min_vruntime = r.min_vruntime /\ q.vruntime = r.vruntime /\ q.ran = r.ran
SameCounts(r, q)  == q.nr = r.nr /\ q.h_nr = r.h_nr /\ q.nr_running = r.nr_running
SameBuddies(r, q) == q.next = r.next /\ q.last = r.last /\ q.skip = r.skip

\* Only the timeline changes.
OnlyLine(r, q) ==
  /\ q \in RunQueue
  /\ q.curr = r.curr /\ q.on_rq = r.on_rq
  /\ SameTimes(r, q) /\ SameCounts(r, q) /\ SameBuddies(r, q)

\* t put at some place of the timeline.
Inserted(r, t, pos) == [r EXCEPT !.timeline = InsertAt(@, pos, t),
                                 !.leftmost = IF pos = 1 THEN t ELSE @]

\* What the timeline then has at each place.
LEMMA InsertedLine ==
  ASSUME NEW r \in RunQueue, NEW t \in Tasks, NEW pos \in 1 .. Len(r.timeline) + 1
  PROVE  /\ Inserted(r, t, pos).timeline \in Seq(Tasks)
         /\ Len(Inserted(r, t, pos).timeline) = Len(r.timeline) + 1
         /\ \A j \in 1 .. Len(r.timeline) + 1 :
              Inserted(r, t, pos).timeline[j] =
                IF j < pos THEN r.timeline[j] ELSE IF j = pos THEN t ELSE r.timeline[j - 1]
<1> DEFINE s == r.timeline
           z == InsertAt(s, pos, t)
<1>1. s \in Seq(Tasks) /\ pos \in 1 .. Len(s) + 1
  BY DEF RunQueue
<1> HIDE DEF s
<1>2. /\ z \in Seq(Tasks) /\ Len(z) = Len(s) + 1
      /\ \A j \in 1 .. Len(s) + 1 : z[j] = IF j < pos THEN s[j] ELSE IF j = pos THEN t ELSE s[j - 1]
  BY <1>1, InsertAtFacts
<1>3. Inserted(r, t, pos).timeline = z
  BY DEF RunQueue, Inserted, s
<1> HIDE DEF z
<1> QED
  BY <1>2, <1>3 DEF s

\* Whatever the place, the timeline holds t beside what it held.
LEMMA InsertHolds ==
  ASSUME NEW r \in RunQueue, NEW S, Holds(r, S), NEW t \in Tasks, t \notin S,
         NEW pos \in 1 .. Len(r.timeline) + 1
  PROVE  /\ OnlyLine(r, Inserted(r, t, pos))
         /\ Holds(Inserted(r, t, pos), S \cup {t})
<1> DEFINE q == Inserted(r, t, pos)
           s == r.timeline
           z == InsertAt(s, pos, t)
<1>1. s \in Seq(Tasks) /\ Len(s) \in Nat /\ DOMAIN s = 1 .. Len(s) /\ r.leftmost \in Maybe
  BY DEF RunQueue
<1>2. /\ z \in Seq(Tasks) /\ Len(z) = Len(s) + 1
      /\ \A j \in 1 .. Len(s) + 1 : z[j] = IF j < pos THEN s[j] ELSE IF j = pos THEN t ELSE s[j - 1]
  <2>1. s \in Seq(Tasks) /\ pos \in 1 .. Len(s) + 1
    BY <1>1
  <2> HIDE DEF s
  <2> QED
    BY <2>1, InsertAtFacts
<1>3. /\ q.timeline = z /\ q.leftmost = IF pos = 1 THEN t ELSE r.leftmost
  BY DEF RunQueue, Inserted
<1>4. OnlyLine(r, q)
  <2>1. q \in RunQueue
    BY <1>1, <1>2 DEF RunQueue, Inserted, Maybe
  <2> QED
    BY <2>1 DEF OnlyLine, RunQueue, Inserted, SameTimes, SameCounts, SameBuddies
<1>5. /\ \A a, b \in 1 .. Len(s) : s[a] = s[b] => a = b
      /\ S = {s[a] : a \in 1 .. Len(s)}
      /\ r.leftmost = IF s = << >> THEN None ELSE Head(s)
      /\ pos \in 1 .. Len(s) + 1
  BY <1>1 DEF Holds, IsInjective, ToSet
<1> HIDE DEF q, s, z
<1>6. DOMAIN z = 1 .. Len(s) + 1
  BY <1>1, <1>2
<1>7. \A a \in 1 .. Len(s) : s[a] # t
  BY <1>5
<1>8. ASSUME NEW a \in 1 .. Len(s) + 1, NEW b \in 1 .. Len(s) + 1, z[a] = z[b]
      PROVE  a = b
  <2> DEFINE old(j) == IF j < pos THEN j ELSE j - 1
  <2>1. \A j \in 1 .. Len(s) + 1 : j # pos => old(j) \in 1 .. Len(s) /\ z[j] = s[old(j)]
    BY <1>1, <1>2, <1>5
  <2>2. z[pos] = t
    BY <1>2, <1>5
  <2>3. a = pos <=> b = pos
    BY <1>7, <1>8, <2>1, <2>2
  <2>4. CASE a # pos /\ b # pos
    <3>1. old(a) = old(b)
      BY <1>5, <1>8, <2>1, <2>4
    <3> QED
      BY <1>1, <1>5, <2>4, <3>1
  <2> QED
    BY <2>3, <2>4
<1>9. ToSet(z) = S \cup {t}
  <2>1. ASSUME NEW x \in S
        PROVE  x \in ToSet(z)
    <3>1. PICK a \in 1 .. Len(s) : s[a] = x
      BY <1>5
    <3>2. CASE a < pos
      <4>1. a \in 1 .. Len(s) + 1 /\ z[a] = x
        BY <1>1, <1>2, <3>1, <3>2
      <4> QED
        BY <1>6, <4>1 DEF ToSet
    <3>3. CASE a >= pos
      <4>1. a + 1 \in 1 .. Len(s) + 1 /\ z[a + 1] = s[(a + 1) - 1] /\ (a + 1) - 1 = a
        BY <1>1, <1>2, <3>3
      <4> QED
        BY <1>6, <3>1, <4>1 DEF ToSet
    <3> QED
      BY <1>1, <3>2, <3>3
  <2>2. t \in ToSet(z)
    <3>1. pos \in 1 .. Len(s) + 1 /\ z[pos] = t
      BY <1>1, <1>2 DEF s
    <3> QED
      BY <1>6, <3>1 DEF ToSet
  <2>3. ASSUME NEW a \in 1 .. Len(s) + 1
        PROVE  z[a] \in S \cup {t}
    <3>1. CASE a < pos
      <4>1. a \in 1 .. Len(s) /\ z[a] = s[a]
        BY <1>1, <1>2, <1>5, <3>1
      <4> QED
        BY <1>5, <4>1
    <3>2. CASE a = pos
      BY <1>2, <3>2
    <3>3. CASE a > pos
      <4>1. a - 1 \in 1 .. Len(s) /\ z[a] = s[a - 1]
        BY <1>1, <1>2, <3>3 DEF s
      <4> QED
        BY <1>5, <4>1
    <3> QED
      BY <1>1, <3>1, <3>2, <3>3
  <2> QED
    BY <1>6, <2>1, <2>2, <2>3 DEF ToSet
<1>10. z # << >> /\ Head(z) = IF pos = 1 THEN t ELSE r.leftmost
  <2>1. 1 \in 1 .. Len(s) + 1 /\ Head(z) = z[1] /\ z # << >>
    BY <1>1, <1>2
  <2>2. CASE pos = 1
    BY <1>2, <2>1, <2>2
  <2>3. CASE pos # 1
    <3>1. 1 < pos /\ s # << >> /\ Head(s) = s[1]
      BY <1>1, <2>3 DEF s
    <3> QED
      BY <1>2, <1>5, <2>1, <2>3, <3>1
  <2> QED
    BY <2>2, <2>3
<1>11. Holds(q, S \cup {t})
  BY <1>3, <1>6, <1>8, <1>9, <1>10 DEF Holds, IsInjective
<1> QED
  BY <1>4, <1>11 DEF q

\* __enqueue_entity puts the entity at a place of the timeline.
LEMMA EnqueuePlace ==
  ASSUME NEW r \in RunQueue, NEW t \in Tasks
  PROVE  LET after == {i \in DOMAIN r.timeline : entity_key(r, t) >= entity_key(r, r.timeline[i])}
             pos == Cardinality(after) + 1
         IN  /\ IsFiniteSet(after)
             /\ pos \in 1 .. Len(r.timeline) + 1
             /\ enqueue_timeline(r, t) = Inserted(r, t, pos)
<1> DEFINE n == Len(r.timeline)
           after == {i \in DOMAIN r.timeline : entity_key(r, t) >= entity_key(r, r.timeline[i])}
<1>1. n \in Nat /\ DOMAIN r.timeline = 1 .. n
  BY DEF RunQueue
<1>2. IsFiniteSet(1 .. n) /\ Cardinality(1 .. n) = n
  BY <1>1, FS_Interval
<1>3. after \subseteq 1 .. n
  BY <1>1
<1>4. enqueue_timeline(r, t) = Inserted(r, t, Cardinality(after) + 1)
  BY DEF enqueue_timeline, Inserted
<1> HIDE DEF n, after
<1>5. IsFiniteSet(after) /\ Cardinality(after) <= n /\ Cardinality(after) \in Nat
  BY <1>2, <1>3, FS_Subset, FS_CardinalityType
<1> QED
  BY <1>1, <1>4, <1>5 DEF n, after

\* __enqueue_entity of a task that is not in the timeline.
LEMMA Enqueue ==
  ASSUME NEW r \in RunQueue, NEW S, Holds(r, S), NEW t \in Tasks, t \notin S
  PROVE  OnlyLine(r, enqueue_timeline(r, t)) /\ Holds(enqueue_timeline(r, t), S \cup {t})
<1>1. PICK pos \in 1 .. Len(r.timeline) + 1 : enqueue_timeline(r, t) = Inserted(r, t, pos)
  BY EnqueuePlace
<1> QED
  BY <1>1, InsertHolds

\* A task of the timeline has one place there.
LEMMA PositionIs ==
  ASSUME NEW r \in RunQueue, NEW S, Holds(r, S), NEW t \in S
  PROVE  /\ t \in Tasks
         /\ Position(r, t) \in 1 .. Len(r.timeline)
         /\ r.timeline[Position(r, t)] = t
         /\ r.leftmost # None /\ r.leftmost = r.timeline[1]
         /\ r.leftmost = t <=> Position(r, t) = 1
<1> DEFINE s == r.timeline
<1>1. s \in Seq(Tasks) /\ Len(s) \in Nat /\ DOMAIN s = 1 .. Len(s)
      /\ \A j \in 1 .. Len(s) : s[j] \in Tasks
  BY DEF RunQueue
<1>2. PICK i \in DOMAIN s : s[i] = t
  BY DEF Holds, ToSet
<1>3. Position(r, t) \in DOMAIN s /\ s[Position(r, t)] = t
  BY <1>2 DEF Position
<1>4. s # << >> /\ Head(s) = s[1] /\ 1 \in 1 .. Len(s)
  BY <1>1, <1>2
<1>5. r.leftmost = s[1] /\ s[1] \in Tasks
  BY <1>1, <1>4 DEF Holds
<1>6. r.leftmost = t <=> Position(r, t) = 1
  BY <1>1, <1>3, <1>4, <1>5 DEF Holds, IsInjective
<1> QED
  BY <1>1, <1>3, <1>5, <1>6, CfsAssumption

\* rb_next of an entity that is not the last one.
LEMMA TreeNextIs ==
  ASSUME NEW r \in RunQueue, NEW S, Holds(r, S), NEW t \in S
  PROVE  /\ TreeNext(r, t) \in S \cup {None}
         /\ TreeNext(r, t) = IF Position(r, t) = Len(r.timeline) THEN None
                             ELSE r.timeline[Position(r, t) + 1]
<1> DEFINE i == Position(r, t)
           n == Len(r.timeline)
<1>1. i \in 1 .. n /\ n \in Nat /\ DOMAIN r.timeline = 1 .. n
  BY PositionIs DEF RunQueue
<1>2. TreeNext(r, t) = IF i = n THEN None ELSE r.timeline[i + 1]
  BY DEF TreeNext
<1> HIDE DEF i
<1>3. i # n => i + 1 \in DOMAIN r.timeline
  BY <1>1
<1>4. i # n => r.timeline[i + 1] \in S
  BY <1>3 DEF Holds, ToSet
<1> QED
  BY <1>2, <1>4 DEF i

\* __dequeue_entity of a task of the timeline.
LEMMA Dequeue ==
  ASSUME NEW r \in RunQueue, NEW S, Holds(r, S), NEW t \in S
  PROVE  /\ OnlyLine(r, dequeue_timeline(r, t))
         /\ Holds(dequeue_timeline(r, t), S \ {t})
         /\ dequeue_timeline(r, t).timeline = RemoveAt(r.timeline, Position(r, t))
<1> DEFINE q == dequeue_timeline(r, t)
           s == r.timeline
           i == Position(r, t)
           n == Len(s)
           z == RemoveAt(s, i)
<1>1. s \in Seq(Tasks) /\ n \in Nat /\ DOMAIN s = 1 .. n
      /\ \A j \in 1 .. n : s[j] \in Tasks
  BY DEF RunQueue
<1>2. i \in 1 .. n /\ s[i] = t /\ t \in Tasks /\ r.leftmost = s[1] /\ (r.leftmost = t <=> i = 1)
  BY PositionIs
<1>3. /\ z \in Seq(Tasks) /\ Len(z) = n - 1
      /\ \A j \in 1 .. n - 1 : z[j] = IF j < i THEN s[j] ELSE s[j + 1]
  BY <1>1, <1>2, RemoveAtFacts
<1>4. TreeNext(r, t) \in S \cup {None} /\ TreeNext(r, t) = IF i = n THEN None ELSE s[i + 1]
  BY TreeNextIs
<1>5. S \subseteq Tasks
  BY <1>1 DEF Holds, ToSet
<1>6. r.leftmost \in Maybe
  BY DEF RunQueue
<1>7. q.timeline = z /\ q.leftmost = IF r.leftmost = t THEN TreeNext(r, t) ELSE r.leftmost
  BY DEF RunQueue, dequeue_timeline
<1>8. OnlyLine(r, q)
  <2>1. (IF r.leftmost = t THEN TreeNext(r, t) ELSE r.leftmost) \in Maybe
    BY <1>4, <1>5, <1>6 DEF Maybe
  <2>2. q \in RunQueue
    BY <1>3, <2>1 DEF RunQueue, dequeue_timeline
  <2> QED
    BY <2>2 DEF OnlyLine, RunQueue, dequeue_timeline, SameTimes, SameCounts, SameBuddies
<1>9. /\ \A a, b \in 1 .. n : s[a] = s[b] => a = b
      /\ S = {s[a] : a \in 1 .. n}
  BY <1>1 DEF Holds, IsInjective, ToSet
<1> HIDE DEF q, s, i, n, z
<1>10. DOMAIN z = 1 .. n - 1
  BY <1>1, <1>3
<1> DEFINE old(j) == IF j < i THEN j ELSE j + 1
<1>11. \A j \in 1 .. n - 1 : old(j) \in 1 .. n /\ old(j) # i /\ z[j] = s[old(j)]
  BY <1>1, <1>2, <1>3
<1>12. \A a, b \in 1 .. n - 1 : z[a] = z[b] => a = b
  <2>1. \A a, b \in 1 .. n - 1 : old(a) = old(b) => a = b
    BY <1>1, <1>2
  <2> HIDE DEF old
  <2> QED
    BY <1>9, <1>11, <2>1
<1>13. ToSet(z) = S \ {t}
  <2>1. ASSUME NEW x \in S \ {t}
        PROVE  \E j \in 1 .. n - 1 : z[j] = x
    <3>1. PICK a \in 1 .. n : s[a] = x
      BY <1>9
    <3>2. a # i
      BY <1>2, <3>1
    <3>3. CASE a < i
      <4>1. a \in 1 .. n - 1 /\ z[a] = x
        BY <1>1, <1>2, <1>3, <3>1, <3>3
      <4> QED
        BY <4>1
    <3>4. CASE a > i
      <4>1. a - 1 \in 1 .. n - 1 /\ z[a - 1] = s[(a - 1) + 1] /\ (a - 1) + 1 = a
        BY <1>1, <1>2, <1>3, <3>4
      <4> QED
        BY <3>1, <4>1
    <3> QED
      BY <1>1, <1>2, <3>2, <3>3, <3>4
  <2>2. ASSUME NEW j \in 1 .. n - 1
        PROVE  z[j] \in S \ {t}
    <3>1. s[old(j)] \in S
      BY <1>9, <1>11
    <3>2. s[old(j)] # s[i]
      BY <1>2, <1>9, <1>11
    <3> QED
      BY <1>2, <1>11, <3>1, <3>2
  <2> QED
    BY <1>10, <2>1, <2>2 DEF ToSet
<1>14. q.leftmost = IF z = << >> THEN None ELSE Head(z)
  <2>1. CASE n = 1
    <3>1. i = 1 /\ i = n /\ Len(z) = 0
      BY <1>2, <1>3, <2>1
    <3>2. z = << >>
      BY <1>3, <3>1
    <3> QED
      BY <1>2, <1>4, <1>7, <3>1, <3>2
  <2>2. CASE n # 1
    <3>1. 1 \in 1 .. n - 1 /\ z # << >> /\ Head(z) = z[1]
      BY <1>1, <1>2, <1>3, <2>2
    <3>2. CASE i = 1
      BY <1>2, <1>3, <1>4, <1>7, <2>2, <3>1, <3>2
    <3>3. CASE i # 1
      BY <1>1, <1>2, <1>3, <1>7, <3>1, <3>3
    <3> QED
      BY <3>1, <3>2, <3>3
  <2> QED
    BY <2>1, <2>2
<1>15. Holds(q, S \ {t})
  BY <1>7, <1>10, <1>12, <1>13, <1>14 DEF Holds, IsInjective
<1> QED
  BY <1>7, <1>8, <1>15 DEF q, z, s, i

-------------------------------------------------------------------------------
(* Virtual time *)

\* Only the times change, and of the vruntimes at most that of t.
OnlyTimes(r, q, t) ==
  /\ q \in RunQueue
  /\ q.curr = r.curr /\ q.on_rq = r.on_rq
  /\ SameLine(r, q) /\ SameCounts(r, q) /\ SameBuddies(r, q)
  /\ \A u \in Tasks \ {t} : q.vruntime[u] = r.vruntime[u]

\* The running task has been charged for the time it ran.
Settled(r) == r.curr = None \/ r.ran = 0

\* t's vruntime once it is charged.
ChargedTo(r, t) ==
  IF t = r.curr THEN (r.vruntime[t] + r.ran * Scale[t]) % U64 ELSE r.vruntime[t]

\* min_vruntime does not go back from r to q.
Forward(r, q) == ~ Before(q.min_vruntime, r.min_vruntime)

\* Every difference of times is a u64 again.
LEMMA Wraps == U64 \in Nat \ {0} /\ \A x \in Int : x % U64 \in Ticks
<1>1. U64 \in Nat \ {0}
  BY CfsAssumption
<1>2. \A x \in Int : x % U64 \in 0 .. U64 - 1
  BY <1>1
<1> QED
  BY <1>1, <1>2 DEF Ticks

\* No time is before itself.
LEMMA NotBefore ==
  ASSUME NEW r \in RunQueue
  PROVE  ~ Before(r.min_vruntime, r.min_vruntime)
<1>1. r.min_vruntime \in Ticks
  BY DEF RunQueue
<1>2. r.min_vruntime - r.min_vruntime = 0
  BY <1>1 DEF Ticks
<1>3. U64 \in Nat \ {0} /\ U64 % 2 = 0
  BY CfsAssumption
<1>4. 0 % U64 = 0 /\ U64 \div 2 \in Nat \ {0}
  BY <1>3
<1>5. (r.min_vruntime - r.min_vruntime) % U64 = 0
  BY <1>2, <1>4
<1>6. ~ (0 >= U64 \div 2)
  BY <1>4
<1> QED
  BY <1>5, <1>6 DEF Before

LEMMA EarliestType ==
  ASSUME NEW r \in RunQueue
  PROVE  max_vruntime(r.min_vruntime, Earliest(r)) \in Ticks
<1>1. /\ r.min_vruntime \in Ticks
      /\ r.curr # None => r.vruntime[r.curr] \in Ticks
      /\ r.leftmost # None => r.vruntime[r.leftmost] \in Ticks
  BY DEF RunQueue, Maybe
<1>2. Earliest(r) \in Ticks
  BY <1>1 DEF Earliest, min_vruntime
<1> QED
  BY <1>1, <1>2 DEF max_vruntime

LEMMA UpdateMin ==
  ASSUME NEW r \in RunQueue
  PROVE  LET q == update_min_vruntime(r)
         IN  /\ OnlyTimes(r, q, None) /\ q.vruntime = r.vruntime /\ q.ran = r.ran
             /\ q.min_vruntime \in {r.min_vruntime, Earliest(r)} /\ Forward(r, q)
<1> DEFINE m == max_vruntime(r.min_vruntime, Earliest(r))
<1>1. m \in Ticks
  BY EarliestType
<1>2. update_min_vruntime(r) = [r EXCEPT !.min_vruntime = m]
  BY DEF update_min_vruntime
<1>3. m \in {r.min_vruntime, Earliest(r)} /\ ~ Before(m, r.min_vruntime)
  BY NotBefore DEF max_vruntime
<1> HIDE DEF m
<1>4. update_min_vruntime(r).min_vruntime = m
  BY <1>2 DEF RunQueue
<1> QED
  BY <1>1, <1>2, <1>3, <1>4 DEF RunQueue, OnlyTimes, SameLine, SameCounts, SameBuddies, Forward

\* Only the current task is charged, and nothing but times changes.
LEMMA UpdateCurr ==
  ASSUME NEW r \in RunQueue
  PROVE  /\ OnlyTimes(r, update_curr(r), r.curr) /\ Settled(update_curr(r))
         /\ \A u \in Tasks : update_curr(r).vruntime[u] = ChargedTo(r, u)
         /\ Forward(r, update_curr(r))
<1>1. CASE Settled(r)
  <2>1. update_curr(r) = r
    BY <1>1 DEF update_curr, Settled
  <2>2. ASSUME NEW u \in Tasks PROVE r.vruntime[u] = ChargedTo(r, u)
    <3>1. CASE u = r.curr
      <4>1. r.ran = 0 /\ Scale[u] \in Nat /\ r.vruntime[u] \in 0 .. U64 - 1
        BY <1>1, <3>1, CfsAssumption DEF Settled, RunQueue, Ticks
      <4>2. r.vruntime[u] + r.ran * Scale[u] = r.vruntime[u]
        BY <4>1
      <4>3. r.vruntime[u] % U64 = r.vruntime[u]
        BY <4>1, Wraps
      <4> QED
        BY <3>1, <4>2, <4>3 DEF ChargedTo
    <3> QED
      BY <3>1 DEF ChargedTo
  <2> QED
    BY <1>1, <2>1, <2>2, NotBefore DEF OnlyTimes, SameLine, SameCounts, SameBuddies, Forward
<1>2. CASE ~ Settled(r)
  <2> DEFINE v == (r.vruntime[r.curr] + r.ran * Scale[r.curr]) % U64
             c == [r EXCEPT !.ran = 0, !.vruntime[r.curr] = v]
  <2>1. r.curr \in Tasks /\ r.vruntime[r.curr] \in Int /\ r.ran \in Int
    BY <1>2, Wraps DEF Settled, RunQueue, Maybe, Ticks
  <2>2. Scale[r.curr] \in Int
    BY <2>1, CfsAssumption
  <2>3. v \in Ticks
    BY <2>1, <2>2, Wraps
  <2>4. update_curr(r) = update_min_vruntime(c)
    BY <1>2 DEF update_curr, Settled
  <2> HIDE DEF v
  <2>5. [r.vruntime EXCEPT ![r.curr] = v] \in [Tasks -> Ticks]
    BY <2>1, <2>3 DEF RunQueue
  <2>6. c \in RunQueue /\ OnlyTimes(r, c, r.curr) /\ c.ran = 0
    <3>1. c \in RunQueue
      BY <2>5 DEF RunQueue
    <3> QED
      BY <3>1 DEF RunQueue, OnlyTimes, SameLine, SameCounts, SameBuddies
  <2> HIDE DEF c
  <2> DEFINE q == update_min_vruntime(c)
  <2>7. /\ OnlyTimes(c, q, None) /\ q.vruntime = c.vruntime /\ q.ran = c.ran
        /\ Forward(c, q)
    BY <2>6, UpdateMin
  <2>8. /\ c.min_vruntime = r.min_vruntime
        /\ \A u \in Tasks : c.vruntime[u] = ChargedTo(r, u)
    <3>1. c.min_vruntime = r.min_vruntime /\ c.vruntime = [r.vruntime EXCEPT ![r.curr] = v]
      BY DEF RunQueue, c
    <3> QED
      BY <2>1, <3>1 DEF RunQueue, ChargedTo, v
  <2> HIDE DEF q
  <2>9. OnlyTimes(r, q, r.curr) /\ Settled(q) /\ Forward(r, q)
        /\ \A u \in Tasks : q.vruntime[u] = ChargedTo(r, u)
    BY <2>6, <2>7, <2>8
    DEF OnlyTimes, SameLine, SameCounts, SameBuddies, Settled, Forward
  <2> QED
    BY <2>4, <2>9 DEF q
<1> QED
  BY <1>1, <1>2

\* A vruntime written by placement or by a change of origin.
LEMMA SetVruntime ==
  ASSUME NEW r \in RunQueue, NEW t \in Tasks, NEW v \in Ticks
  PROVE  LET q == [r EXCEPT !.vruntime[t] = v]
         IN  OnlyTimes(r, q, t) /\ q.min_vruntime = r.min_vruntime /\ q.ran = r.ran
<1>1. [r.vruntime EXCEPT ![t] = v] \in [Tasks -> Ticks]
  BY DEF RunQueue
<1>2. [r EXCEPT !.vruntime[t] = v] \in RunQueue
  BY <1>1 DEF RunQueue
<1> QED
  BY <1>2 DEF RunQueue, OnlyTimes, SameLine, SameCounts, SameBuddies

LEMMA Place ==
  ASSUME NEW r \in RunQueue, NEW t \in Tasks
  PROVE  LET q == place_entity(r, t)
         IN  OnlyTimes(r, q, t) /\ q.min_vruntime = r.min_vruntime /\ q.ran = r.ran
<1> DEFINE v == max_vruntime(r.vruntime[t], (r.min_vruntime - Thresh) % U64)
<1>1. r.vruntime[t] \in Ticks /\ r.min_vruntime - Thresh \in Int
  BY CfsAssumption DEF RunQueue, Ticks
<1>2. v \in Ticks
  BY <1>1, Wraps DEF max_vruntime
<1>3. place_entity(r, t) = [r EXCEPT !.vruntime[t] = v]
  BY DEF place_entity
<1> HIDE DEF v
<1> QED
  BY <1>2, <1>3, SetVruntime

\* A buddy that is cleared is no buddy any more; the others stay.
LEMMA ClearBuddies ==
  ASSUME NEW r \in RunQueue, NEW t \in Tasks
  PROVE  LET q == clear_buddies(r, t)
         IN  /\ q \in RunQueue
             /\ q.curr = r.curr /\ q.on_rq = r.on_rq
             /\ SameLine(r, q) /\ SameTimes(r, q) /\ SameCounts(r, q)
             /\ q.next = (IF r.next = t THEN None ELSE r.next)
             /\ q.last = (IF r.last = t THEN None ELSE r.last)
             /\ q.skip = (IF r.skip = t THEN None ELSE r.skip)
<1>1. clear_buddies(r, t) \in RunQueue
  BY DEF clear_buddies, RunQueue, Maybe
<1> QED
  BY <1>1 DEF clear_buddies, RunQueue, SameLine, SameTimes, SameCounts

-------------------------------------------------------------------------------
(* The order of the timeline *)

\* t's vruntime is within a quarter of the range of a u64 of min_vruntime.
Near(r, t) == 4 * entity_key(r, t) < U64 /\ -U64 < 4 * entity_key(r, t)

Sorted(r) ==
  \A i, j \in DOMAIN r.timeline :
    i < j => ~ Before(r.vruntime[r.timeline[j]], r.vruntime[r.timeline[i]])

\* A difference of two u64 values wraps at most once.
LEMMA WrapsOnce ==
  ASSUME NEW x \in Ticks, NEW y \in Ticks
  PROVE  (x - y) % U64 = IF x < y THEN (x - y) + U64 ELSE x - y
<1> DEFINE d == x - y
<1>1. U64 \in Nat \ {0} /\ d \in Int /\ -U64 < d /\ d < U64 /\ (x < y <=> d < 0)
  BY Wraps DEF Ticks
<1> HIDE DEF d
<1>2. d >= 0 => d % U64 = d
  BY <1>1
<1>3. ASSUME d < 0 PROVE d % U64 = d + U64
  <2>1. d = (-1) * U64 + (d + U64) /\ d + U64 \in 0 .. U64 - 1
    BY <1>1, <1>3
  <2> QED
    BY <1>1, <2>1
<1>4. d % U64 = IF x < y THEN d + U64 ELSE d
  BY <1>1, <1>2, <1>3
<1> QED
  BY <1>4 DEF d

\* u64 differences split at half the range.
LEMMA HalfRange == U64 \div 2 \in Nat /\ U64 = 2 * (U64 \div 2)
<1>1. U64 \in Nat /\ U64 % 2 = 0
  BY CfsAssumption
<1> QED
  BY <1>1

\* The s64 difference of two times.
Offset(v, m) == LET d == (v - m) % U64 IN IF d >= U64 \div 2 THEN d - U64 ELSE d

Quarter(d) == 4 * d < U64 /\ -U64 < 4 * d

\* Of two times near a third, the sign of their u64 difference tells the order
\* that their distances from the third have.
LEMMA OffsetOrder ==
  ASSUME NEW m \in Ticks, NEW x \in Ticks, NEW y \in Ticks,
         Quarter(Offset(x, m)), Quarter(Offset(y, m))
  PROVE  /\ Offset(x, m) \in Int /\ Offset(y, m) \in Int
         /\ Before(x, y) <=> Offset(x, m) < Offset(y, m)
<1> DEFINE h == U64 \div 2
           a == Offset(x, m)
           b == Offset(y, m)
<1>1. h \in Nat /\ U64 = 2 * h
  BY HalfRange
<1>2. /\ (x - m) % U64 = (IF x < m THEN (x - m) + U64 ELSE x - m)
      /\ (y - m) % U64 = (IF y < m THEN (y - m) + U64 ELSE y - m)
      /\ (x - y) % U64 = (IF x < y THEN (x - y) + U64 ELSE x - y)
  BY WrapsOnce
<1>3. /\ a = LET d == (x - m) % U64 IN IF d >= h THEN d - U64 ELSE d
      /\ b = LET d == (y - m) % U64 IN IF d >= h THEN d - U64 ELSE d
      /\ Before(x, y) <=> (x - y) % U64 >= h
      /\ 4 * a < U64 /\ -U64 < 4 * a /\ 4 * b < U64 /\ -U64 < 4 * b
  BY DEF Offset, Before, Quarter
<1>4. m \in Int /\ x \in Int /\ y \in Int /\ 0 <= m /\ m < U64 /\ 0 <= x /\ x < U64 /\ 0 <= y /\ y < U64
  BY <1>1 DEF Ticks
<1> HIDE DEF h, a, b
<1>5. a \in Int /\ b \in Int /\ (Before(x, y) <=> a < b)
  BY <1>1, <1>2, <1>3, <1>4
<1> QED
  BY <1>5 DEF a, b

\* Near min_vruntime, the sign of a u64 difference orders vruntimes as their
\* distance from min_vruntime does.
LEMMA WindowOrder ==
  ASSUME NEW r \in RunQueue, NEW t \in Tasks, NEW u \in Tasks, Near(r, t), Near(r, u)
  PROVE  /\ entity_key(r, t) \in Int /\ entity_key(r, u) \in Int
         /\ Before(r.vruntime[t], r.vruntime[u]) <=> entity_key(r, t) < entity_key(r, u)
<1> DEFINE m == r.min_vruntime
           x == r.vruntime[t]
           y == r.vruntime[u]
<1>1. m \in Ticks /\ x \in Ticks /\ y \in Ticks
  BY DEF RunQueue
<1>2. entity_key(r, t) = Offset(x, m) /\ entity_key(r, u) = Offset(y, m)
  BY DEF entity_key, Offset
<1>3. Quarter(Offset(x, m)) /\ Quarter(Offset(y, m))
  BY <1>2 DEF Near, Quarter
<1> HIDE DEF m, x, y
<1>4. /\ Offset(x, m) \in Int /\ Offset(y, m) \in Int
      /\ Before(x, y) <=> Offset(x, m) < Offset(y, m)
  BY <1>1, <1>3, OffsetOrder
<1> QED
  BY <1>2, <1>4 DEF x, y

\* Charging moves a time by what is charged, as long as it stays near.
LEMMA OffsetCharged ==
  ASSUME NEW m \in Ticks, NEW x \in Ticks, NEW p \in Nat,
         -U64 < 4 * Offset(x, m), 4 * (Offset(x, m) + p) < U64
  PROVE  LET y == (x + p) % U64
         IN  y \in Ticks /\ Offset(y, m) = Offset(x, m) + p /\ Quarter(Offset(y, m))
<1> DEFINE h == U64 \div 2
           a == Offset(x, m)
           y == (x + p) % U64
           b == Offset(y, m)
<1>1. h \in Nat /\ U64 = 2 * h /\ U64 \in Nat \ {0}
  BY HalfRange, Wraps
<1>2. m \in Int /\ x \in Int /\ 0 <= m /\ m < U64 /\ 0 <= x /\ x < U64
  BY <1>1 DEF Ticks
<1>3. (x - m) % U64 = IF x < m THEN (x - m) + U64 ELSE x - m
  BY WrapsOnce
<1>4. a = LET d == (x - m) % U64 IN IF d >= h THEN d - U64 ELSE d
  BY DEF Offset
<1>5. -U64 < 4 * a /\ 4 * (a + p) < U64
  OBVIOUS
<1> HIDE DEF h, a
<1>6. a \in Int /\ (a = x - m \/ a = (x - m) + U64 \/ a = (x - m) - U64) /\ p < U64
  BY <1>1, <1>2, <1>3, <1>4, <1>5
<1>7. y = IF x + p < U64 THEN x + p ELSE (x + p) - U64
  <2> DEFINE e == x + p
  <2>1. e \in Nat /\ e < 2 * U64
    BY <1>1, <1>2, <1>6
  <2>2. y = e % U64
    OBVIOUS
  <2> HIDE DEF e, y
  <2>3. e < U64 => e % U64 = e
    BY <1>1, <2>1
  <2>4. ASSUME e >= U64 PROVE e % U64 = e - U64
    <3> DEFINE f == e - U64
    <3>1. e = 1 * U64 + f /\ f \in 0 .. U64 - 1
      BY <1>1, <2>1, <2>4
    <3> HIDE DEF f
    <3>2. e % U64 = f
      BY <1>1, <3>1, RemainderOf
    <3> QED
      BY <3>2 DEF f
  <2>5. y = IF e < U64 THEN e ELSE e - U64
    BY <1>1, <2>1, <2>2, <2>3, <2>4
  <2> QED
    BY <2>5 DEF e
<1> HIDE DEF y
<1>8. y \in Ticks /\ y \in Int /\ 0 <= y /\ y < U64
  BY <1>1, <1>2, <1>6, <1>7 DEF Ticks
<1>9. (y - m) % U64 = IF y < m THEN (y - m) + U64 ELSE y - m
  BY <1>8, WrapsOnce
<1>10. b = LET d == (y - m) % U64 IN IF d >= h THEN d - U64 ELSE d
  BY DEF Offset, h
<1> HIDE DEF b
<1>11. b = a + p
  BY <1>1, <1>2, <1>5, <1>6, <1>7, <1>8, <1>9, <1>10
<1>12. Quarter(b)
  BY <1>1, <1>5, <1>6, <1>11 DEF Quarter
<1> QED
  BY <1>8, <1>11, <1>12 DEF a, b, y

\* Whether a timeline is sorted depends on its entities' vruntimes only.
LEMMA SortedSame ==
  ASSUME NEW r, NEW q, NEW S, Holds(r, S), q.timeline = r.timeline,
         \A u \in S : q.vruntime[u] = r.vruntime[u], Sorted(r)
  PROVE  Sorted(q)
<1>1. \A i \in DOMAIN r.timeline : r.timeline[i] \in S
  BY DEF Holds, ToSet
<1> QED
  BY <1>1 DEF Sorted

\* Taking an entity out keeps the order.
LEMMA DequeueSorted ==
  ASSUME NEW r \in RunQueue, NEW S, Holds(r, S), NEW t \in S, Sorted(r)
  PROVE  Sorted(dequeue_timeline(r, t))
<1> DEFINE q == dequeue_timeline(r, t)
           s == r.timeline
           i == Position(r, t)
           n == Len(s)
           z == q.timeline
<1>1. s \in Seq(Tasks) /\ n \in Nat /\ DOMAIN s = 1 .. n
  BY DEF RunQueue
<1>2. i \in 1 .. n
  BY PositionIs
<1>3. z = RemoveAt(s, i) /\ q.vruntime = r.vruntime
  BY Dequeue DEF OnlyLine, SameTimes
<1>4. /\ z \in Seq(Tasks) /\ Len(z) = n - 1
      /\ \A j \in 1 .. n - 1 : z[j] = IF j < i THEN s[j] ELSE s[j + 1]
  <2> HIDE DEF i
  <2> QED
    BY <1>1, <1>2, <1>3, RemoveAtFacts
<1> HIDE DEF q, i, n, z
<1> DEFINE old(j) == IF j < i THEN j ELSE j + 1
<1>5. DOMAIN z = 1 .. n - 1 /\ \A j \in 1 .. n - 1 : old(j) \in 1 .. n /\ z[j] = s[old(j)]
  BY <1>1, <1>2, <1>4
<1>6. \A j, k \in 1 .. n - 1 : j < k => old(j) < old(k)
  BY <1>1, <1>2
<1> HIDE DEF old
<1>7. ASSUME NEW j \in DOMAIN z, NEW k \in DOMAIN z, j < k
      PROVE  ~ Before(r.vruntime[z[k]], r.vruntime[z[j]])
  <2>1. old(j) \in DOMAIN s /\ old(k) \in DOMAIN s /\ old(j) < old(k)
    BY <1>1, <1>5, <1>6, <1>7
  <2>2. z[j] = s[old(j)] /\ z[k] = s[old(k)]
    BY <1>5
  <2> QED
    BY <2>1, <2>2 DEF Sorted
<1> QED
  BY <1>3, <1>7 DEF Sorted, q, z

\* A set that has all numbers below its members is an interval.
LEMMA Prefix ==
  ASSUME NEW n \in Nat, NEW A \in SUBSET (1 .. n),
         \A i \in A : \A j \in 1 .. n : j < i => j \in A
  PROVE  A = 1 .. Cardinality(A)
<1>1. CASE A = {}
  BY <1>1, FS_EmptySet
<1>2. CASE A # {}
  <2>1. A \in SUBSET Nat /\ \A i \in A : i <= n
    OBVIOUS
  <2>2. PICK g \in A : \A i \in A : i <= g
    BY <1>2, <2>1, GreatestNat
  <2>3. g \in 1 .. n
    OBVIOUS
  <2>4. ASSUME NEW j \in 1 .. g
        PROVE  j \in A
    <3>1. j \in 1 .. n
      BY <2>3
    <3>2. j = g \/ j < g
      BY <2>3
    <3> QED
      BY <2>2, <3>1, <3>2
  <2>5. \A i \in A : i \in 1 .. g
    BY <2>1, <2>2, <2>3
  <2>6. A = 1 .. g
    BY <2>4, <2>5
  <2>7. Cardinality(1 .. g) = g
    BY <2>3, FS_Interval
  <2> QED
    BY <2>6, <2>7
<1> QED
  BY <1>1, <1>2

\* Insertion behind every entity the new one is not before keeps the order.
LEMMA EnqueueSorted ==
  ASSUME NEW r \in RunQueue, NEW S, Holds(r, S), NEW t \in Tasks, t \notin S, Sorted(r),
         \A u \in S \cup {t} : Near(r, u)
  PROVE  Sorted(enqueue_timeline(r, t))
<1> DEFINE q == enqueue_timeline(r, t)
           s == r.timeline
           n == Len(s)
           key(i) == entity_key(r, s[i])
           k == entity_key(r, t)
           A == {i \in DOMAIN s : k >= key(i)}
           c == Cardinality(A)
           z == q.timeline
           late(x, y) == Before(r.vruntime[x], r.vruntime[y])
<1>1. s \in Seq(Tasks) /\ n \in Nat /\ DOMAIN s = 1 .. n
  BY DEF RunQueue
<1>2. \A i \in 1 .. n : s[i] \in Tasks /\ s[i] \in S
  BY <1>1 DEF Holds, ToSet
<1>3. \A i \in 1 .. n : Near(r, s[i])
  BY <1>2
<1>4. Near(r, t) /\ k \in Int
  BY WindowOrder
<1>5. \A i \in 1 .. n : key(i) \in Int
  BY <1>2, <1>3, WindowOrder
<1>6. \A i, j \in 1 .. n : late(s[j], s[i]) <=> key(j) < key(i)
  BY <1>2, <1>3, WindowOrder
<1>7. \A i \in 1 .. n : (late(t, s[i]) <=> k < key(i)) /\ (late(s[i], t) <=> key(i) < k)
  BY <1>2, <1>3, <1>4, WindowOrder
<1>8. \A i, j \in 1 .. n : i < j => ~ late(s[j], s[i])
  BY <1>1 DEF Sorted
<1>9. c + 1 \in 1 .. n + 1 /\ q = Inserted(r, t, c + 1) /\ c \in Nat
  BY EnqueuePlace, FS_CardinalityType
<1>10. z = InsertAt(s, c + 1, t) /\ q.vruntime = r.vruntime
  <2> HIDE DEF c, q
  <2> QED
    BY <1>9 DEF Inserted, RunQueue
<1>11. A \subseteq 1 .. n
  BY <1>1
<1>12. \A i \in 1 .. n : i \in A <=> k >= key(i)
  BY <1>1
<1> HIDE DEF q, n, key, k, A, c, z, late
<1>13. /\ z \in Seq(Tasks) /\ Len(z) = n + 1
       /\ \A j \in 1 .. n + 1 :
            z[j] = IF j < c + 1 THEN s[j] ELSE IF j = c + 1 THEN t ELSE s[j - 1]
  BY <1>9, InsertedLine DEF n, z
<1>14. DOMAIN z = 1 .. n + 1
  BY <1>1, <1>13
<1>16. A = 1 .. c
  <2>1. ASSUME NEW i \in A, NEW j \in 1 .. n, j < i
        PROVE  j \in A
    <3>1. i \in 1 .. n /\ k >= key(i)
      BY <1>11, <1>12
    <3>2. ~ (key(i) < key(j))
      BY <1>6, <1>8, <2>1, <3>1
    <3>3. key(i) \in Int /\ key(j) \in Int
      BY <1>5, <3>1
    <3>4. k >= key(j)
      BY <1>4, <3>1, <3>2, <3>3
    <3> QED
      BY <1>12, <3>4
  <2>2. A = 1 .. Cardinality(A)
    BY <1>1, <1>11, <2>1, Prefix
  <2> QED
    BY <2>2 DEF c
<1>17. c \in 0 .. n
  BY <1>1, <1>9
<1>18. ASSUME NEW i \in 1 .. n + 1, NEW j \in 1 .. n + 1, i < j
       PROVE  ~ late(z[j], z[i])
  <2>1. CASE j < c + 1
    <3>1. z[i] = s[i] /\ z[j] = s[j] /\ i \in 1 .. n /\ j \in 1 .. n
      BY <1>1, <1>13, <1>17, <1>18, <2>1
    <3> QED
      BY <1>8, <1>18, <3>1
  <2>2. CASE j = c + 1
    <3>1. z[i] = s[i] /\ z[j] = t /\ i \in 1 .. n /\ i \in 1 .. c
      BY <1>1, <1>13, <1>17, <1>18, <2>2
    <3>2. k >= key(i)
      BY <1>12, <1>16, <3>1
    <3>3. ~ (k < key(i))
      BY <1>4, <1>5, <3>1, <3>2
    <3> QED
      BY <1>7, <3>1, <3>3
  <2>3. CASE i < c + 1 /\ j > c + 1
    <3>1. z[i] = s[i] /\ z[j] = s[j - 1] /\ i \in 1 .. n /\ j - 1 \in 1 .. n /\ i < j - 1
      BY <1>1, <1>13, <1>17, <1>18, <2>3
    <3> QED
      BY <1>8, <3>1
  <2>4. CASE i = c + 1 /\ j > c + 1
    <3>1. z[i] = t /\ z[j] = s[j - 1] /\ j - 1 \in 1 .. n /\ j - 1 \notin 1 .. c
      BY <1>1, <1>13, <1>17, <1>18, <2>4
    <3>2. ~ (k >= key(j - 1))
      BY <1>12, <1>16, <3>1
    <3>3. ~ (key(j - 1) < k)
      BY <1>4, <1>5, <3>1, <3>2
    <3> QED
      BY <1>7, <3>1, <3>3
  <2>5. CASE i > c + 1
    <3>1. z[i] = s[i - 1] /\ z[j] = s[j - 1] /\ i - 1 \in 1 .. n /\ j - 1 \in 1 .. n /\ i - 1 < j - 1
      BY <1>1, <1>13, <1>17, <1>18, <2>5
    <3> QED
      BY <1>8, <3>1
  <2> QED
    BY <1>1, <1>17, <1>18, <2>1, <2>2, <2>3, <2>4, <2>5
<1> QED
  BY <1>10, <1>14, <1>18 DEF Sorted, q, z, late

-------------------------------------------------------------------------------
(* Entering and leaving the run queue *)

AllNear(r) == \A u \in QueuedIn(r) : Near(r, u)

\* A change of times keeps what the timeline holds, and its order if it does
\* not change the vruntime of an entity in it.
LEMMA TimesKeepLine ==
  ASSUME NEW r \in RunQueue, NEW q, NEW S, NEW t, Holds(r, S), OnlyTimes(r, q, t)
  PROVE  Holds(q, S) /\ (t \notin S /\ Sorted(r) => Sorted(q))
<1>1. q.timeline = r.timeline /\ q.leftmost = r.leftmost
  BY DEF OnlyTimes, SameLine
<1>2. Holds(q, S)
  BY <1>1 DEF Holds
<1>3. S \subseteq Tasks
  BY DEF Holds, ToSet, RunQueue
<1>4. ASSUME t \notin S, Sorted(r) PROVE Sorted(q)
  <2>1. \A u \in S : q.vruntime[u] = r.vruntime[u]
    BY <1>3, <1>4 DEF OnlyTimes
  <2> QED
    BY <1>1, <1>4, <2>1, SortedSame
<1> QED
  BY <1>2, <1>4

\* Nearness depends on the times alone.
LEMMA NearSame ==
  ASSUME NEW r, NEW q, q.min_vruntime = r.min_vruntime, q.vruntime = r.vruntime, NEW t
  PROVE  Near(q, t) <=> Near(r, t)
<1>1. entity_key(q, t) = entity_key(r, t)
  BY DEF entity_key
<1> QED
  BY <1>1 DEF Near

\* enqueue_task_fair of a task that is off the queue.
LEMMA EnqueueTask ==
  ASSUME NEW r, QueueInv(r), NEW t \in Tasks, ~ r.on_rq[t], NEW wakeup \in BOOLEAN
  PROVE  LET q == enqueue_task_fair(r, t, wakeup)
         IN  /\ QueueInv(q) /\ Settled(q)
             /\ q.curr = r.curr /\ q.on_rq = [r.on_rq EXCEPT ![t] = TRUE]
             /\ Sorted(r) /\ AllNear(q) => Sorted(q)
             /\ Forward(r, q)
<1> DEFINE v  == (r.vruntime[t] + r.min_vruntime) % U64
           S  == QueuedIn(r) \ {r.curr}
           r1 == IF wakeup THEN r ELSE [r EXCEPT !.vruntime[t] = v]
           c  == update_curr(r1)
           r2 == [c EXCEPT !.nr = @ + 1]
           r3 == IF wakeup THEN place_entity(r2, t) ELSE r2
           r4 == IF t # r3.curr THEN enqueue_timeline(r3, t) ELSE r3
           q  == [r4 EXCEPT !.on_rq[t] = TRUE, !.h_nr = @ + 1, !.nr_running = @ + 1]
<1>0. enqueue_task_fair(r, t, wakeup) = q
  <2>1. enqueue_entity(r, t, wakeup) = [r4 EXCEPT !.on_rq[t] = TRUE]
    BY DEF enqueue_entity
  <2> HIDE DEF r4
  <2> QED
    BY <2>1 DEF enqueue_task_fair
<1>1. r \in RunQueue /\ Holds(r, S) /\ Counted(r) /\ Buddied(r) /\ t \notin S
  BY DEF QueueInv, QueuedIn
<1> HIDE DEF S
<1>2. r1 \in RunQueue /\ OnlyTimes(r, r1, t) /\ r1.min_vruntime = r.min_vruntime
  <2>1. r.vruntime[t] + r.min_vruntime \in Int
    <3>1. r.vruntime[t] \in Ticks /\ r.min_vruntime \in Ticks
      BY <1>1 DEF RunQueue
    <3> QED
      BY <3>1 DEF Ticks
  <2>2. v \in Ticks
    BY <2>1, Wraps
  <2> HIDE DEF v
  <2>3. CASE wakeup
    BY <1>1, <2>3 DEF OnlyTimes, SameLine, SameCounts, SameBuddies
  <2>4. CASE ~ wakeup
    BY <1>1, <2>2, <2>4, SetVruntime DEF OnlyTimes
  <2> QED
    BY <2>3, <2>4
<1>3. Holds(r1, S) /\ (Sorted(r) => Sorted(r1)) /\ r1.curr = r.curr
  BY <1>1, <1>2, TimesKeepLine DEF OnlyTimes
<1> HIDE DEF r1
<1>4. c \in RunQueue /\ OnlyTimes(r1, c, r1.curr) /\ Settled(c) /\ Forward(r1, c)
  BY <1>2, UpdateCurr DEF OnlyTimes
<1>5. Holds(c, S) /\ (Sorted(r) => Sorted(c)) /\ c.curr = r.curr /\ c.on_rq = r.on_rq
      /\ SameCounts(r, c) /\ SameBuddies(r, c)
  <2>1. r1.curr \notin S
    BY <1>3 DEF S
  <2> QED
    BY <1>2, <1>3, <1>4, <2>1, TimesKeepLine DEF OnlyTimes, SameCounts, SameBuddies
<1> HIDE DEF c
<1>6. /\ r2 \in RunQueue /\ r2.nr = c.nr + 1 /\ r2.h_nr = c.h_nr /\ r2.nr_running = c.nr_running
      /\ SameLine(c, r2) /\ SameTimes(c, r2) /\ SameBuddies(c, r2)
      /\ r2.curr = c.curr /\ r2.on_rq = c.on_rq
  <2>1. c.nr + 1 \in Int
    BY <1>4 DEF RunQueue
  <2>2. r2 \in RunQueue
    BY <1>4, <2>1 DEF RunQueue
  <2> QED
    BY <1>4, <2>2 DEF RunQueue, SameLine, SameTimes, SameBuddies
<1>7. Holds(r2, S) /\ (Sorted(r) => Sorted(r2)) /\ Settled(r2)
  BY <1>4, <1>5, <1>6 DEF Holds, Sorted, Settled, SameLine, SameTimes
<1> HIDE DEF r2
<1>8. r3 \in RunQueue /\ OnlyTimes(r2, r3, t) /\ r3.ran = r2.ran /\ r3.min_vruntime = r2.min_vruntime
  <2>1. CASE wakeup
    BY <1>6, <2>1, Place DEF OnlyTimes
  <2>2. CASE ~ wakeup
    BY <1>6, <2>2 DEF OnlyTimes, SameLine, SameCounts, SameBuddies
  <2> QED
    BY <2>1, <2>2
<1>9. Holds(r3, S) /\ (Sorted(r) => Sorted(r3)) /\ Settled(r3)
      /\ r3.curr = r.curr /\ r3.on_rq = r.on_rq
      /\ r3.nr = r.nr + 1 /\ r3.h_nr = r.h_nr /\ r3.nr_running = r.nr_running
      /\ SameBuddies(r, r3)
  <2>1. Holds(r3, S) /\ (Sorted(r2) => Sorted(r3))
    BY <1>1, <1>6, <1>7, <1>8, TimesKeepLine
  <2> QED
    BY <1>5, <1>6, <1>7, <1>8, <2>1 DEF OnlyTimes, SameCounts, SameBuddies, Settled
<1> HIDE DEF r3
<1>10. /\ r4 \in RunQueue /\ OnlyLine(r3, r4)
       /\ Holds(r4, IF t # r.curr THEN S \cup {t} ELSE S)
  <2>1. CASE t # r.curr
    BY <1>1, <1>8, <1>9, <2>1, Enqueue DEF OnlyLine
  <2>2. CASE t = r.curr
    BY <1>8, <1>9, <2>2 DEF OnlyLine, SameTimes, SameCounts, SameBuddies
  <2> QED
    BY <2>1, <2>2
<1>11. ASSUME Sorted(r), \A u \in S \cup {t} : Near(r4, u)
       PROVE  Sorted(r4)
  <2>1. CASE t # r.curr
    <3>1. \A u \in S \cup {t} : Near(r3, u)
      BY <1>10, <1>11, NearSame DEF OnlyLine, SameTimes
    <3> QED
      BY <1>1, <1>8, <1>9, <1>11, <2>1, <3>1, EnqueueSorted
  <2>2. CASE t = r.curr
    BY <1>9, <1>11, <2>2
  <2> QED
    BY <2>1, <2>2
<1> HIDE DEF r4
<1>12. /\ q \in RunQueue /\ q.on_rq = [r.on_rq EXCEPT ![t] = TRUE] /\ q.curr = r.curr
       /\ q.nr = r.nr + 1 /\ q.h_nr = r.h_nr + 1 /\ q.nr_running = r.nr_running + 1
       /\ SameLine(r4, q) /\ SameTimes(r4, q) /\ SameBuddies(r, q) /\ Settled(q)
  <2>1. /\ r4.on_rq = r.on_rq /\ r4.curr = r.curr /\ r4.nr = r.nr + 1 /\ r4.h_nr = r.h_nr
        /\ r4.nr_running = r.nr_running /\ SameBuddies(r, r4) /\ Settled(r4)
    BY <1>9, <1>10 DEF OnlyLine, SameTimes, SameCounts, SameBuddies, Settled
  <2>2. r4.h_nr + 1 \in Int /\ r4.nr_running + 1 \in Int
        /\ [r4.on_rq EXCEPT ![t] = TRUE] \in [Tasks -> BOOLEAN]
    BY <1>10 DEF RunQueue
  <2>3. q \in RunQueue
    BY <1>10, <2>2 DEF RunQueue
  <2> QED
    BY <1>10, <2>1, <2>3 DEF RunQueue, SameLine, SameTimes, SameBuddies, Settled
<1> HIDE DEF q
<1>13. QueuedIn(q) = QueuedIn(r) \cup {t} /\ t \notin QueuedIn(r)
  BY <1>1, <1>12 DEF QueuedIn, RunQueue
<1>14. Counted(q)
  <2>1. IsFiniteSet(QueuedIn(r))
    BY CfsAssumption, FS_Subset DEF QueuedIn
  <2>2. Cardinality(QueuedIn(q)) = Cardinality(QueuedIn(r)) + 1
    BY <1>13, <2>1, FS_AddElement
  <2> QED
    BY <1>1, <1>12, <2>2 DEF Counted
<1>15. Buddied(q)
  BY <1>1, <1>12 DEF Buddied, SameBuddies, RunQueue, Maybe
<1>16. QueuedIn(q) \ {q.curr} = IF t # r.curr THEN S \cup {t} ELSE S
  BY <1>12, <1>13 DEF S
<1>17. Holds(q, QueuedIn(q) \ {q.curr})
  BY <1>10, <1>12, <1>16 DEF Holds, SameLine
<1>18. ASSUME Sorted(r), AllNear(q) PROVE Sorted(q)
  <2>1. S \cup {t} \subseteq QueuedIn(q)
    BY <1>13 DEF S
  <2>2. \A u \in S \cup {t} : Near(r4, u)
    BY <1>12, <1>18, <2>1, NearSame DEF AllNear, SameTimes
  <2>3. Sorted(r4)
    BY <1>11, <1>18, <2>2
  <2> QED
    BY <1>12, <2>3 DEF Sorted, SameLine, SameTimes
<1>19. Forward(r, q)
  BY <1>2, <1>4, <1>6, <1>8, <1>10, <1>12 DEF Forward, OnlyLine, SameTimes
<1> QED
  BY <1>0, <1>12, <1>14, <1>15, <1>17, <1>18, <1>19 DEF QueueInv

\* Every queued task's vruntime is near min_vruntime, and remains so when the
\* current task is charged.
Charges(r) ==
  \A t \in QueuedIn(r) :
    /\ -U64 < 4 * entity_key(r, t)
    /\ 4 * (entity_key(r, t) + (IF t = r.curr THEN r.ran * Scale[t] ELSE 0)) < U64

LEMMA ChargedNear ==
  ASSUME NEW r \in RunQueue, Charges(r), NEW u \in QueuedIn(r)
  PROVE  ChargedTo(r, u) \in Ticks /\ Quarter(Offset(ChargedTo(r, u), r.min_vruntime))
<1> DEFINE m == r.min_vruntime
           x == r.vruntime[u]
           p == IF u = r.curr THEN r.ran * Scale[u] ELSE 0
           y == (x + p) % U64
<1>1. u \in Tasks /\ m \in Ticks /\ x \in Ticks
  BY DEF QueuedIn, RunQueue
<1>2. p \in Nat
  <2>1. r.ran \in Nat /\ Scale[u] \in Nat
    BY <1>1, CfsAssumption DEF RunQueue
  <2>2. r.ran * Scale[u] \in Nat
    BY <2>1
  <2> QED
    BY <2>2
<1>3. entity_key(r, u) = Offset(x, m)
  BY DEF entity_key, Offset
<1>4. -U64 < 4 * Offset(x, m) /\ 4 * (Offset(x, m) + p) < U64
  BY <1>3 DEF Charges
<1>5. ChargedTo(r, u) = y
  <2>1. CASE u = r.curr
    BY <2>1 DEF ChargedTo
  <2>2. CASE u # r.curr
    <3>1. x \in 0 .. U64 - 1 /\ p = 0 /\ x + p = x
      BY <1>1, <2>2 DEF Ticks
    <3>2. x % U64 = x
      BY <3>1, Wraps
    <3> QED
      BY <2>2, <3>1, <3>2 DEF ChargedTo
  <2> QED
    BY <2>1, <2>2
<1> HIDE DEF m, x, p
<1>6. y \in Ticks /\ Quarter(Offset(y, m))
  BY <1>1, <1>2, <1>4, OffsetCharged
<1> QED
  BY <1>5, <1>6 DEF m

\* The earliest vruntime is that of a task in the timeline or of the current
\* one, if it is queued.
LEMMA EarliestFrom ==
  ASSUME NEW r \in RunQueue, NEW S, Holds(r, S), Earliest(r) # r.min_vruntime
  PROVE  \E u \in S \cup {r.curr} :
           u \in Tasks /\ (u \in S \/ r.on_rq[u]) /\ Earliest(r) = r.vruntime[u]
<1>1. r.leftmost # None => r.leftmost \in S /\ r.leftmost \in Tasks
  <2>1. r.timeline \in Seq(Tasks) /\ r.leftmost \in Maybe
    BY DEF RunQueue
  <2>2. r.timeline # << >> => Head(r.timeline) = r.timeline[1] /\ 1 \in DOMAIN r.timeline
    BY <2>1
  <2> QED
    BY <2>1, <2>2 DEF Holds, ToSet, Maybe
<1>2. r.curr # None => r.curr \in Tasks
  BY DEF RunQueue, Maybe
<1>3. \/ r.curr # None /\ r.on_rq[r.curr] /\ Earliest(r) = r.vruntime[r.curr]
      \/ r.leftmost # None /\ Earliest(r) = r.vruntime[r.leftmost]
  BY DEF Earliest, min_vruntime
<1> QED
  BY <1>1, <1>2, <1>3

\* update_curr moves min_vruntime to the vruntime of a queued task, if at all.
LEMMA UpdateCurrFrom ==
  ASSUME NEW r, QueueInv(r), update_curr(r).min_vruntime # r.min_vruntime
  PROVE  \E u \in QueuedIn(r) : update_curr(r).min_vruntime = ChargedTo(r, u)
<1> DEFINE v == (r.vruntime[r.curr] + r.ran * Scale[r.curr]) % U64
           c == [r EXCEPT !.ran = 0, !.vruntime[r.curr] = v]
           q == update_min_vruntime(c)
           S == QueuedIn(r) \ {r.curr}
<1>1. r \in RunQueue /\ Holds(r, S)
  BY DEF QueueInv
<1>2. ~ Settled(r) /\ update_curr(r) = q
  BY DEF update_curr, Settled
<1>3. r.curr \in Tasks /\ r.vruntime[r.curr] \in Int /\ r.ran \in Int
  BY <1>1, <1>2 DEF Settled, RunQueue, Maybe, Ticks
<1>4. v \in Ticks
  <2>1. Scale[r.curr] \in Int
    BY <1>3, CfsAssumption
  <2> QED
    BY <1>3, <2>1, Wraps
<1>5. \A u \in Tasks : ChargedTo(r, u) = [r.vruntime EXCEPT ![r.curr] = v][u]
  BY <1>1, <1>3 DEF ChargedTo, RunQueue
<1> HIDE DEF v
<1>6. [r.vruntime EXCEPT ![r.curr] = v] \in [Tasks -> Ticks]
  BY <1>1, <1>3, <1>4 DEF RunQueue
<1>7. c \in RunQueue
  BY <1>1, <1>6 DEF RunQueue
<1>8. /\ c.timeline = r.timeline /\ c.leftmost = r.leftmost /\ c.curr = r.curr /\ c.on_rq = r.on_rq
      /\ c.min_vruntime = r.min_vruntime /\ c.vruntime = [r.vruntime EXCEPT ![r.curr] = v]
  BY <1>1 DEF RunQueue
<1> HIDE DEF c
<1>9. Holds(c, S)
  BY <1>1, <1>8 DEF Holds
<1>10. q.min_vruntime \in {c.min_vruntime, Earliest(c)}
  BY <1>7, UpdateMin
<1> HIDE DEF q
<1>11. Earliest(c) # c.min_vruntime /\ q.min_vruntime = Earliest(c)
  BY <1>2, <1>8, <1>10
<1>12. PICK u \in S \cup {c.curr} :
         u \in Tasks /\ (u \in S \/ c.on_rq[u]) /\ Earliest(c) = c.vruntime[u]
  BY <1>7, <1>9, <1>11, EarliestFrom
<1>13. u \in QueuedIn(r)
  BY <1>8, <1>12 DEF QueuedIn
<1>14. q.min_vruntime = ChargedTo(r, u)
  BY <1>5, <1>8, <1>11, <1>12
<1> QED
  BY <1>2, <1>13, <1>14

\* Two moves forward within the window are a move forward.
LEMMA StillForward ==
  ASSUME NEW m \in Ticks, NEW x \in Ticks, NEW y \in Ticks,
         Quarter(Offset(x, m)), Quarter(Offset(y, m)), ~ Before(x, m), ~ Before(y, x)
  PROVE  ~ Before(y, m)
<1>1. Offset(m, m) = 0 /\ Quarter(Offset(m, m))
  <2>1. U64 \in Nat \ {0} /\ U64 \div 2 \in Nat /\ U64 = 2 * (U64 \div 2)
    BY Wraps, HalfRange
  <2>2. (m - m) % U64 = 0
    <3>1. m - m = 0 /\ ~ (m < m)
      BY DEF Ticks
    <3> QED
      BY <3>1, WrapsOnce
  <2>3. ~ (0 >= U64 \div 2)
    BY <2>1
  <2>4. Offset(m, m) = 0
    BY <2>2, <2>3 DEF Offset
  <2> QED
    BY <2>1, <2>4 DEF Quarter
<1>2. Offset(x, m) \in Int /\ ~ (Offset(x, m) < 0)
  BY <1>1, OffsetOrder
<1>3. Offset(y, m) \in Int /\ ~ (Offset(y, m) < Offset(x, m))
  BY OffsetOrder
<1>4. ~ (Offset(y, m) < 0)
  BY <1>2, <1>3
<1> QED
  BY <1>1, <1>4, OffsetOrder

\* dequeue_task_fair of a task that is on the queue.
LEMMA DequeueTask ==
  ASSUME NEW r, QueueInv(r), NEW t \in Tasks, r.on_rq[t], NEW sleep \in BOOLEAN
  PROVE  LET q == dequeue_task_fair(r, t, sleep)
         IN  /\ QueueInv(q)
             /\ q.curr = r.curr /\ q.on_rq = [r.on_rq EXCEPT ![t] = FALSE]
             /\ Sorted(r) => Sorted(q)
             /\ Charges(r) => Forward(r, q)
<1> DEFINE S  == QueuedIn(r) \ {r.curr}
           c  == update_curr(r)
           r1 == clear_buddies(c, t)
           r2 == IF t # r1.curr THEN dequeue_timeline(r1, t) ELSE r1
           r3 == [r2 EXCEPT !.on_rq[t] = FALSE, !.nr = @ - 1]
           v  == (r3.vruntime[t] - r3.min_vruntime) % U64
           r4 == IF sleep THEN r3 ELSE [r3 EXCEPT !.vruntime[t] = v]
           r5 == update_min_vruntime(r4)
           q  == [r5 EXCEPT !.h_nr = @ - 1, !.nr_running = @ - 1]
<1>0. dequeue_task_fair(r, t, sleep) = q
  BY DEF dequeue_task_fair, dequeue_entity
<1>1. r \in RunQueue /\ Holds(r, S) /\ Counted(r) /\ Buddied(r) /\ S \subseteq Tasks
      /\ r.curr \notin S /\ (t # r.curr => t \in S)
  BY DEF QueueInv, QueuedIn
<1> HIDE DEF S
<1>2. /\ c \in RunQueue /\ OnlyTimes(r, c, r.curr) /\ Forward(r, c)
      /\ \A u \in Tasks : c.vruntime[u] = ChargedTo(r, u)
      /\ c.min_vruntime # r.min_vruntime =>
           \E u \in QueuedIn(r) : c.min_vruntime = ChargedTo(r, u)
  BY <1>1, UpdateCurr, UpdateCurrFrom DEF OnlyTimes
<1>3. Holds(c, S) /\ (Sorted(r) => Sorted(c))
  BY <1>1, <1>2, TimesKeepLine
<1> HIDE DEF c
<1>4. /\ r1 \in RunQueue /\ r1.curr = c.curr /\ r1.on_rq = c.on_rq
      /\ SameLine(c, r1) /\ SameTimes(c, r1) /\ SameCounts(c, r1)
      /\ r1.next = (IF c.next = t THEN None ELSE c.next)
      /\ r1.last = (IF c.last = t THEN None ELSE c.last)
      /\ r1.skip = (IF c.skip = t THEN None ELSE c.skip)
  BY <1>2, ClearBuddies
<1> HIDE DEF r1
<1>5. Holds(r1, S) /\ (Sorted(r) => Sorted(r1)) /\ r1.curr = r.curr /\ r1.on_rq = r.on_rq
      /\ SameCounts(r, r1)
  BY <1>2, <1>3, <1>4 DEF Holds, Sorted, SameLine, SameTimes, SameCounts, OnlyTimes
<1>6. \A b \in {r1.next, r1.last, r1.skip} \ {None} :
        b # t /\ b \in {r.next, r.last, r.skip} \ {None}
  BY <1>2, <1>4 DEF OnlyTimes, SameBuddies
<1>7. /\ r2 \in RunQueue /\ OnlyLine(r1, r2) /\ Holds(r2, S \ {t})
      /\ Sorted(r) => Sorted(r2)
  <2>1. CASE t # r.curr
    BY <1>1, <1>4, <1>5, <2>1, Dequeue, DequeueSorted DEF OnlyLine
  <2>2. CASE t = r.curr
    <3>1. S \ {t} = S
      BY <1>1, <2>2
    <3> QED
      BY <1>4, <1>5, <2>2, <3>1 DEF OnlyLine, SameTimes, SameCounts, SameBuddies
  <2> QED
    BY <2>1, <2>2
<1> HIDE DEF r2
<1>8. /\ r3 \in RunQueue /\ r3.on_rq = [r.on_rq EXCEPT ![t] = FALSE] /\ r3.curr = r.curr
      /\ r3.nr = r.nr - 1 /\ r3.h_nr = r.h_nr /\ r3.nr_running = r.nr_running
      /\ SameLine(r2, r3) /\ SameTimes(r2, r3) /\ SameBuddies(r1, r3)
  <2>1. /\ r2.on_rq = r.on_rq /\ r2.curr = r.curr /\ r2.nr = r.nr /\ r2.h_nr = r.h_nr
        /\ r2.nr_running = r.nr_running /\ SameBuddies(r1, r2)
    BY <1>5, <1>7 DEF OnlyLine, SameCounts, SameBuddies
  <2>2. r2.nr - 1 \in Int /\ [r2.on_rq EXCEPT ![t] = FALSE] \in [Tasks -> BOOLEAN]
    BY <1>7 DEF RunQueue
  <2>3. r3 \in RunQueue
    BY <1>7, <2>2 DEF RunQueue
  <2> QED
    BY <1>7, <2>1, <2>3 DEF RunQueue, SameLine, SameTimes, SameBuddies
<1> HIDE DEF r3
<1>9. Holds(r3, S \ {t}) /\ (Sorted(r) => Sorted(r3))
  BY <1>7, <1>8 DEF Holds, Sorted, SameLine, SameTimes
<1>10. r4 \in RunQueue /\ OnlyTimes(r3, r4, t) /\ r4.min_vruntime = r3.min_vruntime
  <2>1. r3.vruntime[t] - r3.min_vruntime \in Int
    <3>1. r3.vruntime[t] \in Ticks /\ r3.min_vruntime \in Ticks
      BY <1>8 DEF RunQueue
    <3> QED
      BY <3>1 DEF Ticks
  <2>2. v \in Ticks
    BY <2>1, Wraps
  <2> HIDE DEF v
  <2>3. CASE sleep
    BY <1>8, <2>3 DEF OnlyTimes, SameLine, SameCounts, SameBuddies
  <2>4. CASE ~ sleep
    BY <1>8, <2>2, <2>4, SetVruntime DEF OnlyTimes
  <2> QED
    BY <2>3, <2>4
<1>11. Holds(r4, S \ {t}) /\ (Sorted(r) => Sorted(r4))
  BY <1>8, <1>9, <1>10, TimesKeepLine
<1> HIDE DEF r4
<1>12. /\ r5 \in RunQueue /\ OnlyTimes(r4, r5, None) /\ r5.vruntime = r4.vruntime
       /\ r5.min_vruntime \in {r4.min_vruntime, Earliest(r4)} /\ Forward(r4, r5)
  BY <1>10, UpdateMin DEF OnlyTimes
<1>13. Holds(r5, S \ {t}) /\ (Sorted(r) => Sorted(r5))
  <2>1. None \notin S \ {t}
    BY <1>1, CfsAssumption
  <2> QED
    BY <1>10, <1>11, <1>12, <2>1, TimesKeepLine
<1> HIDE DEF r5
<1>14. /\ r5.on_rq = [r.on_rq EXCEPT ![t] = FALSE] /\ r5.curr = r.curr
       /\ r5.nr = r.nr - 1 /\ r5.h_nr = r.h_nr /\ r5.nr_running = r.nr_running
       /\ SameBuddies(r1, r5)
  BY <1>8, <1>10, <1>12 DEF OnlyTimes, SameCounts, SameBuddies
<1>15. /\ q \in RunQueue /\ q.on_rq = [r.on_rq EXCEPT ![t] = FALSE] /\ q.curr = r.curr
       /\ q.nr = r.nr - 1 /\ q.h_nr = r.h_nr - 1 /\ q.nr_running = r.nr_running - 1
       /\ SameLine(r5, q) /\ SameTimes(r5, q) /\ SameBuddies(r1, q)
  <2>1. r5.h_nr - 1 \in Int /\ r5.nr_running - 1 \in Int
    BY <1>12 DEF RunQueue
  <2>2. q \in RunQueue
    BY <1>12, <2>1 DEF RunQueue
  <2> QED
    BY <1>12, <1>14, <2>2 DEF RunQueue, SameLine, SameTimes, SameBuddies
<1> HIDE DEF q
<1>16. QueuedIn(q) = QueuedIn(r) \ {t} /\ t \in QueuedIn(r)
  BY <1>1, <1>15 DEF QueuedIn, RunQueue
<1>17. Counted(q)
  <2>1. IsFiniteSet(QueuedIn(r))
    BY CfsAssumption, FS_Subset DEF QueuedIn
  <2>2. Cardinality(QueuedIn(q)) = Cardinality(QueuedIn(r)) - 1
    BY <1>16, <2>1, FS_RemoveElement
  <2> QED
    BY <1>1, <1>15, <2>2 DEF Counted
<1>18. Buddied(q)
  <2>1. \A b \in {q.next, q.last, q.skip} \ {None} : b # t /\ b \in Tasks /\ r.on_rq[b]
    BY <1>1, <1>6, <1>15 DEF Buddied, SameBuddies, RunQueue, Maybe
  <2> QED
    BY <1>1, <1>15, <2>1 DEF Buddied, RunQueue
<1>19. Holds(q, QueuedIn(q) \ {q.curr})
  <2>1. QueuedIn(q) \ {q.curr} = S \ {t}
    BY <1>15, <1>16 DEF S
  <2> QED
    BY <1>13, <1>15, <2>1 DEF Holds, SameLine
<1>20. Sorted(r) => Sorted(q)
  BY <1>13, <1>15 DEF Sorted, SameLine, SameTimes
<1>21. r4.min_vruntime = c.min_vruntime /\ q.min_vruntime = r5.min_vruntime
  BY <1>4, <1>7, <1>8, <1>10, <1>15 DEF OnlyLine, SameTimes
<1>22. ASSUME NEW u \in Tasks, u # t
       PROVE  r4.vruntime[u] = ChargedTo(r, u)
  <2>1. r4.vruntime[u] = r3.vruntime[u] /\ r3.vruntime = c.vruntime
    BY <1>4, <1>7, <1>8, <1>10, <1>22 DEF OnlyLine, OnlyTimes, SameTimes
  <2> QED
    BY <1>2, <2>1
<1>23. ASSUME Charges(r) PROVE Forward(r, q)
  <2> DEFINE m == r.min_vruntime
             x == c.min_vruntime
             y == q.min_vruntime
  <2>1. m \in Ticks /\ x \in Ticks /\ y \in Ticks /\ ~ Before(x, m) /\ ~ Before(y, x)
    BY <1>1, <1>2, <1>12, <1>15, <1>21 DEF RunQueue, Forward
  <2>2. x = m \/ Quarter(Offset(x, m))
    BY <1>1, <1>2, <1>23, ChargedNear
  <2>3. y = x \/ Quarter(Offset(y, m))
    <3>1. CASE Earliest(r4) # r4.min_vruntime /\ r5.min_vruntime = Earliest(r4)
      <4>1. PICK u \in (S \ {t}) \cup {r4.curr} :
              u \in Tasks /\ (u \in S \ {t} \/ r4.on_rq[u]) /\ Earliest(r4) = r4.vruntime[u]
        BY <1>10, <1>11, <3>1, EarliestFrom
      <4>2. r4.on_rq = [r.on_rq EXCEPT ![t] = FALSE]
        BY <1>8, <1>10 DEF OnlyTimes
      <4>3. u # t /\ u \in QueuedIn(r)
        BY <1>1, <4>1, <4>2 DEF QueuedIn, RunQueue, S
      <4>4. y = ChargedTo(r, u)
        BY <1>21, <1>22, <3>1, <4>1, <4>3
      <4> QED
        BY <1>1, <1>23, <4>3, <4>4, ChargedNear
    <3>2. CASE r5.min_vruntime = r4.min_vruntime
      BY <1>21, <3>2
    <3> QED
      BY <1>12, <3>1, <3>2
  <2> HIDE DEF m, x, y
  <2>4. ~ Before(y, m)
    BY <2>1, <2>2, <2>3, StillForward
  <2> QED
    BY <2>4 DEF Forward, m, y
<1> QED
  BY <1>0, <1>15, <1>17, <1>18, <1>19, <1>20, <1>23 DEF QueueInv

-------------------------------------------------------------------------------
(* Picking the next task *)

\* put_prev_entity of the current entity: it goes back to the timeline if it
\* is still on the queue.
LEMMA PutPrev ==
  ASSUME NEW r, QueueInv(r), NEW t \in Tasks, r.curr = t
  PROVE  LET q == put_prev_entity(r, t)
         IN  /\ QueueInv(q) /\ q.curr = None /\ q.on_rq = r.on_rq
             /\ Sorted(r) /\ AllNear(q) => Sorted(q)
             /\ Forward(r, q) /\ (Settled(r) => q.min_vruntime = r.min_vruntime)
<1> DEFINE S  == QueuedIn(r) \ {t}
           c  == update_curr(r)
           r1 == IF r.on_rq[t] THEN enqueue_timeline(c, t) ELSE r
           q  == [r1 EXCEPT !.curr = None]
<1>0. put_prev_entity(r, t) = q
  BY DEF put_prev_entity
<1>1. r \in RunQueue /\ Holds(r, S) /\ Counted(r) /\ Buddied(r) /\ t \notin S /\ S \subseteq Tasks
  BY DEF QueueInv, QueuedIn
<1>2. QueuedIn(r) = IF r.on_rq[t] THEN S \cup {t} ELSE S
  BY DEF QueuedIn
<1> HIDE DEF S
<1>3. c \in RunQueue /\ OnlyTimes(r, c, t) /\ Forward(r, c) /\ (Settled(r) => c = r)
  BY <1>1, UpdateCurr DEF OnlyTimes, update_curr, Settled
<1>4. Holds(c, S) /\ (Sorted(r) => Sorted(c))
  BY <1>1, <1>3, TimesKeepLine
<1> HIDE DEF c
<1>5. /\ r1 \in RunQueue /\ Holds(r1, QueuedIn(r))
      /\ r1.on_rq = r.on_rq /\ SameCounts(r, r1) /\ SameBuddies(r, r1)
      /\ r1.min_vruntime \in {r.min_vruntime, c.min_vruntime}
  <2>1. CASE r.on_rq[t]
    <3>1. OnlyLine(c, r1) /\ Holds(r1, S \cup {t})
      BY <1>1, <1>3, <1>4, <2>1, Enqueue
    <3> QED
      BY <1>2, <1>3, <2>1, <3>1 DEF OnlyLine, OnlyTimes, SameCounts, SameBuddies, SameTimes
  <2>2. CASE ~ r.on_rq[t]
    BY <1>1, <1>2, <2>2 DEF SameCounts, SameBuddies
  <2> QED
    BY <2>1, <2>2
<1>6. ASSUME Sorted(r), \A u \in QueuedIn(r) : Near(r1, u)
      PROVE  Sorted(r1)
  <2>1. CASE r.on_rq[t]
    <3>1. OnlyLine(c, r1)
      BY <1>1, <1>3, <1>4, <2>1, Enqueue
    <3>2. \A u \in S \cup {t} : Near(c, u)
      BY <1>2, <1>6, <2>1, <3>1, NearSame DEF OnlyLine, SameTimes
    <3> QED
      BY <1>1, <1>3, <1>4, <1>6, <2>1, <3>2, EnqueueSorted
  <2>2. CASE ~ r.on_rq[t]
    BY <1>6, <2>2
  <2> QED
    BY <2>1, <2>2
<1> HIDE DEF r1
<1>7. /\ q \in RunQueue /\ q.curr = None /\ q.on_rq = r.on_rq
      /\ SameLine(r1, q) /\ SameTimes(r1, q) /\ SameCounts(r, q) /\ SameBuddies(r, q)
  <2>1. q \in RunQueue
    BY <1>5 DEF RunQueue, Maybe
  <2> QED
    BY <1>5, <2>1 DEF RunQueue, SameLine, SameTimes, SameCounts, SameBuddies
<1> HIDE DEF q
<1>8. QueuedIn(q) = QueuedIn(r) /\ QueuedIn(q) \ {q.curr} = QueuedIn(r)
  BY <1>7, CfsAssumption DEF QueuedIn
<1>9. Holds(q, QueuedIn(q) \ {q.curr})
  BY <1>5, <1>7, <1>8 DEF Holds, SameLine
<1>10. Counted(q) /\ Buddied(q)
  BY <1>1, <1>7, <1>8 DEF Counted, Buddied, SameCounts, SameBuddies
<1>11. ASSUME Sorted(r), AllNear(q) PROVE Sorted(q)
  <2>1. \A u \in QueuedIn(r) : Near(r1, u)
    BY <1>7, <1>8, <1>11, NearSame DEF AllNear, SameTimes
  <2>2. Sorted(r1)
    BY <1>6, <1>11, <2>1
  <2> QED
    BY <1>7, <2>2 DEF Sorted, SameLine, SameTimes
<1>12. Forward(r, q) /\ (Settled(r) => q.min_vruntime = r.min_vruntime)
  <2>1. q.min_vruntime \in {r.min_vruntime, c.min_vruntime}
    BY <1>5, <1>7 DEF SameTimes
  <2> QED
    BY <1>1, <1>3, <2>1, NotBefore DEF Forward
<1> QED
  BY <1>0, <1>7, <1>9, <1>10, <1>11, <1>12 DEF QueueInv

\* set_next_entity of a queued task while no entity is current.
LEMMA SetNext ==
  ASSUME NEW r, QueueInv(r), r.curr = None, NEW t \in Tasks, r.on_rq[t]
  PROVE  LET q == set_next_entity(clear_buddies(r, t), t)
         IN  /\ QueueInv(q) /\ q.curr = t /\ q.on_rq = r.on_rq
             /\ q.min_vruntime = r.min_vruntime /\ q.vruntime = r.vruntime
             /\ Sorted(r) => Sorted(q)
<1> DEFINE S  == QueuedIn(r)
           c  == clear_buddies(r, t)
           r1 == dequeue_timeline(c, t)
           q  == [r1 EXCEPT !.curr = t, !.ran = 0]
<1>1. r \in RunQueue /\ Holds(r, S) /\ Counted(r) /\ Buddied(r) /\ t \in S
  <2>1. S \ {None} = S
    BY CfsAssumption DEF QueuedIn
  <2> QED
    BY <2>1 DEF QueueInv, QueuedIn
<1>2. /\ c \in RunQueue /\ c.curr = r.curr /\ c.on_rq = r.on_rq
      /\ SameLine(r, c) /\ SameTimes(r, c) /\ SameCounts(r, c)
      /\ c.next = (IF r.next = t THEN None ELSE r.next)
      /\ c.last = (IF r.last = t THEN None ELSE r.last)
      /\ c.skip = (IF r.skip = t THEN None ELSE r.skip)
  BY <1>1, ClearBuddies
<1>3. set_next_entity(c, t) = q
  <2>1. c.on_rq[t]
    BY <1>2
  <2> HIDE DEF c
  <2> QED
    BY <2>1 DEF set_next_entity
<1> HIDE DEF c, S
<1>4. Holds(c, S) /\ (Sorted(r) => Sorted(c))
  BY <1>1, <1>2 DEF Holds, Sorted, SameLine, SameTimes
<1>5. r1 \in RunQueue /\ OnlyLine(c, r1) /\ Holds(r1, S \ {t}) /\ (Sorted(r) => Sorted(r1))
  BY <1>1, <1>2, <1>4, Dequeue, DequeueSorted DEF OnlyLine
<1> HIDE DEF r1
<1>6. /\ q \in RunQueue /\ q.curr = t /\ q.on_rq = r1.on_rq
      /\ q.min_vruntime = r1.min_vruntime /\ q.vruntime = r1.vruntime
      /\ SameLine(r1, q) /\ SameCounts(r1, q) /\ SameBuddies(r1, q)
  <2>1. q \in RunQueue
    BY <1>5 DEF RunQueue, Maybe
  <2> QED
    BY <1>5, <2>1 DEF RunQueue, SameLine, SameCounts, SameBuddies
<1> HIDE DEF q
<1>7. /\ q.on_rq = r.on_rq /\ q.min_vruntime = r.min_vruntime /\ q.vruntime = r.vruntime
      /\ SameCounts(r, q) /\ SameBuddies(c, q)
  BY <1>2, <1>5, <1>6 DEF OnlyLine, SameTimes, SameCounts, SameBuddies
<1>8. QueuedIn(q) = S /\ QueuedIn(q) \ {q.curr} = S \ {t}
  BY <1>6, <1>7 DEF QueuedIn, S
<1>9. Holds(q, QueuedIn(q) \ {q.curr})
  BY <1>5, <1>6, <1>8 DEF Holds, SameLine
<1>10. Counted(q)
  BY <1>1, <1>7, <1>8 DEF Counted, SameCounts, S
<1>11. Buddied(q)
  BY <1>1, <1>2, <1>7 DEF Buddied, SameBuddies
<1>12. Sorted(r) => Sorted(q)
  BY <1>5, <1>6 DEF Sorted, SameLine
<1> QED
  BY <1>3, <1>6, <1>7, <1>9, <1>10, <1>11, <1>12 DEF QueueInv, c

\* The entity picked is queued.
LEMMA PickNextEntity ==
  ASSUME NEW r, QueueInv(r), r.curr = None, pick_next_entity(r) # None
  PROVE  pick_next_entity(r) \in Tasks /\ r.on_rq[pick_next_entity(r)]
<1> DEFINE S == QueuedIn(r)
<1>1. r \in RunQueue /\ Holds(r, S) /\ Buddied(r)
  <2>1. S \ {None} = S
    BY CfsAssumption DEF QueuedIn
  <2> QED
    BY <2>1 DEF QueueInv
<1>2. \A b \in {r.next, r.last, r.skip} \ {None} : b \in S
  BY <1>1 DEF Buddied, QueuedIn, RunQueue, Maybe
<1>3. r.leftmost # None => r.leftmost \in S
  <2>1. r.timeline \in Seq(Tasks)
    BY <1>1 DEF RunQueue
  <2>2. r.timeline # << >> => Head(r.timeline) = r.timeline[1] /\ 1 \in DOMAIN r.timeline
    BY <2>1
  <2> QED
    BY <1>1, <2>2 DEF Holds, ToSet
<1> HIDE DEF S
<1>4. r.leftmost # None => TreeNext(r, r.leftmost) \in S \cup {None}
  BY <1>1, <1>3, TreeNextIs
<1>5. pick_next_entity(r) \in {r.next, r.last, r.leftmost, TreeNext(r, r.leftmost)} \ {None}
      /\ r.leftmost # None
  BY DEF pick_next_entity
<1>6. pick_next_entity(r) \in S
  BY <1>2, <1>3, <1>4, <1>5
<1> QED
  BY <1>6 DEF S, QueuedIn

\* The class's current entity is that of task t, and none if t is idle.
Runs(r, t) == r.curr = IF t = Idle THEN None ELSE t

\* update_curr between two entry points.
LEMMA UpdateCurrInv ==
  ASSUME NEW r, QueueInv(r)
  PROVE  LET q == update_curr(r)
         IN  /\ QueueInv(q) /\ Settled(q) /\ q.curr = r.curr /\ q.on_rq = r.on_rq
             /\ SameBuddies(r, q) /\ SameCounts(r, q)
             /\ Sorted(r) => Sorted(q)
             /\ Forward(r, q) /\ (Settled(r) => q = r)
<1> DEFINE q == update_curr(r)
           S == QueuedIn(r) \ {r.curr}
<1>1. r \in RunQueue /\ Holds(r, S) /\ Counted(r) /\ Buddied(r)
  BY DEF QueueInv
<1>2. q \in RunQueue /\ OnlyTimes(r, q, r.curr) /\ Settled(q) /\ Forward(r, q)
      /\ (Settled(r) => q = r)
  BY <1>1, UpdateCurr DEF OnlyTimes, update_curr, Settled
<1> HIDE DEF q
<1>3. Holds(q, S) /\ (Sorted(r) => Sorted(q))
  BY <1>1, <1>2, TimesKeepLine
<1>4. q.curr = r.curr /\ q.on_rq = r.on_rq /\ SameCounts(r, q) /\ SameBuddies(r, q)
  BY <1>2 DEF OnlyTimes
<1>5. QueuedIn(q) = QueuedIn(r)
  BY <1>4 DEF QueuedIn
<1>6. Counted(q) /\ Buddied(q)
  BY <1>1, <1>4, <1>5 DEF Counted, Buddied, SameCounts, SameBuddies
<1>7. QueueInv(q)
  BY <1>2, <1>3, <1>4, <1>5, <1>6 DEF QueueInv
<1> QED
  BY <1>2, <1>3, <1>4, <1>7 DEF q

\* Whichever task is picked, it is taken off the timeline and made current, and
\* the one before goes back to the timeline if it is still queued.
LEMMA PickNextTask ==
  ASSUME NEW r, QueueInv(r), NEW prev \in Tasks \cup {Idle}, Runs(r, prev)
  PROVE  LET p == pick_next_task(r, prev)
         IN  /\ QueueInv(p.rq) /\ p.rq.on_rq = r.on_rq
             /\ p.task \in Tasks \cup {Idle} /\ Runs(p.rq, p.task)
             /\ Sorted(r) /\ AllNear(p.rq) => Sorted(p.rq)
             /\ Forward(r, p.rq) /\ (Settled(r) => p.rq.min_vruntime = r.min_vruntime)
<1> DEFINE p == pick_next_task(r, prev)
           f == pick_next_task_fair(r, prev)
           Good(x, t) == /\ QueueInv(x) /\ x.on_rq = r.on_rq
                         /\ t \in Tasks \cup {Idle} /\ Runs(x, t)
                         /\ Sorted(r) /\ AllNear(x) => Sorted(x)
                         /\ Forward(r, x) /\ (Settled(r) => x.min_vruntime = r.min_vruntime)
<1>1. None \notin Tasks /\ Idle \notin Tasks /\ Idle # None /\ Forward(r, r)
  BY CfsAssumption, NotBefore DEF QueueInv, Forward
<1>2. ASSUME NEW x, f = Picked(x, None)
      PROVE  p = pick_next_task_idle(x, prev)
  BY <1>2 DEF pick_next_task, Picked
<1>3. ASSUME NEW x, NEW t, f = Picked(x, t), t # None
      PROVE  p.rq = x /\ p.task = t
  BY <1>3 DEF pick_next_task, Picked
<1>4. CASE r.nr = 0
  <2>1. f = Picked(r, None)
    BY <1>4 DEF pick_next_task_fair
  <2>2. p = pick_next_task_idle(r, prev)
    BY <1>2, <2>1
  <2>3. CASE prev = Idle
    <3>1. p.rq = r /\ p.task = Idle
      BY <2>2, <2>3 DEF pick_next_task_idle, Picked
    <3> QED
      BY <1>1, <2>3, <3>1
  <2>4. CASE prev # Idle
    <3>1. prev \in Tasks /\ r.curr = prev
      BY <2>4 DEF Runs
    <3>2. p.rq = put_prev_entity(r, prev) /\ p.task = Idle
      BY <2>2, <2>4, <3>1 DEF pick_next_task_idle, Picked
    <3>3. Good(put_prev_entity(r, prev), Idle)
      BY <3>1, PutPrev DEF Runs
    <3> QED
      BY <3>2, <3>3
  <2> QED
    BY <2>3, <2>4
<1>5. CASE r.nr # 0
  <2> DEFINE r1 == IF prev = Idle THEN r ELSE update_curr(r)
             r2 == IF prev = Idle THEN r1 ELSE put_prev_entity(r1, prev)
             t  == pick_next_entity(r2)
             n  == set_next_entity(clear_buddies(r2, t), t)
  <2>1. \/ f = Picked(r1, prev) /\ prev # Idle
        \/ f = Picked(r2, None)
        \/ f = Picked(n, t) /\ t # None
    <3> DEFINE stays == /\ prev # Idle /\ r1.on_rq[prev] /\ r1.leftmost # None
                        /\ entity_key(r1, prev) <= entity_key(r1, r1.leftmost)
    <3>1. f = IF stays THEN Picked(r1, prev)
              ELSE IF t = None THEN Picked(r2, None) ELSE Picked(n, t)
      BY <1>5 DEF pick_next_task_fair
    <3>2. stays => prev # Idle
      OBVIOUS
    <3> HIDE DEF stays, r1, r2, t, n, f
    <3> QED
      BY <3>1, <3>2
  <2>2. /\ QueueInv(r1) /\ r1.curr = r.curr /\ r1.on_rq = r.on_rq /\ (Sorted(r) => Sorted(r1))
        /\ Settled(r1) /\ Forward(r, r1) /\ (Settled(r) => r1.min_vruntime = r.min_vruntime)
    <3>1. CASE prev = Idle
      BY <1>1, <3>1 DEF Runs, Settled
    <3>2. CASE prev # Idle
      BY <3>2, UpdateCurrInv
    <3> QED
      BY <3>1, <3>2
  <2> HIDE DEF r1
  <2>3. /\ QueueInv(r2) /\ r2.curr = None /\ r2.on_rq = r.on_rq
        /\ Sorted(r) /\ AllNear(r2) => Sorted(r2)
        /\ r2.min_vruntime = r1.min_vruntime
    <3>1. CASE prev = Idle
      BY <2>2, <3>1 DEF Runs
    <3>2. CASE prev # Idle
      BY <2>2, <3>2, PutPrev DEF Runs
    <3> QED
      BY <3>1, <3>2
  <2> HIDE DEF r2
  <2>4. CASE f = Picked(r1, prev) /\ prev # Idle
    <3>1. p.rq = r1 /\ p.task = prev
      BY <1>1, <1>3, <2>4
    <3>2. Good(r1, prev)
      BY <2>2 DEF Runs
    <3> QED
      BY <3>1, <3>2
  <2>5. CASE f = Picked(r2, None)
    <3>1. p = pick_next_task_idle(r2, prev)
      BY <1>2, <2>5
    <3>2. p.rq = r2 /\ p.task = Idle
      BY <1>1, <2>3, <3>1 DEF pick_next_task_idle, Picked
    <3> QED
      BY <2>2, <2>3, <3>2 DEF Runs, Forward
  <2>6. CASE f = Picked(n, t) /\ t # None
    <3>1. p.rq = n /\ p.task = t
      BY <1>3, <2>6
    <3>2. t \in Tasks /\ r2.on_rq[t]
      BY <2>3, <2>6, PickNextEntity
    <3> HIDE DEF t
    <3>3. /\ QueueInv(n) /\ n.curr = t /\ n.on_rq = r2.on_rq
          /\ n.min_vruntime = r2.min_vruntime /\ n.vruntime = r2.vruntime
          /\ Sorted(r2) => Sorted(n)
      BY <2>3, <3>2, SetNext
    <3> HIDE DEF n
    <3>4. AllNear(n) => AllNear(r2)
      <4>1. QueuedIn(n) = QueuedIn(r2)
        BY <3>3 DEF QueuedIn
      <4> QED
        BY <3>3, <4>1, NearSame DEF AllNear
    <3>5. Good(n, t)
      BY <1>1, <2>2, <2>3, <3>2, <3>3, <3>4 DEF Runs, Forward
    <3> QED
      BY <3>1, <3>5
  <2> QED
    BY <2>1, <2>4, <2>5, <2>6
<1> QED
  <2>1. r.nr = 0 \/ r.nr # 0
    OBVIOUS
  <2> QED
    BY <1>4, <1>5, <2>1

-------------------------------------------------------------------------------
(* Waking and yielding *)

\* A queued task may be made any buddy.
LEMMA MarkBuddy ==
  ASSUME NEW r, QueueInv(r), NEW t \in Tasks, r.on_rq[t], NEW q,
         q \in {[r EXCEPT !.next = t], [r EXCEPT !.last = t], [r EXCEPT !.skip = t]}
  PROVE  /\ QueueInv(q) /\ q.curr = r.curr /\ q.on_rq = r.on_rq
         /\ SameLine(r, q) /\ SameTimes(r, q)
<1>1. r \in RunQueue /\ Holds(r, QueuedIn(r) \ {r.curr}) /\ Counted(r) /\ Buddied(r)
  BY DEF QueueInv
<1>2. q \in RunQueue
  BY <1>1 DEF RunQueue, Maybe
<1>3. /\ q.curr = r.curr /\ q.on_rq = r.on_rq
      /\ SameLine(r, q) /\ SameTimes(r, q) /\ SameCounts(r, q)
  BY <1>1 DEF RunQueue, SameLine, SameTimes, SameCounts
<1>4. q.next \in {r.next, t} /\ q.last \in {r.last, t} /\ q.skip \in {r.skip, t}
  BY <1>1 DEF RunQueue
<1>5. QueuedIn(q) = QueuedIn(r)
  BY <1>3 DEF QueuedIn
<1>6. Holds(q, QueuedIn(q) \ {q.curr}) /\ Counted(q)
  BY <1>1, <1>3, <1>5 DEF Holds, Counted, SameLine, SameCounts
<1>7. Buddied(q)
  BY <1>1, <1>3, <1>4 DEF Buddied
<1> QED
  BY <1>2, <1>3, <1>6, <1>7 DEF QueueInv

\* check_preempt_wakeup marks buddies and charges the current task.
LEMMA CheckPreempt ==
  ASSUME NEW r, QueueInv(r), NEW t \in Tasks, r.on_rq[t], NEW fork \in BOOLEAN,
         curr \in Tasks \cup {Idle}, Runs(r, curr), need_resched \in BOOLEAN
  PROVE  LET k == check_preempt_curr(r, t, fork)
         IN  /\ QueueInv(k.rq) /\ k.rq.curr = r.curr /\ k.rq.on_rq = r.on_rq
             /\ k.resched \in BOOLEAN
             /\ Sorted(r) => Sorted(k.rq)
             /\ Settled(r) => SameTimes(r, k.rq)
             /\ Forward(r, k.rq)
<1> DEFINE Good(x) == /\ QueueInv(x) /\ x.curr = r.curr /\ x.on_rq = r.on_rq
                      /\ Sorted(r) => Sorted(x)
                      /\ Settled(r) => SameTimes(r, x)
                      /\ Forward(r, x)
           k        == check_preempt_curr(r, t, fork)
           scale    == r.nr >= NrLatency
           marked   == NextBuddy /\ scale /\ ~ fork
           r1       == IF marked THEN [r EXCEPT !.next = t] ELSE r
           r2       == update_curr(r1)
           preempts == PreemptedBy(r2, curr, t)
           r3       == IF preempts /\ ~ marked THEN [r2 EXCEPT !.next = t] ELSE r2
           lasts    == preempts /\ r3.on_rq[curr] /\ LastBuddy /\ scale
           r4       == IF lasts THEN [r3 EXCEPT !.last = curr] ELSE r3
<1>1. k = IF curr = Idle THEN [rq |-> r, resched |-> TRUE]
          ELSE IF curr = t THEN [rq |-> r, resched |-> need_resched]
          ELSE IF need_resched THEN [rq |-> r1, resched |-> TRUE]
          ELSE [rq |-> r4, resched |-> preempts]
  BY DEF check_preempt_curr
<1>2. preempts \in BOOLEAN
  BY DEF PreemptedBy
<1>3. Good(r)
  BY NotBefore DEF SameTimes, QueueInv, Forward
<1>4. Good(r1) /\ r1.min_vruntime = r.min_vruntime
  <2>1. CASE marked
    BY <1>3, <2>1, MarkBuddy DEF Sorted, SameLine, SameTimes, Forward
  <2>2. CASE ~ marked
    BY <1>3, <2>2
  <2> HIDE DEF marked
  <2> QED
    BY <2>1, <2>2
<1> HIDE DEF marked, r1, k
<1>5. Good(r2)
  <2>1. /\ QueueInv(r2) /\ r2.curr = r1.curr /\ r2.on_rq = r1.on_rq
        /\ Sorted(r1) => Sorted(r2)
        /\ Forward(r1, r2)
    BY <1>4, UpdateCurrInv
  <2>2. ASSUME Settled(r) PROVE SameTimes(r, r2)
    <3>1. SameTimes(r, r1) /\ Settled(r1)
      BY <1>4, <2>2 DEF Settled, SameTimes
    <3>2. r2 = r1
      BY <3>1 DEF update_curr, Settled
    <3> QED
      BY <3>1, <3>2
  <2> QED
    BY <1>4, <2>1, <2>2 DEF Forward
<1> HIDE DEF r2, preempts
<1>6. Good(r3)
  <2>1. CASE preempts /\ ~ marked
    BY <1>5, <2>1, MarkBuddy DEF Sorted, SameLine, SameTimes, Forward
  <2>2. CASE ~ (preempts /\ ~ marked)
    BY <1>5, <2>2
  <2> QED
    BY <2>1, <2>2
<1> HIDE DEF r3, scale
<1>7. ASSUME curr # Idle PROVE Good(r4)
  <2>1. curr \in Tasks
    BY <1>7
  <2>2. CASE lasts
    <3>1. r3.on_rq[curr]
      BY <2>2
    <3> DEFINE q == [r3 EXCEPT !.last = curr]
    <3>2. r4 = q /\ q \in {[r3 EXCEPT !.next = curr], [r3 EXCEPT !.last = curr],
                           [r3 EXCEPT !.skip = curr]}
      BY <2>2
    <3> HIDE DEF q
    <3>3. QueueInv(q) /\ q.curr = r3.curr /\ q.on_rq = r3.on_rq
          /\ SameLine(r3, q) /\ SameTimes(r3, q)
      BY <1>6, <2>1, <3>1, <3>2, MarkBuddy
    <3>4. Good(q)
      BY <1>6, <3>3 DEF Sorted, SameLine, SameTimes, Forward
    <3> HIDE DEF r4
    <3> QED
      BY <3>2, <3>4
  <2>3. CASE ~ lasts
    BY <1>6, <2>3
  <2> HIDE DEF lasts
  <2> QED
    BY <2>2, <2>3
<1> HIDE DEF r4
<1>8. Good(k.rq) /\ k.resched \in BOOLEAN
  <2>1. CASE curr = Idle
    <3>1. k.rq = r /\ k.resched = TRUE
      BY <1>1, <2>1
    <3> QED
      BY <1>3, <3>1
  <2>2. CASE curr # Idle /\ curr = t
    <3>1. k.rq = r /\ k.resched = need_resched
      BY <1>1, <2>2
    <3> QED
      BY <1>3, <3>1
  <2>3. CASE curr # Idle /\ curr # t /\ need_resched
    <3>1. k.rq = r1 /\ k.resched = TRUE
      BY <1>1, <2>3
    <3> QED
      BY <1>4, <3>1
  <2>4. CASE curr # Idle /\ curr # t /\ ~ need_resched
    <3>1. k.rq = r4 /\ k.resched = preempts
      BY <1>1, <2>4
    <3> QED
      BY <1>2, <1>7, <2>4, <3>1
  <2> QED
    BY <2>1, <2>2, <2>3, <2>4
<1> QED
  BY <1>8 DEF k

\* yield_task_fair makes the current, queued task the one to skip.
LEMMA YieldTask ==
  ASSUME NEW r, QueueInv(r), curr \in Tasks, r.on_rq[curr]
  PROVE  LET q == yield_task_fair(r)
         IN  /\ QueueInv(q) /\ q.curr = r.curr /\ q.on_rq = r.on_rq /\ (Sorted(r) => Sorted(q))
             /\ Forward(r, q) /\ (q = r \/ Settled(q))
<1> DEFINE c == clear_buddies(r, curr)
           u == update_curr(c)
           n == [u EXCEPT !.skip = curr]
<1>1. r \in RunQueue /\ Holds(r, QueuedIn(r) \ {r.curr}) /\ Counted(r) /\ Buddied(r)
  BY DEF QueueInv
<1>2. /\ c \in RunQueue /\ c.curr = r.curr /\ c.on_rq = r.on_rq
      /\ SameLine(r, c) /\ SameTimes(r, c) /\ SameCounts(r, c)
      /\ c.next = (IF r.next = curr THEN None ELSE r.next)
      /\ c.last = (IF r.last = curr THEN None ELSE r.last)
      /\ c.skip = (IF r.skip = curr THEN None ELSE r.skip)
  BY <1>1, ClearBuddies
<1> HIDE DEF c
<1>3. QueueInv(c) /\ (Sorted(r) => Sorted(c))
  <2>1. QueuedIn(c) = QueuedIn(r)
    BY <1>2 DEF QueuedIn
  <2>2. Holds(c, QueuedIn(c) \ {c.curr}) /\ Counted(c) /\ (Sorted(r) => Sorted(c))
    BY <1>1, <1>2, <2>1 DEF Holds, Counted, Sorted, SameLine, SameCounts, SameTimes
  <2>3. Buddied(c)
    BY <1>1, <1>2 DEF Buddied
  <2> QED
    BY <1>2, <2>2, <2>3 DEF QueueInv
<1>4. QueueInv(u) /\ u.curr = c.curr /\ u.on_rq = c.on_rq /\ (Sorted(c) => Sorted(u))
      /\ Forward(c, u) /\ Settled(u)
  BY <1>3, UpdateCurrInv
<1> HIDE DEF u
<1>5. QueueInv(n) /\ n.curr = u.curr /\ n.on_rq = u.on_rq /\ SameLine(u, n) /\ SameTimes(u, n)
  <2>1. u.on_rq[curr]
    BY <1>2, <1>4
  <2>2. n \in {[u EXCEPT !.next = curr], [u EXCEPT !.last = curr], [u EXCEPT !.skip = curr]}
    OBVIOUS
  <2> HIDE DEF n
  <2> QED
    BY <1>4, <2>1, <2>2, MarkBuddy
<1>6. yield_task_fair(r) = IF r.nr_running = 1 THEN r ELSE n
  BY DEF yield_task_fair, u, c
<1> HIDE DEF n
<1>7. QueueInv(n) /\ n.curr = r.curr /\ n.on_rq = r.on_rq /\ (Sorted(r) => Sorted(n))
      /\ Forward(r, n) /\ Settled(n)
  BY <1>2, <1>3, <1>4, <1>5 DEF Sorted, SameLine, SameTimes, Forward, Settled
<1>8. yield_task_fair(r) = r \/ yield_task_fair(r) = n
  BY <1>6
<1> QED
  BY <1>1, <1>7, <1>8, NotBefore DEF Forward

-------------------------------------------------------------------------------
(* The steps *)

\* What a step must leave true.
Kept ==
  /\ QueueInv(rq')
  /\ curr' \in Tasks \cup {Idle} /\ Runs(rq', curr')
  /\ need_resched' \in BOOLEAN
  /\ state' \in [Tasks -> States]
  /\ \A t \in Tasks : state'[t] \in {"none", "new", "detached"} => ~ rq'.on_rq[t]
  /\ Sorted(rq) /\ AllNear(rq') => Sorted(rq')
  /\ Charges(rq) => Forward(rq, rq')

LEMMA InvFacts ==
  ASSUME Inv
  PROVE  /\ QueueInv(rq) /\ curr \in Tasks \cup {Idle} /\ Runs(rq, curr)
         /\ need_resched \in BOOLEAN /\ state \in [Tasks -> States]
         /\ \A t \in Tasks : state[t] \in {"none", "new", "detached"} => ~ rq.on_rq[t]
         /\ rq.on_rq \in [Tasks -> BOOLEAN]
         /\ Forward(rq, rq)
BY NotBefore DEF Inv, CurrentAgrees, Runs, OffQueue, QueueInv, RunQueue, Forward

LEMMA ScheduleStep ==
  ASSUME Inv, schedule
  PROVE  Kept
<1> DEFINE p == pick_next_task(rq, curr)
<1>1. /\ QueueInv(p.rq) /\ p.rq.on_rq = rq.on_rq
      /\ p.task \in Tasks \cup {Idle} /\ Runs(p.rq, p.task)
      /\ Sorted(rq) /\ AllNear(p.rq) => Sorted(p.rq)
      /\ Forward(rq, p.rq)
  BY InvFacts, PickNextTask
<1>2. rq' = p.rq /\ curr' = p.task /\ need_resched' = FALSE /\ state' = state
  BY DEF schedule
<1> HIDE DEF p
<1> QED
  BY <1>1, <1>2, InvFacts DEF Kept

LEMMA YieldStep ==
  ASSUME Inv, yield
  PROVE  Kept
<1> DEFINE y == yield_task_fair(rq)
           p == pick_next_task(y, curr)
<1>1. /\ curr # Idle /\ rq.on_rq[curr] /\ state' = [state EXCEPT ![curr] = "running"]
      /\ rq' = p.rq /\ curr' = p.task /\ need_resched' = FALSE
  BY DEF yield
<1>2. curr \in Tasks
  BY <1>1, InvFacts
<1>3. QueueInv(y) /\ y.curr = rq.curr /\ y.on_rq = rq.on_rq /\ (Sorted(rq) => Sorted(y))
      /\ Forward(rq, y) /\ (y = rq \/ Settled(y))
  BY <1>1, <1>2, InvFacts, YieldTask
<1> HIDE DEF y
<1>4. Runs(y, curr)
  BY <1>3, InvFacts DEF Runs
<1>5. /\ QueueInv(p.rq) /\ p.rq.on_rq = y.on_rq
      /\ p.task \in Tasks \cup {Idle} /\ Runs(p.rq, p.task)
      /\ Sorted(y) /\ AllNear(p.rq) => Sorted(p.rq)
      /\ Forward(y, p.rq) /\ (Settled(y) => p.rq.min_vruntime = y.min_vruntime)
  BY <1>3, <1>4, InvFacts, PickNextTask
<1> HIDE DEF p
<1>6. state' \in [Tasks -> States]
      /\ \A t \in Tasks : state'[t] \in {"none", "new", "detached"} => ~ rq.on_rq[t]
  BY <1>1, InvFacts DEF States
<1>7. Forward(rq, p.rq)
  BY <1>3, <1>5 DEF Forward
<1> QED
  BY <1>1, <1>3, <1>5, <1>6, <1>7 DEF Kept

LEMMA TickStep ==
  ASSUME Inv, Tick
  PROVE  Kept
<1>1. rq' = [rq EXCEPT !.ran = @ + 1] /\ curr' = curr /\ need_resched' = need_resched /\ state' = state
  BY DEF Tick
<1>2. rq \in RunQueue /\ Holds(rq, QueuedIn(rq) \ {rq.curr}) /\ Counted(rq) /\ Buddied(rq)
  BY InvFacts DEF QueueInv
<1>3. rq.ran + 1 \in Nat
  BY <1>2 DEF RunQueue
<1>4. rq' \in RunQueue
  BY <1>1, <1>2, <1>3 DEF RunQueue
<1>5. /\ rq'.curr = rq.curr /\ rq'.on_rq = rq.on_rq /\ rq'.vruntime = rq.vruntime
      /\ SameLine(rq, rq') /\ SameCounts(rq, rq') /\ SameBuddies(rq, rq')
      /\ rq'.min_vruntime = rq.min_vruntime
  BY <1>1, <1>2 DEF RunQueue, SameLine, SameCounts, SameBuddies
<1>6. QueuedIn(rq') = QueuedIn(rq)
  BY <1>5 DEF QueuedIn
<1>7. QueueInv(rq') /\ (Sorted(rq) => Sorted(rq'))
  BY <1>2, <1>4, <1>5, <1>6
  DEF QueueInv, Holds, Counted, Buddied, Sorted, SameLine, SameCounts, SameBuddies
<1> QED
  BY <1>1, <1>5, <1>7, InvFacts DEF Kept, Runs, Forward

LEMMA ForkStep ==
  ASSUME Inv, ~ CopiesOnRq, NEW t \in Tasks, sched_fork(t)
  PROVE  Kept
<1> DEFINE q == [rq EXCEPT !.vruntime[t] = 0]
<1>1. ~ rq.on_rq[t]
  BY InvFacts DEF sched_fork
<1>2. rq \in RunQueue /\ Holds(rq, QueuedIn(rq) \ {rq.curr}) /\ Counted(rq) /\ Buddied(rq)
  BY InvFacts DEF QueueInv
<1>3. OnlyTimes(rq, q, t) /\ q.min_vruntime = rq.min_vruntime
  <2>1. 0 \in Ticks
    BY Wraps DEF Ticks
  <2> QED
    BY <1>2, <2>1, SetVruntime
<1>4. rq' = q /\ state' = [state EXCEPT ![t] = "new"] /\ curr' = curr /\ need_resched' = need_resched
  <2>1. rq' = [rq EXCEPT !.vruntime[t] = 0,
                         !.on_rq[t] = CopiesOnRq /\ curr # Idle /\ rq.on_rq[curr]]
    BY DEF sched_fork
  <2>2. (CopiesOnRq /\ curr # Idle /\ rq.on_rq[curr]) = FALSE
    OBVIOUS
  <2>3. [rq.on_rq EXCEPT ![t] = FALSE] = rq.on_rq
    BY <1>1, InvFacts
  <2>4. rq' = q
    BY <1>2, <2>1, <2>2, <2>3 DEF RunQueue
  <2> QED
    BY <2>4 DEF sched_fork
<1> HIDE DEF q
<1>5. q.curr = rq.curr /\ q.on_rq = rq.on_rq /\ QueuedIn(q) = QueuedIn(rq)
  BY <1>3 DEF OnlyTimes, QueuedIn
<1>6. Holds(q, QueuedIn(q) \ {q.curr}) /\ (Sorted(rq) => Sorted(q))
  <2>1. t \notin QueuedIn(rq) \ {rq.curr}
    BY <1>1 DEF QueuedIn
  <2> QED
    BY <1>2, <1>3, <1>5, <2>1, TimesKeepLine
<1>7. QueueInv(q)
  BY <1>2, <1>3, <1>5, <1>6
  DEF QueueInv, OnlyTimes, Counted, Buddied, SameCounts, SameBuddies
<1>8. state' \in [Tasks -> States]
      /\ \A u \in Tasks : state'[u] \in {"none", "new", "detached"} => ~ rq.on_rq[u]
  BY <1>1, <1>4, InvFacts DEF States
<1> QED
  BY <1>3, <1>4, <1>5, <1>6, <1>7, <1>8, InvFacts DEF Kept, Runs, Forward

\* Waking a task that the queue has, or has just got.
LEMMA WakeStep ==
  ASSUME Inv, NEW r, QueueInv(r), Runs(r, curr), NEW t \in Tasks, r.on_rq[t],
         NEW fork \in BOOLEAN, Wake(r, t, fork),
         Sorted(rq) /\ AllNear(r) => Sorted(r),
         (Settled(r) /\ Forward(rq, r)) \/ r = rq
  PROVE  /\ QueueInv(rq') /\ rq'.on_rq = r.on_rq
         /\ curr' \in Tasks \cup {Idle} /\ Runs(rq', curr')
         /\ need_resched' \in BOOLEAN
         /\ Sorted(rq) /\ AllNear(rq') => Sorted(rq')
         /\ Forward(rq, rq')
<1> DEFINE k == check_preempt_curr(r, t, fork)
<1>1. rq' = k.rq /\ need_resched' = k.resched /\ curr' = curr
  BY DEF Wake
<1>2. /\ QueueInv(k.rq) /\ k.rq.curr = r.curr /\ k.rq.on_rq = r.on_rq
      /\ k.resched \in BOOLEAN
      /\ Sorted(r) => Sorted(k.rq)
      /\ Settled(r) => SameTimes(r, k.rq)
      /\ Forward(r, k.rq)
  BY InvFacts, CheckPreempt
<1> HIDE DEF k
<1>3. ASSUME Sorted(rq), AllNear(k.rq) PROVE Sorted(k.rq)
  <2>1. CASE Settled(r)
    <3>1. k.rq.min_vruntime = r.min_vruntime /\ k.rq.vruntime = r.vruntime
      BY <1>2, <2>1 DEF SameTimes
    <3>2. QueuedIn(k.rq) = QueuedIn(r)
      BY <1>2 DEF QueuedIn
    <3>3. \A u \in QueuedIn(r) : Near(r, u)
      BY <1>3, <3>1, <3>2, NearSame DEF AllNear
    <3> QED
      BY <1>2, <1>3, <3>3 DEF AllNear
  <2>2. CASE r = rq
    BY <1>2, <1>3, <2>2
  <2> QED
    BY <2>1, <2>2
<1>4. Runs(k.rq, curr)
  BY <1>2 DEF Runs
<1>5. Forward(rq, k.rq)
  BY <1>2 DEF Forward, SameTimes
<1> QED
  BY <1>1, <1>2, <1>3, <1>4, <1>5, InvFacts

LEMMA WakeNewStep ==
  ASSUME Inv, NEW t \in Tasks, wake_up_new_task(t)
  PROVE  Kept
<1> DEFINE q == enqueue_task_fair(rq, t, FALSE)
<1>1. ~ rq.on_rq[t] /\ state' = [state EXCEPT ![t] = "running"] /\ Wake(q, t, TRUE)
  BY InvFacts DEF wake_up_new_task
<1>2. /\ QueueInv(q) /\ Settled(q)
      /\ q.curr = rq.curr /\ q.on_rq = [rq.on_rq EXCEPT ![t] = TRUE]
      /\ Sorted(rq) /\ AllNear(q) => Sorted(q)
      /\ Forward(rq, q)
  BY <1>1, InvFacts, EnqueueTask
<1> HIDE DEF q
<1>3. Runs(q, curr) /\ q.on_rq[t]
  BY <1>2, InvFacts DEF Runs
<1>4. /\ QueueInv(rq') /\ rq'.on_rq = q.on_rq
      /\ curr' \in Tasks \cup {Idle} /\ Runs(rq', curr')
      /\ need_resched' \in BOOLEAN
      /\ Sorted(rq) /\ AllNear(rq') => Sorted(rq')
      /\ Forward(rq, rq')
  BY <1>1, <1>2, <1>3, WakeStep
<1>5. state' \in [Tasks -> States]
      /\ \A u \in Tasks : state'[u] \in {"none", "new", "detached"} => ~ rq'.on_rq[u]
  BY <1>1, <1>2, <1>4, InvFacts DEF States
<1> QED
  BY <1>4, <1>5 DEF Kept

LEMMA WakeProcessStep ==
  ASSUME Inv, NEW t \in Tasks, wake_up_process(t)
  PROVE  Kept
<1> DEFINE e == enqueue_task_fair(rq, t, TRUE)
           q == IF rq.on_rq[t] THEN rq ELSE e
<1>1. state' = [state EXCEPT ![t] = "running"] /\ Wake(q, t, FALSE)
  BY DEF wake_up_process
<1>2. /\ QueueInv(q) /\ Runs(q, curr) /\ q.on_rq = [rq.on_rq EXCEPT ![t] = TRUE]
      /\ Sorted(rq) /\ AllNear(q) => Sorted(q)
      /\ (Settled(q) /\ Forward(rq, q)) \/ q = rq
  <2>1. CASE rq.on_rq[t]
    BY <2>1, InvFacts
  <2>2. CASE ~ rq.on_rq[t]
    <3>1. /\ QueueInv(e) /\ Settled(e)
          /\ e.curr = rq.curr /\ e.on_rq = [rq.on_rq EXCEPT ![t] = TRUE]
          /\ Sorted(rq) /\ AllNear(e) => Sorted(e)
          /\ Forward(rq, e)
      BY <2>2, InvFacts, EnqueueTask
    <3> HIDE DEF e
    <3> QED
      BY <2>2, <3>1, InvFacts DEF Runs
  <2> QED
    BY <2>1, <2>2
<1> HIDE DEF q
<1>3. q.on_rq[t]
  BY <1>2, InvFacts
<1>4. /\ QueueInv(rq') /\ rq'.on_rq = q.on_rq
      /\ curr' \in Tasks \cup {Idle} /\ Runs(rq', curr')
      /\ need_resched' \in BOOLEAN
      /\ Sorted(rq) /\ AllNear(rq') => Sorted(rq')
      /\ Forward(rq, rq')
  BY <1>1, <1>2, <1>3, WakeStep
<1>5. state' \in [Tasks -> States]
      /\ \A u \in Tasks : state'[u] \in {"none", "new", "detached"} => ~ rq'.on_rq[u]
  BY <1>1, <1>2, <1>4, InvFacts DEF States
<1> QED
  BY <1>4, <1>5 DEF Kept

LEMMA ActivateStep ==
  ASSUME Inv, NEW t \in Tasks, activate_task(t)
  PROVE  Kept
<1> DEFINE q == enqueue_task_fair(rq, t, FALSE)
<1>1. /\ ~ rq.on_rq[t] /\ state' = [state EXCEPT ![t] = "running"]
      /\ rq' = q /\ curr' = curr /\ need_resched' = need_resched
  BY InvFacts DEF activate_task
<1>2. /\ QueueInv(q) /\ q.curr = rq.curr /\ q.on_rq = [rq.on_rq EXCEPT ![t] = TRUE]
      /\ Sorted(rq) /\ AllNear(q) => Sorted(q)
      /\ Forward(rq, q)
  BY <1>1, InvFacts, EnqueueTask
<1> HIDE DEF q
<1>3. state' \in [Tasks -> States]
      /\ \A u \in Tasks : state'[u] \in {"none", "new", "detached"} => ~ q.on_rq[u]
  BY <1>1, <1>2, InvFacts DEF States
<1> QED
  BY <1>1, <1>2, <1>3, InvFacts DEF Kept, Runs

LEMMA DeactivateStep ==
  ASSUME Inv, NEW t \in Tasks, NEW sleep \in BOOLEAN, deactivate_task(t, sleep)
  PROVE  Kept
<1> DEFINE q == dequeue_task_fair(rq, t, sleep)
<1>1. /\ rq.on_rq[t] /\ state' = [state EXCEPT ![t] = IF sleep THEN @ ELSE "detached"]
      /\ rq' = q /\ curr' = curr /\ need_resched' = need_resched
  BY DEF deactivate_task
<1>2. /\ QueueInv(q) /\ q.curr = rq.curr /\ q.on_rq = [rq.on_rq EXCEPT ![t] = FALSE]
      /\ Sorted(rq) => Sorted(q)
      /\ Charges(rq) => Forward(rq, q)
  BY <1>1, InvFacts, DequeueTask
<1> HIDE DEF q
<1>3. state' \in [Tasks -> States]
      /\ \A u \in Tasks : state'[u] \in {"none", "new", "detached"} => ~ q.on_rq[u]
  BY <1>1, <1>2, InvFacts DEF States
<1> QED
  BY <1>1, <1>2, <1>3, InvFacts DEF Kept, Runs

LEMMA SleepStep ==
  ASSUME Inv, NEW t \in Tasks, PrepareToSleep(t)
  PROVE  Kept
<1>1. /\ state' = [state EXCEPT ![t] = "sleeping"]
      /\ rq' = rq /\ curr' = curr /\ need_resched' = need_resched
  BY DEF PrepareToSleep
<1>2. state' \in [Tasks -> States]
      /\ \A u \in Tasks : state'[u] \in {"none", "new", "detached"} => ~ rq.on_rq[u]
  BY <1>1, InvFacts DEF States
<1> QED
  BY <1>1, <1>2, InvFacts DEF Kept

LEMMA StepKept ==
  ASSUME Inv, ~ CopiesOnRq, [Next]_vars
  PROVE  Kept
<1>1. CASE UNCHANGED vars
  BY <1>1, InvFacts DEF Kept, vars
<1>2. CASE Next
  BY <1>2, ScheduleStep, YieldStep, TickStep, ForkStep, WakeNewStep, SleepStep,
     WakeProcessStep, ActivateStep, DeactivateStep DEF Next
<1> QED
  BY <1>1, <1>2

-------------------------------------------------------------------------------
(* The theorems *)

Ordered == Sorted(rq)

LEMMA InitInv ==
  ASSUME Init
  PROVE  Inv /\ Ordered
<1>1. /\ curr = Idle /\ need_resched = FALSE /\ state = [t \in Tasks |-> "none"]
      /\ rq = [timeline |-> << >>, leftmost |-> None, curr |-> None, min_vruntime |-> 0,
               next |-> None, last |-> None, skip |-> None, nr |-> 0, h_nr |-> 0,
               nr_running |-> 0, vruntime |-> [t \in Tasks |-> 0],
               on_rq |-> [t \in Tasks |-> FALSE], ran |-> 0]
  BY DEF Init
<1>2. rq \in RunQueue
  <2>1. 0 \in Ticks /\ << >> \in Seq(Tasks) /\ None \in Maybe
    BY Wraps DEF Ticks, Maybe
  <2>2. [t \in Tasks |-> 0] \in [Tasks -> Ticks]
    BY <2>1
  <2> QED
    BY <1>1, <2>1, <2>2 DEF RunQueue
<1>3. QueuedIn(rq) = {}
  BY <1>1 DEF QueuedIn
<1>4. Holds(rq, QueuedIn(rq) \ {rq.curr}) /\ Ordered
  <2>1. rq.timeline = << >> /\ rq.leftmost = None /\ DOMAIN rq.timeline = {}
    BY <1>1
  <2> QED
    BY <1>3, <2>1 DEF Holds, IsInjective, ToSet, Ordered, Sorted
<1>5. Counted(rq)
  BY <1>1, <1>3, FS_EmptySet DEF Counted
<1>6. Buddied(rq)
  BY <1>1 DEF Buddied
<1>7. state \in [Tasks -> States] /\ OffQueue
  BY <1>1 DEF States, OffQueue
<1> QED
  BY <1>1, <1>2, <1>4, <1>5, <1>6, <1>7 DEF Inv, QueueInv, CurrentAgrees

LEMMA StepInv ==
  ASSUME Inv, ~ CopiesOnRq, [Next]_vars
  PROVE  /\ Inv'
         /\ Ordered /\ InWindow' => Ordered'
         /\ InWindow => ~ Before(rq'.min_vruntime, rq.min_vruntime)
<1>1. Kept
  BY StepKept
<1>2. Inv'
  BY <1>1 DEF Kept, Inv, CurrentAgrees, Runs, OffQueue
<1>3. ASSUME InWindow' PROVE AllNear(rq')
  <2> SUFFICES ASSUME NEW t \in QueuedIn(rq') PROVE Near(rq', t)
    BY DEF AllNear
  <2>1. rq' \in RunQueue /\ t \in Tasks /\ rq'.on_rq[t]
    BY <1>1 DEF Kept, QueueInv, QueuedIn
  <2> DEFINE k == entity_key(rq', t)
             c == IF t = rq'.curr THEN rq'.ran * Scale[t] ELSE 0
  <2>2. -U64 < 4 * k /\ 4 * (k + c) < U64
    BY <1>3, <2>1 DEF InWindow, Uncharged, Queued
  <2>3. k \in Int /\ U64 \in Nat
    <3>1. rq'.vruntime[t] - rq'.min_vruntime \in Int
      <4>1. rq'.vruntime[t] \in Ticks /\ rq'.min_vruntime \in Ticks
        BY <2>1 DEF RunQueue
      <4> QED
        BY <4>1 DEF Ticks
    <3>2. (rq'.vruntime[t] - rq'.min_vruntime) % U64 \in Ticks /\ U64 \in Nat
      BY <3>1, Wraps
    <3> QED
      BY <3>2 DEF entity_key, Ticks
  <2>4. c \in Nat
    <3>1. rq'.ran \in Nat /\ Scale[t] \in Nat
      BY <2>1, CfsAssumption DEF RunQueue
    <3>2. rq'.ran * Scale[t] \in Nat
      BY <3>1
    <3> QED
      BY <3>2
  <2> HIDE DEF k, c
  <2>5. 4 * k < U64 /\ -U64 < 4 * k
    BY <2>2, <2>3, <2>4
  <2> QED
    BY <2>5 DEF k, Near
<1>4. InWindow => Charges(rq)
  BY DEF InWindow, Charges, Uncharged, Queued, QueuedIn
<1> QED
  BY <1>1, <1>2, <1>3, <1>4 DEF Kept, Ordered, Forward

\* The inductive invariant: the timeline holds the queued tasks but the
\* current one, the counters count them, buddies are queued, the class's
\* current entity is the running task, and a task that is new or detached is
\* off the queue.
THEOREM CfsInv ==
  ASSUME ~ CopiesOnRq
  PROVE  Spec => []Inv
<1>1. Init => Inv
  BY InitInv
<1>2. Inv /\ [Next]_vars => Inv'
  BY StepInv
<1> QED
  BY <1>1, <1>2, PTL DEF Spec

\* Whatever the order of forks, sleeps, wake-ups, yields and switches, every
\* queued task is the current one or in the timeline, once.
THEOREM CfsTimelineComplete ==
  ASSUME ~ CopiesOnRq
  PROVE  Spec => []TimelineComplete
<1>1. Inv => TimelineComplete
  BY DEF Inv, QueueInv, Holds, TimelineComplete, Queued, QueuedIn
<1> QED
  BY <1>1, CfsInv, PTL

\* cfs_rq's cached leftmost pointer is the first entity of the timeline, though
\* insertions and removals update it without looking at the tree.
THEOREM CfsLeftmostCached ==
  ASSUME ~ CopiesOnRq
  PROVE  Spec => []LeftmostCached
<1>1. Inv => LeftmostCached
  BY DEF Inv, QueueInv, Holds, LeftmostCached
<1> QED
  BY <1>1, CfsInv, PTL

\* cfs.nr_running, cfs.h_nr_running and rq->nr_running all count the queued
\* tasks.
THEOREM CfsCountersExact ==
  ASSUME ~ CopiesOnRq
  PROVE  Spec => []CountersExact
<1>1. Inv => CountersExact
  BY DEF Inv, QueueInv, Counted, CountersExact, Queued, QueuedIn
<1> QED
  BY <1>1, CfsInv, PTL

\* rq->nr_running is the number of tasks schedule() can pick or keep: what
\* dup_task_struct's copy of on_rq breaks.
THEOREM CfsNrRunningIsRunnable ==
  ASSUME ~ CopiesOnRq
  PROVE  Spec => []NrRunningIsRunnable
<1>1. ASSUME Inv PROVE NrRunningIsRunnable
  <2>1. rq.curr \in Maybe /\ ToSet(rq.timeline) = QueuedIn(rq) \ {rq.curr}
        /\ rq.nr_running = Cardinality(QueuedIn(rq))
    BY <1>1 DEF Inv, QueueInv, Holds, Counted, RunQueue
  <2>2. ToSet(rq.timeline) \cup {t \in {rq.curr} \ {None} : rq.on_rq[t]} = QueuedIn(rq)
    BY <2>1, CfsAssumption DEF QueuedIn, Maybe
  <2> QED
    BY <2>1, <2>2 DEF NrRunningIsRunnable
<1> QED
  BY <1>1, CfsInv, PTL

\* cfs.curr is the entity of the task that runs, and none while idle runs.
THEOREM CfsCurrentAgrees ==
  ASSUME ~ CopiesOnRq
  PROVE  Spec => []CurrentAgrees
<1>1. Inv => CurrentAgrees
  BY DEF Inv
<1> QED
  BY <1>1, CfsInv, PTL

\* A buddy is on the queue, so pick_next_entity never picks a sleeping task.
THEOREM CfsBuddiesQueued ==
  ASSUME ~ CopiesOnRq
  PROVE  Spec => []BuddiesQueued
<1>1. Inv => BuddiesQueued
  BY DEF Inv, QueueInv, Buddied, BuddiesQueued
<1> QED
  BY <1>1, CfsInv, PTL

\* While the queued tasks' vruntimes stay within a quarter of the range of a
\* u64 of min_vruntime, the timeline is in vruntime order, wherever the wrap is.
THEOREM CfsTimelineOrdered ==
  ASSUME ~ CopiesOnRq
  PROVE  Spec /\ []InWindow => []TimelineOrdered
<1>1. Init => Inv /\ Ordered
  BY InitInv
<1>2. (Inv /\ Ordered) /\ InWindow' /\ [Next]_vars => (Inv /\ Ordered)'
  BY StepInv
<1>3. Inv /\ Ordered => TimelineOrdered
  BY DEF Inv, QueueInv, Holds, Ordered, Sorted, TimelineOrdered, LeftmostCached
<1> QED
  BY <1>1, <1>2, <1>3, PTL DEF Spec

\* Under the same hypothesis min_vruntime never goes back, even in the one
\* operation that moves it twice, taking a task off the queue.
THEOREM CfsMinVruntimeMonotone ==
  ASSUME ~ CopiesOnRq
  PROVE  Spec /\ []InWindow => MinVruntimeMonotone
<1>1. Inv /\ InWindow /\ [Next]_vars => [~ Before(rq'.min_vruntime, rq.min_vruntime)]_vars
  BY StepInv
<1>2. Spec => []Inv
  BY CfsInv
<1> QED
  BY <1>1, <1>2, PTL DEF Spec, MinVruntimeMonotone
================================================================================
