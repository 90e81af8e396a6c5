--------------------------- MODULE LinkedListProofs ---------------------------
(***************************************************************************)
(* Proofs about the circular lists, for any sets of heads and nodes and    *)
(* any sequence of operations, the ones that move nodes between lists      *)
(* included.                                                               *)
(*                                                                         *)
(* The invariant is a predicate on a memory, the sequences and the ready   *)
(* heads, so that an operation made of two (list_move deletes and adds) is *)
(* reasoned about as two: each pointer operation gets a lemma that says    *)
(* from which sequences it leads to which.                                 *)
(***************************************************************************)
EXTENDS LinkedList, DataLemmas

Words  == Cells \cup {Poison1, Poison2}
Memory == [next : [Cells -> Words], prev : [Cells -> Words]]

\* The cells of the ring of head h and nodes s: the head, the nodes, the head.
Cell(h, s, i) == IF i \in 1 .. Len(s) THEN s[i] ELSE h

Linked(m, h, s) ==
  \A i \in 0 .. Len(s) : /\ m.next[Cell(h, s, i)] = Cell(h, s, i + 1)
                         /\ m.prev[Cell(h, s, i + 1)] = Cell(h, s, i)

\* No node is on two lists, or twice on one.
Apart(L) ==
  \A g, h \in Heads : \A i \in 1 .. Len(L[g]), j \in 1 .. Len(L[h]) :
    L[g][i] = L[h][j] => g = h /\ i = j

\* x is on none of them.
OffLists(x, L) == \A h \in Heads : \A i \in 1 .. Len(L[h]) : L[h][i] # x

Coherent(m, L, R) ==
  /\ m \in Memory
  /\ L \in [Heads -> Seq(Nodes)]
  /\ R \in SUBSET Heads
  /\ Apart(L)
  /\ \A h \in Heads \ R : Len(L[h]) = 0
  /\ \A h \in R : Linked(m, h, L[h])

Inv == Coherent(mem, lists, ready)

\* Two memories that differ at the cells of C only.
SameOutside(m, w, C) ==
  \A y \in Cells \ C : w.next[y] = m.next[y] /\ w.prev[y] = m.prev[y]

-------------------------------------------------------------------------------
(* Pointer assignments *)

\* One assignment to a next word.
LEMMA SetNextFacts ==
  ASSUME NEW m \in Memory, NEW x \in Cells, NEW v \in Words
  PROVE  /\ SetNext(m, x, v) \in Memory
         /\ \A y \in Cells : /\ SetNext(m, x, v).next[y] = IF y = x THEN v ELSE m.next[y]
                             /\ SetNext(m, x, v).prev[y] = m.prev[y]
BY DEF SetNext, Memory

\* One assignment to a prev word.
LEMMA SetPrevFacts ==
  ASSUME NEW m \in Memory, NEW x \in Cells, NEW v \in Words
  PROVE  /\ SetPrev(m, x, v) \in Memory
         /\ \A y \in Cells : /\ SetPrev(m, x, v).prev[y] = IF y = x THEN v ELSE m.prev[y]
                             /\ SetPrev(m, x, v).next[y] = m.next[y]
BY DEF SetPrev, Memory

\* INIT_LIST_HEAD makes x point at itself.
LEMMA InitFacts ==
  ASSUME NEW m \in Memory, NEW x \in Cells
  PROVE  LET w == INIT_LIST_HEAD(m, x)
         IN  w \in Memory /\ w.next[x] = x /\ w.prev[x] = x /\ SameOutside(m, w, {x})
<1> DEFINE a == SetNext(m, x, x)
           b == SetPrev(a, x, x)
<1>0. x \in Words
  BY DEF Words
<1>1. a \in Memory /\ \A y \in Cells : /\ a.next[y] = IF y = x THEN x ELSE m.next[y]
                                      /\ a.prev[y] = m.prev[y]
  BY <1>0, SetNextFacts
<1> HIDE DEF a
<1>2. b \in Memory /\ \A y \in Cells : /\ b.prev[y] = IF y = x THEN x ELSE a.prev[y]
                                      /\ b.next[y] = a.next[y]
  BY <1>0, <1>1, SetPrevFacts
<1>3. b = INIT_LIST_HEAD(m, x)
  BY DEF INIT_LIST_HEAD, a
<1> HIDE DEF b
<1> QED
  BY <1>1, <1>2, <1>3 DEF SameOutside

\* list_del poisons the node it removed.
LEMMA PoisonFacts ==
  ASSUME NEW m \in Memory, NEW x \in Cells
  PROVE  Poison(m, x) \in Memory /\ SameOutside(m, Poison(m, x), {x})
<1> DEFINE a == SetNext(m, x, Poison1)
           b == SetPrev(a, x, Poison2)
<1>0. Poison1 \in Words /\ Poison2 \in Words
  BY DEF Words
<1>1. a \in Memory /\ \A y \in Cells : /\ a.next[y] = IF y = x THEN Poison1 ELSE m.next[y]
                                      /\ a.prev[y] = m.prev[y]
  BY <1>0, SetNextFacts
<1> HIDE DEF a
<1>2. b \in Memory /\ \A y \in Cells : /\ b.prev[y] = IF y = x THEN Poison2 ELSE a.prev[y]
                                      /\ b.next[y] = a.next[y]
  BY <1>0, <1>1, SetPrevFacts
<1>3. b = Poison(m, x)
  BY DEF Poison, a
<1> HIDE DEF b
<1> QED
  BY <1>1, <1>2, <1>3 DEF SameOutside

\* __list_add, word by word.
LEMMA LinkBetweenFacts ==
  ASSUME NEW m \in Memory, NEW new \in Cells, NEW p \in Cells, NEW n \in Cells,
         new # p, new # n
  PROVE  LET w == LinkBetween(m, new, p, n)
         IN  /\ w \in Memory
             /\ \A y \in Cells :
                  /\ w.next[y] = IF y = p THEN new ELSE IF y = new THEN n ELSE m.next[y]
                  /\ w.prev[y] = IF y = n THEN new ELSE IF y = new THEN p ELSE m.prev[y]
<1> DEFINE a == SetPrev(m, n, new)
           b == SetNext(a, new, n)
           c == SetPrev(b, new, p)
           d == SetNext(c, p, new)
<1>0. new \in Words /\ p \in Words /\ n \in Words
  BY DEF Words
<1>1. a \in Memory /\ \A y \in Cells : /\ a.prev[y] = IF y = n THEN new ELSE m.prev[y]
                                      /\ a.next[y] = m.next[y]
  BY <1>0, SetPrevFacts
<1> HIDE DEF a
<1>2. b \in Memory /\ \A y \in Cells : /\ b.next[y] = IF y = new THEN n ELSE a.next[y]
                                      /\ b.prev[y] = a.prev[y]
  BY <1>0, <1>1, SetNextFacts
<1> HIDE DEF b
<1>3. c \in Memory /\ \A y \in Cells : /\ c.prev[y] = IF y = new THEN p ELSE b.prev[y]
                                      /\ c.next[y] = b.next[y]
  BY <1>0, <1>2, SetPrevFacts
<1> HIDE DEF c
<1>4. d \in Memory /\ \A y \in Cells : /\ d.next[y] = IF y = p THEN new ELSE c.next[y]
                                      /\ d.prev[y] = c.prev[y]
  BY <1>0, <1>3, SetNextFacts
<1>5. d = LinkBetween(m, new, p, n)
  BY DEF LinkBetween, a, b, c
<1> HIDE DEF d
<1> QED
  BY <1>1, <1>2, <1>3, <1>4, <1>5

\* __list_del, word by word.
LEMMA UnlinkFacts ==
  ASSUME NEW m \in Memory, NEW p \in Cells, NEW n \in Cells
  PROVE  LET w == Unlink(m, p, n)
         IN  /\ w \in Memory
             /\ \A y \in Cells : /\ w.next[y] = IF y = p THEN n ELSE m.next[y]
                                 /\ w.prev[y] = IF y = n THEN p ELSE m.prev[y]
<1> DEFINE a == SetPrev(m, n, p)
           b == SetNext(a, p, n)
<1>0. p \in Words /\ n \in Words
  BY DEF Words
<1>1. a \in Memory /\ \A y \in Cells : /\ a.prev[y] = IF y = n THEN p ELSE m.prev[y]
                                      /\ a.next[y] = m.next[y]
  BY <1>0, SetPrevFacts
<1> HIDE DEF a
<1>2. b \in Memory /\ \A y \in Cells : /\ b.next[y] = IF y = p THEN n ELSE a.next[y]
                                      /\ b.prev[y] = a.prev[y]
  BY <1>0, <1>1, SetNextFacts
<1>3. b = Unlink(m, p, n)
  BY DEF Unlink, a
<1> HIDE DEF b
<1> QED
  BY <1>1, <1>2, <1>3

-------------------------------------------------------------------------------
(* Rings *)

\* The cells of the rings are cells; those of one ring, or of two, differ.
LEMMA CellsApart ==
  ASSUME NEW L \in [Heads -> Seq(Nodes)], Apart(L),
         NEW g \in Heads, NEW h \in Heads,
         NEW i \in 0 .. Len(L[g]), NEW j \in 0 .. Len(L[h]),
         Cell(g, L[g], i) = Cell(h, L[h], j)
  PROVE  g = h /\ i = j
<1>1. Len(L[g]) \in Nat /\ Len(L[h]) \in Nat
  OBVIOUS
<1>2. /\ \A k \in 1 .. Len(L[g]) : L[g][k] \in Nodes
      /\ \A k \in 1 .. Len(L[h]) : L[h][k] \in Nodes
  OBVIOUS
<1>3. CASE i = 0
  BY <1>1, <1>2, <1>3, ListAssumption DEF Cell
<1>4. CASE j = 0
  BY <1>1, <1>2, <1>4, ListAssumption DEF Cell
<1>5. CASE i # 0 /\ j # 0
  <2>1. i \in 1 .. Len(L[g]) /\ j \in 1 .. Len(L[h])
    BY <1>1, <1>5
  <2> QED
    BY <2>1 DEF Cell, Apart
<1> QED
  BY <1>3, <1>4, <1>5

\* A place of a ring is a cell, and the place after the last is the head's.
LEMMA CellFacts ==
  ASSUME NEW h \in Heads, NEW s \in Seq(Nodes)
  PROVE  /\ Len(s) \in Nat
         /\ \A i \in 0 .. Len(s) + 1 : Cell(h, s, i) \in Cells
         /\ \A i \in 1 .. Len(s) : Cell(h, s, i) = s[i] /\ s[i] \in Nodes
         /\ Cell(h, s, 0) = h /\ Cell(h, s, Len(s) + 1) = h
<1>1. Len(s) \in Nat /\ \A i \in 1 .. Len(s) : s[i] \in Nodes
  OBVIOUS
<1> QED
  BY <1>1 DEF Cell, Cells

\* A ring none of whose cells is written stays linked.
LEMMA LinkedFrame ==
  ASSUME NEW m, NEW w, NEW h \in Heads, NEW s \in Seq(Nodes), Linked(m, h, s),
         NEW C, SameOutside(m, w, C), \A i \in 0 .. Len(s) : Cell(h, s, i) \notin C
  PROVE  Linked(w, h, s)
<1>1. /\ Len(s) \in Nat
      /\ \A i \in 0 .. Len(s) + 1 : Cell(h, s, i) \in Cells
      /\ Cell(h, s, Len(s) + 1) = Cell(h, s, 0)
  BY CellFacts
<1>2. \A i \in 0 .. Len(s) + 1 : Cell(h, s, i) \in Cells \ C
  BY <1>1
<1>3. ASSUME NEW i \in 0 .. Len(s)
      PROVE  /\ w.next[Cell(h, s, i)] = Cell(h, s, i + 1)
             /\ w.prev[Cell(h, s, i + 1)] = Cell(h, s, i)
  <2>1. i \in 0 .. Len(s) + 1 /\ i + 1 \in 0 .. Len(s) + 1
    BY <1>1
  <2>2. Cell(h, s, i) \in Cells \ C /\ Cell(h, s, i + 1) \in Cells \ C
    BY <1>2, <2>1
  <2>3. w.next[Cell(h, s, i)] = m.next[Cell(h, s, i)]
        /\ w.prev[Cell(h, s, i + 1)] = m.prev[Cell(h, s, i + 1)]
    BY <2>2 DEF SameOutside
  <2> QED
    BY <2>3 DEF Linked
<1> QED
  BY <1>3 DEF Linked

\* An operation keeps the lists coherent if the rings it touches are linked
\* afterwards and it writes no cell of the others.
LEMMA CoherentStep ==
  ASSUME NEW m, NEW L, NEW R, Coherent(m, L, R),
         NEW w \in Memory, NEW M \in [Heads -> Seq(Nodes)], NEW Q \in SUBSET Heads,
         Apart(M), \A h \in Heads \ Q : Len(M[h]) = 0,
         NEW C, SameOutside(m, w, C),
         \A h \in Q : \/ Linked(w, h, M[h])
                      \/ /\ h \in R /\ M[h] = L[h]
                         /\ \A i \in 0 .. Len(L[h]) : Cell(h, L[h], i) \notin C
  PROVE  Coherent(w, M, Q)
<1>1. ASSUME NEW h \in Q PROVE Linked(w, h, M[h])
  <2>1. CASE /\ h \in R /\ M[h] = L[h]
             /\ \A i \in 0 .. Len(L[h]) : Cell(h, L[h], i) \notin C
    <3>1. Linked(m, h, L[h]) /\ h \in Heads /\ L[h] \in Seq(Nodes)
      BY <2>1 DEF Coherent
    <3>2. Linked(w, h, L[h])
      BY <2>1, <3>1, LinkedFrame
    <3> QED
      BY <2>1, <3>2
  <2> QED
    BY <2>1
<1> QED
  BY <1>1 DEF Coherent

\* A cell on no list may be written: a node that is not listed, or a head that
\* is not ready.
LEMMA WriteUnlisted ==
  ASSUME NEW m, NEW L, NEW R, Coherent(m, L, R), NEW w \in Memory, NEW x,
         SameOutside(m, w, {x}), x \notin R, OffLists(x, L)
  PROVE  Coherent(w, L, R)
<1>1. /\ L \in [Heads -> Seq(Nodes)] /\ R \in SUBSET Heads /\ Apart(L)
      /\ \A h \in Heads \ R : Len(L[h]) = 0
  BY DEF Coherent
<1>2. ASSUME NEW h \in R, NEW i \in 0 .. Len(L[h]) PROVE Cell(h, L[h], i) \notin {x}
  BY <1>1 DEF Cell, OffLists
<1> QED
  BY <1>1, <1>2, CoherentStep

\* Two places of a ring with the same cell after them are one place.
LEMMA SuccApart ==
  ASSUME NEW L \in [Heads -> Seq(Nodes)], Apart(L),
         NEW g \in Heads, NEW h \in Heads,
         NEW i \in 0 .. Len(L[g]), NEW j \in 0 .. Len(L[h]),
         Cell(g, L[g], i + 1) = Cell(h, L[h], j + 1)
  PROVE  g = h /\ i = j
<1> DEFINE wrap(l, k) == IF k = Len(l) THEN 0 ELSE k + 1
<1>1. Len(L[g]) \in Nat /\ Len(L[h]) \in Nat /\ L[g] \in Seq(Nodes) /\ L[h] \in Seq(Nodes)
  OBVIOUS
<1>2. Cell(g, L[g], wrap(L[g], i)) = Cell(g, L[g], i + 1) /\ wrap(L[g], i) \in 0 .. Len(L[g])
  BY <1>1, CellFacts
<1>3. Cell(h, L[h], wrap(L[h], j)) = Cell(h, L[h], j + 1) /\ wrap(L[h], j) \in 0 .. Len(L[h])
  BY <1>1, CellFacts
<1> HIDE DEF wrap
<1>4. g = h /\ wrap(L[g], i) = wrap(L[h], j)
  BY <1>2, <1>3, CellsApart
<1> QED
  BY <1>1, <1>4 DEF wrap

\* Both for one ring.
LEMMA RingApart ==
  ASSUME NEW L \in [Heads -> Seq(Nodes)], Apart(L), NEW h \in Heads
  PROVE  \A i, j \in 0 .. Len(L[h]) :
           /\ Cell(h, L[h], i) = Cell(h, L[h], j) => i = j
           /\ Cell(h, L[h], i + 1) = Cell(h, L[h], j + 1) => i = j
BY CellsApart, SuccApart

\* A cell that follows a place of a ring is at a place of it.
LEMMA SuccPlace ==
  ASSUME NEW h \in Heads, NEW s \in Seq(Nodes), NEW k \in 0 .. Len(s)
  PROVE  \E i \in 0 .. Len(s) : Cell(h, s, k + 1) = Cell(h, s, i)
<1>1. Len(s) \in Nat /\ Cell(h, s, Len(s) + 1) = Cell(h, s, 0)
  BY CellFacts
<1>2. CASE k = Len(s)
  BY <1>1, <1>2
<1>3. CASE k # Len(s)
  <2>1. k + 1 \in 0 .. Len(s)
    BY <1>1, <1>3
  <2> QED
    BY <2>1
<1> QED
  BY <1>2, <1>3

\* One list replaced by a sequence of nodes that are on no other.
LEMMA ApartOne ==
  ASSUME NEW L \in [Heads -> Seq(Nodes)], Apart(L), NEW h \in Heads, NEW t \in Seq(Nodes),
         \A i, j \in 1 .. Len(t) : t[i] = t[j] => i = j,
         \A g \in Heads \ {h} : \A i \in 1 .. Len(L[g]), j \in 1 .. Len(t) : L[g][i] # t[j]
  PROVE  Apart([L EXCEPT ![h] = t])
<1> DEFINE M == [L EXCEPT ![h] = t]
<1>1. M[h] = t /\ \A g \in Heads \ {h} : M[g] = L[g]
  OBVIOUS
<1> HIDE DEF M
<1>2. ASSUME NEW f \in Heads, NEW g \in Heads, NEW i \in 1 .. Len(M[f]), NEW j \in 1 .. Len(M[g]),
             M[f][i] = M[g][j]
      PROVE  f = g /\ i = j
  <2>1. CASE f = h /\ g = h
    BY <1>1, <1>2, <2>1
  <2>2. CASE f = h /\ g # h
    BY <1>1, <1>2, <2>2
  <2>3. CASE f # h /\ g = h
    BY <1>1, <1>2, <2>3
  <2>4. CASE f # h /\ g # h
    BY <1>1, <1>2, <2>4 DEF Apart
  <2> QED
    BY <2>1, <2>2, <2>3, <2>4
<1> QED
  BY <1>2 DEF Apart, M

\* t is s with x put in after its k-th place.
Inserted(t, s, k, x) ==
  /\ Len(t) = Len(s) + 1
  /\ \A j \in 1 .. Len(s) + 1 :
       t[j] = IF j <= k THEN s[j] ELSE IF j = k + 1 THEN x ELSE s[j - 1]

\* t is s without its k-th place.
Removed(t, s, k) ==
  /\ Len(t) = Len(s) - 1
  /\ \A j \in 1 .. Len(s) - 1 : t[j] = IF j < k THEN s[j] ELSE s[j + 1]

\* __list_add between two neighbours puts the node between them.
LEMMA InsertCoherent ==
  ASSUME NEW m, NEW L, NEW R, Coherent(m, L, R), NEW h \in R, NEW x \in Nodes,
         OffLists(x, L),
         NEW k \in 0 .. Len(L[h]), NEW t \in Seq(Nodes), Inserted(t, L[h], k, x)
  PROVE  Coherent(LinkBetween(m, x, Cell(h, L[h], k), Cell(h, L[h], k + 1)),
                  [L EXCEPT ![h] = t], R)
<1> DEFINE s == L[h]
           p == Cell(h, s, k)
           n == Cell(h, s, k + 1)
           w == LinkBetween(m, x, p, n)
           M == [L EXCEPT ![h] = t]
<1>1. /\ m \in Memory /\ L \in [Heads -> Seq(Nodes)] /\ R \in SUBSET Heads /\ Apart(L)
      /\ h \in Heads /\ s \in Seq(Nodes) /\ Len(s) \in Nat /\ Linked(m, h, s)
      /\ \A g \in Heads \ R : Len(L[g]) = 0
  BY DEF Coherent
<1>0. k \in 0 .. Len(s) /\ Len(s) \in Nat /\ Len(t) = Len(s) + 1
  BY <1>1 DEF Inserted
<1>a. \A j \in 1 .. Len(s) + 1 :
        t[j] = IF j <= k THEN s[j] ELSE IF j = k + 1 THEN x ELSE s[j - 1]
  BY DEF Inserted
<1>2. /\ \A i \in 0 .. Len(s) + 1 : Cell(h, s, i) \in Cells
      /\ \A i \in 1 .. Len(s) : Cell(h, s, i) = s[i] /\ s[i] \in Nodes
      /\ Cell(h, s, 0) = h /\ Cell(h, s, Len(s) + 1) = h
  BY <1>1, CellFacts
<1>3. \A i \in 0 .. Len(s) + 1 : Cell(h, s, i) # x
  BY <1>1, ListAssumption DEF Cell, OffLists
<1>4. x \in Cells /\ p \in Cells /\ n \in Cells /\ x # p /\ x # n
  BY <1>1, <1>2, <1>3 DEF Cells
<1>5. ASSUME NEW i \in 0 .. Len(s)
      PROVE  (Cell(h, s, i) = p => i = k) /\ (Cell(h, s, i + 1) = n => i = k)
  <2>1. Cell(h, s, i) = p => i = k
    BY <1>1, CellsApart
  <2>2. Cell(h, s, i + 1) = n => i = k
    BY <1>1, SuccApart
  <2> QED
    BY <2>1, <2>2
<1>6. PICK q \in 0 .. Len(s) : n = Cell(h, s, q)
  BY <1>1, SuccPlace
<1>7. \A j \in 0 .. Len(s) + 2 :
        Cell(h, t, j) = IF j <= k THEN Cell(h, s, j) ELSE IF j = k + 1 THEN x ELSE Cell(h, s, j - 1)
  BY <1>0, <1>a DEF Cell
<1>8. M \in [Heads -> Seq(Nodes)] /\ M[h] = t /\ \A g \in Heads \ {h} : M[g] = L[g]
  BY <1>1
<1> HIDE DEF p, n, M, s
<1>9. /\ w \in Memory
      /\ \A y \in Cells :
           /\ w.next[y] = IF y = p THEN x ELSE IF y = x THEN n ELSE m.next[y]
           /\ w.prev[y] = IF y = n THEN x ELSE IF y = x THEN p ELSE m.prev[y]
  BY <1>1, <1>4, LinkBetweenFacts
<1> HIDE DEF w
<1>10. SameOutside(m, w, {x, p, n})
  BY <1>9 DEF SameOutside
<1>11. Linked(w, h, t)
  <2> SUFFICES ASSUME NEW j \in 0 .. Len(s) + 1
               PROVE  /\ w.next[Cell(h, t, j)] = Cell(h, t, j + 1)
                      /\ w.prev[Cell(h, t, j + 1)] = Cell(h, t, j)
    BY <1>0 DEF Linked
  <2>1. CASE j < k \/ j > k + 1
    <3> DEFINE i == IF j < k THEN j ELSE j - 1
    <3>1. /\ i \in 0 .. Len(s) /\ i + 1 \in 0 .. Len(s) + 1 /\ i # k
          /\ Cell(h, t, j) = Cell(h, s, i) /\ Cell(h, t, j + 1) = Cell(h, s, i + 1)
      <4>1. /\ i \in 0 .. Len(s) /\ i + 1 \in 0 .. Len(s) + 1 /\ i # k
            /\ j \in 0 .. Len(s) + 2 /\ j + 1 \in 0 .. Len(s) + 2 /\ j # k + 1 /\ j + 1 # k + 1
        BY <1>0, <2>1
      <4>2. CASE j < k
        <5>1. i = j /\ j <= k /\ j + 1 <= k
          BY <1>0, <4>2
        <5> QED
          BY <1>7, <4>1, <5>1
      <4>3. CASE ~ (j < k)
        <5>1. i = j - 1 /\ ~ (j <= k) /\ ~ (j + 1 <= k) /\ i + 1 = (j + 1) - 1
          BY <1>0, <2>1, <4>3
        <5>2. Cell(h, t, j) = Cell(h, s, j - 1) /\ Cell(h, t, j + 1) = Cell(h, s, (j + 1) - 1)
          BY <1>7, <4>1, <5>1
        <5> QED
          BY <4>1, <5>1, <5>2
      <4> QED
        BY <4>2, <4>3
    <3> HIDE DEF i
    <3>2. m.next[Cell(h, s, i)] = Cell(h, s, i + 1) /\ m.prev[Cell(h, s, i + 1)] = Cell(h, s, i)
      BY <1>1, <3>1 DEF Linked
    <3>3. Cell(h, s, i) \in Cells \ {x, p} /\ Cell(h, s, i + 1) \in Cells \ {x, n}
      BY <1>1, <1>2, <1>3, <1>5, <3>1
    <3> QED
      BY <1>9, <3>1, <3>2, <3>3
  <2>2. CASE j = k
    <3>1. Cell(h, t, j) = p /\ Cell(h, t, j + 1) = x
      <4>1. k \in 0 .. Len(s) + 2 /\ k + 1 \in 0 .. Len(s) + 2 /\ k <= k /\ ~ (k + 1 <= k)
        BY <1>0, <1>1
      <4>2. Cell(h, t, k) = Cell(h, s, k) /\ Cell(h, t, k + 1) = x
        BY <1>7, <4>1
      <4> QED
        BY <2>2, <4>2 DEF p
    <3> QED
      BY <1>4, <1>9, <3>1
  <2>3. CASE j = k + 1
    <3>1. Cell(h, t, j) = x /\ Cell(h, t, j + 1) = n
      <4>1. /\ j \in 0 .. Len(s) + 2 /\ j + 1 \in 0 .. Len(s) + 2 /\ ~ (j <= k) /\ ~ (j + 1 <= k)
            /\ j + 1 # k + 1 /\ (j + 1) - 1 = k + 1
        BY <1>0, <2>3
      <4>2. Cell(h, t, j) = x /\ Cell(h, t, j + 1) = Cell(h, s, (j + 1) - 1)
        BY <1>7, <2>3, <4>1
      <4> QED
        BY <4>1, <4>2 DEF n
    <3> QED
      BY <1>4, <1>9, <3>1
  <2> QED
    BY <1>1, <2>1, <2>2, <2>3
<1>12. Apart(M)
  <2>1. \A g \in Heads \ {h} : \A i \in 1 .. Len(L[g]), j \in 1 .. Len(t) : L[g][i] # t[j]
    <3> SUFFICES ASSUME NEW g \in Heads \ {h}, NEW i \in 1 .. Len(L[g]), NEW j \in 1 .. Len(t),
                        L[g][i] = t[j]
                 PROVE  FALSE
      OBVIOUS
    <3>1. t[j] = x \/ \E a \in 1 .. Len(s) : t[j] = s[a]
      <4>1. j \in 1 .. Len(s) + 1 /\ (j <= k => j \in 1 .. Len(s))
            /\ (j > k + 1 => j - 1 \in 1 .. Len(s))
        BY <1>0
      <4> QED
        BY <1>a, <4>1
    <3> QED
      BY <1>1, <3>1 DEF Apart, OffLists, s
  <2>2. ASSUME NEW i \in 1 .. Len(t), NEW j \in 1 .. Len(t), t[i] = t[j]
        PROVE  i = j
    <3> DEFINE old(a) == IF a <= k THEN a ELSE a - 1
    <3>1. /\ i # k + 1 => old(i) \in 1 .. Len(s) /\ t[i] = s[old(i)]
          /\ j # k + 1 => old(j) \in 1 .. Len(s) /\ t[j] = s[old(j)]
          /\ i = k + 1 => t[i] = x
          /\ j = k + 1 => t[j] = x
      <4>1. /\ i \in 1 .. Len(s) + 1 /\ i # k + 1 => old(i) \in 1 .. Len(s)
            /\ j \in 1 .. Len(s) + 1 /\ j # k + 1 => old(j) \in 1 .. Len(s)
        BY <1>0
      <4> QED
        BY <1>0, <1>a, <4>1
    <3>2. \A a, b \in 1 .. Len(s) : (s[a] = s[b] => a = b) /\ s[a] # x
      BY <1>1 DEF Apart, OffLists, s
    <3> HIDE DEF old
    <3>3. (i = k + 1 /\ j = k + 1) \/ (i # k + 1 /\ j # k + 1 /\ old(i) = old(j))
      BY <2>2, <3>1, <3>2
    <3> QED
      BY <1>0, <1>1, <3>3 DEF old
  <2> QED
    BY <1>1, <2>1, <2>2, ApartOne DEF M
<1>13. \A g \in Heads \ R : Len(M[g]) = 0
  BY <1>1, <1>8
<1>14. ASSUME NEW g \in R, g # h
       PROVE  g \in R /\ M[g] = L[g] /\ \A i \in 0 .. Len(L[g]) : Cell(g, L[g], i) \notin {x, p, n}
  <2>1. g \in Heads /\ M[g] = L[g] /\ L[g] \in Seq(Nodes)
    BY <1>1, <1>8, <1>14
  <2>2. ASSUME NEW i \in 0 .. Len(L[g]) PROVE Cell(g, L[g], i) \notin {x, p, n}
    <3>1. Cell(g, L[g], i) # x
      BY <2>1, ListAssumption DEF Cell, OffLists
    <3>2. Cell(g, L[g], i) # p
      BY <1>1, <1>14, <2>1, CellsApart DEF p, s
    <3>3. Cell(g, L[g], i) # n
      BY <1>1, <1>6, <1>14, <2>1, CellsApart DEF s
    <3> QED
      BY <3>1, <3>2, <3>3
  <2> QED
    BY <2>1, <2>2
<1>15. \A g \in R : \/ Linked(w, g, M[g])
                    \/ /\ g \in R /\ M[g] = L[g]
                       /\ \A i \in 0 .. Len(L[g]) : Cell(g, L[g], i) \notin {x, p, n}
  BY <1>8, <1>11, <1>14
<1>16. Coherent(w, M, R)
  BY <1>1, <1>8, <1>9, <1>10, <1>12, <1>13, <1>15, CoherentStep
<1> QED
  BY <1>16 DEF w, M, p, n, s

\* What a listed node's words are: its neighbours.
LEMMA Neighbours ==
  ASSUME NEW m, NEW h \in Heads, NEW s \in Seq(Nodes), Linked(m, h, s), NEW k \in 1 .. Len(s)
  PROVE  /\ m.next[s[k]] = Cell(h, s, k + 1)
         /\ m.prev[s[k]] = Cell(h, s, k - 1)
<1>1. Len(s) \in Nat /\ Cell(h, s, k) = s[k]
  BY CellFacts
<1>2. k \in 0 .. Len(s) /\ k - 1 \in 0 .. Len(s) /\ (k - 1) + 1 = k
  BY <1>1
<1> QED
  BY <1>1, <1>2 DEF Linked

\* What a head's words are: its first and its last node, or itself.
LEMMA HeadWords ==
  ASSUME NEW m, NEW h \in Heads, NEW s \in Seq(Nodes), Linked(m, h, s)
  PROVE  m.next[h] = Cell(h, s, 1) /\ m.prev[h] = Cell(h, s, Len(s))
<1>1. Len(s) \in Nat /\ Cell(h, s, 0) = h /\ Cell(h, s, Len(s) + 1) = h
  BY CellFacts
<1>2. 0 \in 0 .. Len(s) /\ Len(s) \in 0 .. Len(s) /\ 0 + 1 = 1
  BY <1>1
<1> QED
  BY <1>1, <1>2 DEF Linked

\* __list_del of a node's neighbours takes it off its list.
LEMMA DeleteCoherent ==
  ASSUME NEW m, NEW L, NEW R, Coherent(m, L, R), NEW h \in R, NEW k \in 1 .. Len(L[h]),
         NEW t \in Seq(Nodes), Removed(t, L[h], k)
  PROVE  /\ Coherent(Del(m, L[h][k]), [L EXCEPT ![h] = t], R)
         /\ OffLists(L[h][k], [L EXCEPT ![h] = t])
<1> DEFINE s == L[h]
           x == s[k]
           p == Cell(h, s, k - 1)
           n == Cell(h, s, k + 1)
           w == Unlink(m, p, n)
           M == [L EXCEPT ![h] = t]
<1>1. /\ m \in Memory /\ L \in [Heads -> Seq(Nodes)] /\ R \in SUBSET Heads /\ Apart(L)
      /\ h \in Heads /\ s \in Seq(Nodes) /\ Len(s) \in Nat /\ Linked(m, h, s)
      /\ \A g \in Heads \ R : Len(L[g]) = 0
  BY DEF Coherent
<1>0. k \in 1 .. Len(s) /\ Len(s) \in Nat /\ Len(t) = Len(s) - 1
  BY <1>1 DEF Removed
<1>a. \A j \in 1 .. Len(s) - 1 : t[j] = IF j < k THEN s[j] ELSE s[j + 1]
  BY DEF Removed
<1>2. /\ \A i \in 0 .. Len(s) + 1 : Cell(h, s, i) \in Cells
      /\ k - 1 \in 0 .. Len(s) /\ k + 1 \in 0 .. Len(s) + 1
  BY <1>0, <1>1, CellFacts
<1>3. Del(m, x) = w
  BY <1>0, <1>1, Neighbours DEF Del
<1>4. p \in Cells /\ n \in Cells
  BY <1>2
<1>5. ASSUME NEW i \in 0 .. Len(s)
      PROVE  (Cell(h, s, i) = p => i = k - 1) /\ (Cell(h, s, i + 1) = n => i = k)
  <2>1. Cell(h, s, i) = p => i = k - 1
    BY <1>1, <1>2, CellsApart
  <2>2. k \in 0 .. Len(s)
    BY <1>0, <1>1
  <2>3. Cell(h, s, i + 1) = n => i = k
    BY <1>1, <2>2, SuccApart
  <2> QED
    BY <2>1, <2>3
<1>6. PICK q \in 0 .. Len(s) : n = Cell(h, s, q)
  <2>1. k \in 0 .. Len(s)
    BY <1>0, <1>1
  <2> QED
    BY <1>1, <2>1, SuccPlace
<1>7. \A j \in 0 .. Len(s) : Cell(h, t, j) = IF j < k THEN Cell(h, s, j) ELSE Cell(h, s, j + 1)
  BY <1>0, <1>a DEF Cell
<1>8. M \in [Heads -> Seq(Nodes)] /\ M[h] = t /\ \A g \in Heads \ {h} : M[g] = L[g]
  BY <1>1
<1> HIDE DEF p, n, M, s, x
<1>9. /\ w \in Memory
      /\ \A y \in Cells : /\ w.next[y] = IF y = p THEN n ELSE m.next[y]
                          /\ w.prev[y] = IF y = n THEN p ELSE m.prev[y]
  BY <1>1, <1>4, UnlinkFacts
<1> HIDE DEF w
<1>10. SameOutside(m, w, {p, n})
  BY <1>9 DEF SameOutside
<1>11. Linked(w, h, t)
  <2> SUFFICES ASSUME NEW j \in 0 .. Len(s) - 1
               PROVE  /\ w.next[Cell(h, t, j)] = Cell(h, t, j + 1)
                      /\ w.prev[Cell(h, t, j + 1)] = Cell(h, t, j)
    BY <1>0 DEF Linked
  <2>1. CASE j # k - 1
    <3> DEFINE i == IF j < k THEN j ELSE j + 1
    <3>1. /\ i \in 0 .. Len(s) /\ i + 1 \in 0 .. Len(s) + 1 /\ i # k - 1 /\ i # k
          /\ Cell(h, t, j) = Cell(h, s, i) /\ Cell(h, t, j + 1) = Cell(h, s, i + 1)
      <4>1. /\ i \in 0 .. Len(s) /\ i + 1 \in 0 .. Len(s) + 1 /\ i # k - 1 /\ i # k
            /\ j \in 0 .. Len(s) /\ j + 1 \in 0 .. Len(s)
        BY <1>0, <2>1
      <4>2. CASE j < k
        <5>1. i = j /\ j + 1 < k
          BY <1>0, <2>1, <4>2
        <5> QED
          BY <1>7, <4>1, <4>2, <5>1
      <4>3. CASE ~ (j < k)
        <5>1. i = j + 1 /\ ~ (j + 1 < k)
          BY <1>0, <4>3
        <5> QED
          BY <1>7, <4>1, <4>3, <5>1
      <4> QED
        BY <4>2, <4>3
    <3> HIDE DEF i
    <3>2. m.next[Cell(h, s, i)] = Cell(h, s, i + 1) /\ m.prev[Cell(h, s, i + 1)] = Cell(h, s, i)
      BY <1>1, <3>1 DEF Linked
    <3>3. Cell(h, s, i) \in Cells \ {p} /\ Cell(h, s, i + 1) \in Cells \ {n}
      BY <1>1, <1>2, <1>5, <3>1
    <3> QED
      BY <1>9, <3>1, <3>2, <3>3
  <2>2. CASE j = k - 1
    <3>1. k - 1 \in 0 .. Len(s) /\ k \in 0 .. Len(s) /\ k - 1 < k /\ ~ (k < k) /\ j + 1 = k
      BY <1>0, <1>1, <2>2
    <3>2. Cell(h, t, j) = p /\ Cell(h, t, j + 1) = n
      BY <1>7, <2>2, <3>1 DEF p, n
    <3> QED
      BY <1>4, <1>9, <3>2
  <2> QED
    BY <2>1, <2>2
<1>12. \A j \in 1 .. Len(t) : \E a \in 1 .. Len(s) : a # k /\ t[j] = s[a] /\ a = IF j < k THEN j ELSE j + 1
  BY <1>0, <1>a
<1>13. \A a, b \in 1 .. Len(s) : s[a] = s[b] => a = b
  BY <1>1 DEF Apart, s
<1>14. \A g \in Heads \ {h} : \A i \in 1 .. Len(L[g]), j \in 1 .. Len(s) : L[g][i] # s[j]
  BY <1>1 DEF Apart, s
<1>15. Apart(M)
  <2>1. \A g \in Heads \ {h} : \A i \in 1 .. Len(L[g]), j \in 1 .. Len(t) : L[g][i] # t[j]
    <3> SUFFICES ASSUME NEW g \in Heads \ {h}, NEW i \in 1 .. Len(L[g]), NEW j \in 1 .. Len(t)
                 PROVE  L[g][i] # t[j]
      OBVIOUS
    <3>1. PICK a \in 1 .. Len(s) : t[j] = s[a]
      BY <1>12
    <3> QED
      BY <1>14, <3>1
  <2>2. ASSUME NEW i \in 1 .. Len(t), NEW j \in 1 .. Len(t), t[i] = t[j]
        PROVE  i = j
    <3>1. PICK a \in 1 .. Len(s) : t[i] = s[a] /\ a = IF i < k THEN i ELSE i + 1
      BY <1>12
    <3>2. PICK b \in 1 .. Len(s) : t[j] = s[b] /\ b = IF j < k THEN j ELSE j + 1
      BY <1>12
    <3>3. a = b
      BY <1>13, <2>2, <3>1, <3>2
    <3> QED
      BY <1>0, <1>1, <3>1, <3>2, <3>3
  <2> QED
    BY <1>1, <2>1, <2>2, ApartOne DEF M
<1>16. \A g \in Heads \ R : Len(M[g]) = 0
  BY <1>1, <1>8
<1>17. ASSUME NEW g \in R, g # h
       PROVE  g \in R /\ M[g] = L[g] /\ \A i \in 0 .. Len(L[g]) : Cell(g, L[g], i) \notin {p, n}
  <2>1. g \in Heads /\ M[g] = L[g] /\ L[g] \in Seq(Nodes)
    BY <1>1, <1>8, <1>17
  <2>2. ASSUME NEW i \in 0 .. Len(L[g]) PROVE Cell(g, L[g], i) \notin {p, n}
    <3>1. Cell(g, L[g], i) # p
      BY <1>1, <1>2, <1>17, <2>1, CellsApart DEF p, s
    <3>2. Cell(g, L[g], i) # n
      BY <1>1, <1>6, <1>17, <2>1, CellsApart DEF s
    <3> QED
      BY <3>1, <3>2
  <2> QED
    BY <2>1, <2>2
<1>18. \A g \in R : \/ Linked(w, g, M[g])
                    \/ /\ g \in R /\ M[g] = L[g]
                       /\ \A i \in 0 .. Len(L[g]) : Cell(g, L[g], i) \notin {p, n}
  BY <1>8, <1>11, <1>17
<1>19. Coherent(w, M, R)
  BY <1>1, <1>8, <1>9, <1>10, <1>15, <1>16, <1>18, CoherentStep
<1>20. ASSUME NEW g \in Heads, NEW i \in 1 .. Len(M[g]) PROVE M[g][i] # x
  <2>1. CASE g = h
    BY <1>0, <1>8, <1>12, <1>13, <2>1 DEF x
  <2>2. CASE g # h
    BY <1>0, <1>8, <1>14, <2>2 DEF x
  <2> QED
    BY <2>1, <2>2
<1>21. OffLists(x, M)
  BY <1>20 DEF OffLists
<1> QED
  BY <1>3, <1>19, <1>21 DEF M, s, x

\* list_replace writes what deleting the old node and adding the new one in
\* its place would.
LEMMA ReplaceCoherent ==
  ASSUME NEW m, NEW L, NEW R, Coherent(m, L, R), NEW h \in R, NEW k \in 1 .. Len(L[h]),
         NEW x \in Nodes, OffLists(x, L)
  PROVE  Coherent(Replace(m, L[h][k], x), [L EXCEPT ![h] = [@ EXCEPT ![k] = x]], R)
<1> DEFINE s == L[h]
           t == RemoveAt(s, k)
           u == [s EXCEPT ![k] = x]
           p == Cell(h, s, k - 1)
           n == Cell(h, s, k + 1)
           d == Unlink(m, p, n)
           w == LinkBetween(d, x, p, n)
           M == [L EXCEPT ![h] = t]
           K == [M EXCEPT ![h] = u]
<1>0. /\ k \in 1 .. Len(s) /\ Len(s) \in Nat /\ s \in Seq(Nodes) /\ h \in Heads
      /\ m \in Memory /\ L \in [Heads -> Seq(Nodes)] /\ Linked(m, h, s) /\ Apart(L)
  BY DEF Coherent
<1>1. /\ t \in Seq(Nodes) /\ Len(t) = Len(s) - 1
      /\ \A j \in 1 .. Len(s) - 1 : t[j] = IF j < k THEN s[j] ELSE s[j + 1]
  <2> HIDE DEF s
  <2> QED
    BY <1>0, RemoveAtFacts
<1>2. u \in Seq(Nodes) /\ Len(u) = Len(s) /\ \A j \in 1 .. Len(s) : u[j] = IF j = k THEN x ELSE s[j]
  <2> HIDE DEF s
  <2> QED
    BY <1>0
<1>3. m.next[s[k]] = n /\ m.prev[s[k]] = p
  BY <1>0, Neighbours
<1>4. /\ \A i \in 0 .. Len(s) + 1 : Cell(h, s, i) \in Cells
      /\ \A i \in 0 .. Len(s) + 1 : Cell(h, s, i) # x
      /\ k - 1 \in 0 .. Len(s) /\ k + 1 \in 0 .. Len(s) + 1 /\ k \in 0 .. Len(s)
      /\ Cell(h, s, k) = s[k]
  BY <1>0, CellFacts, ListAssumption DEF Cell, OffLists
<1>5. p \in Cells /\ n \in Cells /\ x \in Cells /\ s[k] \in Cells /\ x # p /\ x # n /\ x # s[k]
  BY <1>0, <1>4 DEF Cells, OffLists
<1>6. s[k] # n
  <2> DEFINE j == k - 1
  <2>1. j \in 0 .. Len(L[h]) /\ k \in 0 .. Len(L[h]) /\ j + 1 = k /\ j # k
    BY <1>0
  <2> HIDE DEF j
  <2> SUFFICES ASSUME Cell(h, L[h], j + 1) = Cell(h, L[h], k + 1)
               PROVE  FALSE
    BY <1>4, <2>1
  <2> QED
    BY <1>0, <2>1, SuccApart
<1>7. \A j \in 0 .. Len(s) : Cell(h, t, j) = IF j < k THEN Cell(h, s, j) ELSE Cell(h, s, j + 1)
  <2> HIDE DEF t, s
  <2> QED
    BY <1>0, <1>1 DEF Cell
<1>8. Cell(h, t, k - 1) = p /\ Cell(h, t, (k - 1) + 1) = n
  <2> HIDE DEF t, s
  <2>1. k - 1 < k /\ ~ (k < k) /\ (k - 1) + 1 = k
    BY <1>0
  <2> QED
    BY <1>4, <1>7, <2>1
<1>9. Del(m, s[k]) = d
  BY <1>3 DEF Del
<1> HIDE DEF t, u
<1>10. /\ M[h] = t /\ K[h] = u /\ \A g \in Heads \ {h} : M[g] = L[g]
       /\ K = [L EXCEPT ![h] = u]
  BY <1>0
<1> HIDE DEF M, K
<1>11. Coherent(d, M, R)
  <2>1. t \in Seq(Nodes) /\ Removed(t, L[h], k)
    BY <1>1 DEF Removed
  <2>2. Coherent(Del(m, L[h][k]), [L EXCEPT ![h] = t], R)
    BY <2>1, DeleteCoherent
  <2> QED
    BY <1>9, <2>2 DEF M
<1>12. OffLists(x, M)
  <2> SUFFICES ASSUME NEW g \in Heads, NEW i \in 1 .. Len(M[g]) PROVE M[g][i] # x
    BY DEF OffLists
  <2>1. CASE g = h
    <3>1. PICK a \in 1 .. Len(s) : M[g][i] = s[a]
      <4>1. i \in 1 .. Len(s) - 1 /\ i \in 1 .. Len(s) /\ i + 1 \in 1 .. Len(s) /\ M[g] = t
        BY <1>0, <1>1, <1>10, <2>1
      <4> QED
        BY <1>1, <4>1
    <3> QED
      BY <1>0, <3>1 DEF OffLists
  <2>2. CASE g # h
    BY <1>0, <1>10, <2>2 DEF OffLists
  <2> QED
    BY <2>1, <2>2
<1>13. k - 1 \in 0 .. Len(t) /\ Inserted(u, t, k - 1, x)
  <2> HIDE DEF s
  <2>1. k - 1 \in 0 .. Len(t) /\ Len(u) = Len(t) + 1 /\ Len(t) + 1 = Len(s)
    BY <1>0, <1>1, <1>2
  <2>2. ASSUME NEW j \in 1 .. Len(s)
        PROVE  u[j] = IF j <= k - 1 THEN t[j] ELSE IF j = (k - 1) + 1 THEN x ELSE t[j - 1]
    <3>1. CASE j < k
      <4>1. j \in 1 .. Len(s) - 1 /\ j # k /\ j <= k - 1
        BY <1>0, <3>1
      <4> QED
        BY <1>1, <1>2, <3>1, <4>1
    <3>2. CASE j = k
      BY <1>0, <1>2, <3>2
    <3>3. CASE j > k
      <4>1. j - 1 \in 1 .. Len(s) - 1 /\ ~ (j - 1 < k) /\ (j - 1) + 1 = j
        BY <1>0, <3>3
      <4>2. t[j - 1] = s[j] /\ u[j] = s[j]
        BY <1>1, <1>2, <3>3, <4>1
      <4> QED
        BY <1>0, <3>3, <4>2
    <3> QED
      BY <1>0, <3>1, <3>2, <3>3
  <2> QED
    BY <2>1, <2>2 DEF Inserted
<1>14. Coherent(w, K, R)
  <2>1. Coherent(LinkBetween(d, x, Cell(h, M[h], k - 1), Cell(h, M[h], (k - 1) + 1)),
                 [M EXCEPT ![h] = u], R)
    BY <1>2, <1>10, <1>11, <1>12, <1>13, InsertCoherent
  <2> QED
    BY <1>8, <1>10, <2>1 DEF K
<1>15. Replace(m, s[k], x) = w
  <2> DEFINE o  == s[k]
             m1 == SetNext(m, x, m.next[o])
             m2 == SetPrev(m1, m1.next[x], x)
             m3 == SetPrev(m2, x, m2.prev[o])
             m4 == SetNext(m3, m3.prev[x], x)
  <2>0. o \in Cells /\ o # n /\ o # x /\ m.next[o] = n /\ m.prev[o] = p
        /\ x \in Words /\ p \in Words /\ n \in Words
    BY <1>3, <1>5, <1>6 DEF Words
  <2>1. Replace(m, o, x) = m4
    BY DEF Replace
  <2> HIDE DEF o, d, w, p, n
  <2>2. m1 \in Memory /\ \A y \in Cells : /\ m1.next[y] = IF y = x THEN n ELSE m.next[y]
                                         /\ m1.prev[y] = m.prev[y]
    BY <1>0, <1>5, <2>0, SetNextFacts
  <2> HIDE DEF m1
  <2>3. m2 \in Memory /\ \A y \in Cells : /\ m2.prev[y] = IF y = n THEN x ELSE m1.prev[y]
                                         /\ m2.next[y] = m1.next[y]
    <3>1. m1.next[x] = n
      BY <1>5, <2>2
    <3> QED
      BY <1>5, <2>0, <2>2, <3>1, SetPrevFacts
  <2> HIDE DEF m2
  <2>4. m2.prev[o] = p
    BY <2>0, <2>2, <2>3
  <2>5. m3 \in Memory /\ \A y \in Cells : /\ m3.prev[y] = IF y = x THEN p ELSE m2.prev[y]
                                         /\ m3.next[y] = m2.next[y]
    BY <1>5, <2>0, <2>3, <2>4, SetPrevFacts
  <2> HIDE DEF m3
  <2>6. m4 \in Memory /\ \A y \in Cells : /\ m4.next[y] = IF y = p THEN x ELSE m3.next[y]
                                         /\ m4.prev[y] = m3.prev[y]
    <3>1. m3.prev[x] = p
      BY <1>5, <2>5
    <3> QED
      BY <1>5, <2>0, <2>5, <3>1, SetNextFacts
  <2> HIDE DEF m4
  <2>7. d \in Memory /\ \A y \in Cells : /\ d.next[y] = IF y = p THEN n ELSE m.next[y]
                                        /\ d.prev[y] = IF y = n THEN p ELSE m.prev[y]
    BY <1>0, <1>5, UnlinkFacts DEF d
  <2>8. /\ w \in Memory
        /\ \A y \in Cells :
             /\ w.next[y] = IF y = p THEN x ELSE IF y = x THEN n ELSE d.next[y]
             /\ w.prev[y] = IF y = n THEN x ELSE IF y = x THEN p ELSE d.prev[y]
    BY <1>5, <2>7, LinkBetweenFacts DEF w
  <2>9. \A y \in Cells : w.next[y] = m4.next[y] /\ w.prev[y] = m4.prev[y]
    BY <1>5, <2>2, <2>3, <2>5, <2>6, <2>7, <2>8
  <2>10. w = m4
    BY <2>6, <2>8, <2>9 DEF Memory
  <2> QED
    BY <2>1, <2>10 DEF o
<1> QED
  BY <1>10, <1>14, <1>15 DEF u, s

\* An empty list may count as not initialised.
LEMMA DropReady ==
  ASSUME NEW m, NEW L, NEW R, Coherent(m, L, R), NEW h \in Heads, Len(L[h]) = 0
  PROVE  Coherent(m, L, R \ {h})
BY DEF Coherent

\* INIT_LIST_HEAD of a head whose list is empty makes it ready.
LEMMA InitCoherent ==
  ASSUME NEW m, NEW L, NEW R, Coherent(m, L, R), NEW h \in Heads, Len(L[h]) = 0
  PROVE  Coherent(INIT_LIST_HEAD(m, h), L, R \cup {h})
<1> DEFINE w == INIT_LIST_HEAD(m, h)
<1>1. /\ m \in Memory /\ L \in [Heads -> Seq(Nodes)] /\ R \in SUBSET Heads /\ Apart(L)
      /\ \A g \in Heads \ R : Len(L[g]) = 0
  BY DEF Coherent
<1>2. w \in Memory /\ w.next[h] = h /\ w.prev[h] = h /\ SameOutside(m, w, {h})
  <2>1. h \in Cells
    BY DEF Cells
  <2> QED
    BY <1>1, <2>1, InitFacts
<1> HIDE DEF w
<1>3. Linked(w, h, L[h])
  <2>1. \A i \in Int : Cell(h, L[h], i) = h
    BY DEF Cell
  <2> QED
    BY <1>2, <2>1 DEF Linked
<1>4. ASSUME NEW g \in R, g # h, NEW i \in 0 .. Len(L[g])
      PROVE  Cell(g, L[g], i) \notin {h}
  <2>1. 0 \in 0 .. Len(L[h]) /\ Cell(h, L[h], 0) = h /\ g \in Heads
    BY <1>1 DEF Cell
  <2> QED
    BY <1>1, <1>4, <2>1, CellsApart
<1>5. \A g \in R \cup {h} : \/ Linked(w, g, L[g])
                            \/ /\ g \in R /\ L[g] = L[g]
                               /\ \A i \in 0 .. Len(L[g]) : Cell(g, L[g], i) \notin {h}
  BY <1>3, <1>4
<1>6. Coherent(w, L, R \cup {h})
  BY <1>1, <1>2, <1>5, CoherentStep
<1> QED
  BY <1>6 DEF w

\* __list_cut_position, word by word.
LEMMA CutRingFacts ==
  ASSUME NEW m \in Memory, NEW list \in Cells, NEW h \in Cells, NEW entry \in Cells,
         list # h, list # entry, h # entry,
         m.next[h] \in Cells, m.next[entry] \in Cells, m.next[h] # m.next[entry],
         m.next[h] # list, m.next[entry] # list
  PROVE  LET w == CutRing(m, list, h, entry)
         IN  /\ w \in Memory
             /\ \A y \in Cells :
                  /\ w.next[y] = IF y = h THEN m.next[entry]
                                 ELSE IF y = entry THEN list
                                 ELSE IF y = list THEN m.next[h] ELSE m.next[y]
                  /\ w.prev[y] = IF y = m.next[entry] THEN h
                                 ELSE IF y = list THEN entry
                                 ELSE IF y = m.next[h] THEN list ELSE m.prev[y]
<1> DEFINE f  == m.next[h]
           n  == m.next[entry]
           m1 == SetNext(m, list, f)
           m2 == SetPrev(m1, m1.next[list], list)
           a  == SetPrev(m2, list, entry)
           b  == SetNext(a, entry, list)
           c  == SetNext(b, h, n)
           d  == SetPrev(c, n, h)
<1>0. /\ f \in Cells /\ n \in Cells /\ f # n /\ f # list /\ n # list
      /\ f \in Words /\ n \in Words /\ list \in Words /\ h \in Words /\ entry \in Words
  BY DEF Words
<1>1. CutRing(m, list, h, entry) = d
  BY DEF CutRing
<1>2. m.next[h] = f /\ m.next[entry] = n
  OBVIOUS
<1> HIDE DEF f, n
<1>3. m1 \in Memory /\ \A y \in Cells : /\ m1.next[y] = IF y = list THEN f ELSE m.next[y]
                                       /\ m1.prev[y] = m.prev[y]
  BY <1>0, SetNextFacts
<1>4. m1.next[list] = f
  BY <1>3
<1> HIDE DEF m1
<1>5. m2 \in Memory /\ \A y \in Cells : /\ m2.prev[y] = IF y = f THEN list ELSE m1.prev[y]
                                       /\ m2.next[y] = m1.next[y]
  BY <1>0, <1>3, <1>4, SetPrevFacts
<1> HIDE DEF m2
<1>6. a \in Memory /\ \A y \in Cells : /\ a.prev[y] = IF y = list THEN entry ELSE m2.prev[y]
                                      /\ a.next[y] = m2.next[y]
  BY <1>0, <1>5, SetPrevFacts
<1> HIDE DEF a
<1>7. b \in Memory /\ \A y \in Cells : /\ b.next[y] = IF y = entry THEN list ELSE a.next[y]
                                      /\ b.prev[y] = a.prev[y]
  BY <1>0, <1>6, SetNextFacts
<1> HIDE DEF b
<1>8. c \in Memory /\ \A y \in Cells : /\ c.next[y] = IF y = h THEN n ELSE b.next[y]
                                      /\ c.prev[y] = b.prev[y]
  BY <1>0, <1>7, SetNextFacts
<1> HIDE DEF c
<1>9. d \in Memory /\ \A y \in Cells : /\ d.prev[y] = IF y = n THEN h ELSE c.prev[y]
                                      /\ d.next[y] = c.next[y]
  BY <1>0, <1>8, SetPrevFacts
<1> HIDE DEF d
<1>10. \A y \in Cells :
         /\ d.next[y] = IF y = h THEN n ELSE IF y = entry THEN list ELSE IF y = list THEN f ELSE m.next[y]
         /\ d.prev[y] = IF y = n THEN h ELSE IF y = list THEN entry ELSE IF y = f THEN list ELSE m.prev[y]
  BY <1>3, <1>5, <1>6, <1>7, <1>8, <1>9
<1> QED
  BY <1>1, <1>2, <1>9, <1>10

\* __list_splice, word by word.
LEMMA SpliceRingFacts ==
  ASSUME NEW m \in Memory, NEW list \in Cells, NEW p \in Cells, NEW n \in Cells,
         m.next[list] \in Cells, m.prev[list] \in Cells,
         p # m.prev[list], n # m.next[list]
  PROVE  LET w == SpliceRing(m, list, p, n)
         IN  /\ w \in Memory
             /\ \A y \in Cells :
                  /\ w.next[y] = IF y = m.prev[list] THEN n
                                 ELSE IF y = p THEN m.next[list] ELSE m.next[y]
                  /\ w.prev[y] = IF y = n THEN m.prev[list]
                                 ELSE IF y = m.next[list] THEN p ELSE m.prev[y]
<1> DEFINE f == m.next[list]
           l == m.prev[list]
           a == SetPrev(m, f, p)
           b == SetNext(a, p, f)
           c == SetNext(b, l, n)
           d == SetPrev(c, n, l)
<1>0. /\ f \in Cells /\ l \in Cells /\ p # l /\ n # f
      /\ f \in Words /\ l \in Words /\ p \in Words /\ n \in Words
  BY DEF Words
<1>1. SpliceRing(m, list, p, n) = d
  BY DEF SpliceRing
<1>2. m.next[list] = f /\ m.prev[list] = l
  OBVIOUS
<1> HIDE DEF f, l
<1>3. a \in Memory /\ \A y \in Cells : /\ a.prev[y] = IF y = f THEN p ELSE m.prev[y]
                                      /\ a.next[y] = m.next[y]
  BY <1>0, SetPrevFacts
<1> HIDE DEF a
<1>4. b \in Memory /\ \A y \in Cells : /\ b.next[y] = IF y = p THEN f ELSE a.next[y]
                                      /\ b.prev[y] = a.prev[y]
  BY <1>0, <1>3, SetNextFacts
<1> HIDE DEF b
<1>5. c \in Memory /\ \A y \in Cells : /\ c.next[y] = IF y = l THEN n ELSE b.next[y]
                                      /\ c.prev[y] = b.prev[y]
  BY <1>0, <1>4, SetNextFacts
<1> HIDE DEF c
<1>6. d \in Memory /\ \A y \in Cells : /\ d.prev[y] = IF y = n THEN l ELSE c.prev[y]
                                      /\ d.next[y] = c.next[y]
  BY <1>0, <1>5, SetPrevFacts
<1> HIDE DEF d
<1>7. \A y \in Cells : /\ d.next[y] = IF y = l THEN n ELSE IF y = p THEN f ELSE m.next[y]
                       /\ d.prev[y] = IF y = n THEN l ELSE IF y = f THEN p ELSE m.prev[y]
  BY <1>3, <1>4, <1>5, <1>6
<1> QED
  BY <1>1, <1>2, <1>6, <1>7

\* The same node in two places: the places are the same.
LEMMA ApartPlaces ==
  ASSUME NEW L, Apart(L), NEW d \in Heads, NEW e \in Heads,
         NEW i \in 1 .. Len(L[d]), NEW j \in 1 .. Len(L[e]), L[d][i] = L[e][j]
  PROVE  d = e /\ i = j
BY DEF Apart

\* Two lists replaced by sequences of nodes that are on no other.
LEMMA ApartTwo ==
  ASSUME NEW L \in [Heads -> Seq(Nodes)], Apart(L), NEW f \in Heads, NEW h \in Heads, f # h,
         NEW a \in Seq(Nodes), NEW b \in Seq(Nodes),
         \A i, j \in 1 .. Len(a) : a[i] = a[j] => i = j,
         \A i, j \in 1 .. Len(b) : b[i] = b[j] => i = j,
         \A i \in 1 .. Len(a), j \in 1 .. Len(b) : a[i] # b[j],
         \A g \in Heads \ {f, h} : \A i \in 1 .. Len(L[g]) :
           (\A j \in 1 .. Len(a) : L[g][i] # a[j]) /\ (\A j \in 1 .. Len(b) : L[g][i] # b[j])
  PROVE  Apart([L EXCEPT ![f] = a, ![h] = b])
<1> DEFINE K == [L EXCEPT ![f] = a]
           M == [L EXCEPT ![f] = a, ![h] = b]
<1>1. /\ K \in [Heads -> Seq(Nodes)] /\ K[f] = a /\ \A g \in Heads \ {f} : K[g] = L[g]
      /\ K[h] = L[h]
  OBVIOUS
<1>2. M[f] = a /\ M[h] = b /\ \A g \in Heads \ {f, h} : M[g] = L[g]
  OBVIOUS
<1> HIDE DEF K, M
<1>3. ASSUME NEW d \in Heads, NEW e \in Heads, NEW i \in 1 .. Len(M[d]), NEW j \in 1 .. Len(M[e]),
             M[d][i] = M[e][j]
      PROVE  d = e /\ i = j
  <2>1. CASE d = f /\ e = f
    BY <1>2, <1>3, <2>1
  <2>2. CASE d = h /\ e = h
    BY <1>2, <1>3, <2>2
  <2>3. CASE (d = f /\ e = h) \/ (d = h /\ e = f)
    BY <1>2, <1>3, <2>3
  <2>4. CASE d \notin {f, h} /\ e = f
    BY <1>2, <1>3, <2>4
  <2>5. CASE d \notin {f, h} /\ e = h
    BY <1>2, <1>3, <2>5
  <2>6. CASE e \notin {f, h} /\ d = f
    BY <1>2, <1>3, <2>6
  <2>7. CASE e \notin {f, h} /\ d = h
    BY <1>2, <1>3, <2>7
  <2>8. CASE d \notin {f, h} /\ e \notin {f, h}
    <3>1. M[d] = L[d] /\ M[e] = L[e]
      BY <1>2, <2>8
    <3>2. i \in 1 .. Len(L[d]) /\ j \in 1 .. Len(L[e]) /\ L[d][i] = L[e][j]
      BY <1>3, <3>1, Zenon
    <3> QED
      BY <3>2, ApartPlaces
  <2> QED
    BY <2>1, <2>2, <2>3, <2>4, <2>5, <2>6, <2>7, <2>8
<1> QED
  BY <1>3 DEF Apart, M

\* a is the first i places of s and b the rest.
Halved(s, i, a, b) ==
  /\ Len(a) = i /\ \A j \in 1 .. i : a[j] = s[j]
  /\ Len(b) = Len(s) - i /\ \A j \in 1 .. Len(s) - i : b[j] = s[i + j]

\* __list_cut_position after the i-th node gives list the first i nodes and
\* leaves the head the rest.
LEMMA CutCoherent ==
  ASSUME NEW m, NEW L, NEW R, Coherent(m, L, R), NEW h \in R, NEW list \in Heads, list # h,
         Len(L[list]) = 0, NEW i \in 1 .. Len(L[h]),
         NEW a \in Seq(Nodes), NEW b \in Seq(Nodes), Halved(L[h], i, a, b)
  PROVE  Coherent(CutRing(m, list, h, L[h][i]), [L EXCEPT ![list] = a, ![h] = b], R \cup {list})
<1> DEFINE s == L[h]
           x == s[i]
           f == Cell(h, s, 1)
           n == Cell(h, s, i + 1)
           w == CutRing(m, list, h, x)
           M == [L EXCEPT ![list] = a, ![h] = b]
           C == {h, list, x, f, n}
<1>0. i \in 1 .. Len(s) /\ Len(s) \in Nat /\ Len(a) = i /\ Len(b) = Len(s) - i
  BY DEF Coherent, Halved
<1>a. /\ \A j \in 1 .. i : a[j] = s[j]
      /\ \A j \in 1 .. Len(s) - i : b[j] = s[i + j]
  BY DEF Halved
<1>1. /\ m \in Memory /\ L \in [Heads -> Seq(Nodes)] /\ R \in SUBSET Heads /\ Apart(L)
      /\ h \in Heads /\ s \in Seq(Nodes) /\ Len(s) \in Nat /\ Linked(m, h, s)
      /\ \A g \in Heads \ R : Len(L[g]) = 0
  BY DEF Coherent
<1>2. /\ \A j \in 0 .. Len(s) + 1 : Cell(h, s, j) \in Cells
      /\ \A j \in 1 .. Len(s) : Cell(h, s, j) = s[j] /\ s[j] \in Nodes
      /\ Cell(h, s, 0) = h /\ Cell(h, s, Len(s) + 1) = h
  BY <1>1, CellFacts
<1>3. /\ 0 \in 0 .. Len(s) /\ i \in 0 .. Len(s) /\ 1 \in 0 .. Len(s) /\ i + 1 \in 0 .. Len(s) + 1
      /\ i # 0 /\ 1 \in 1 .. Len(s)
  BY <1>0, <1>1
<1>4. m.next[h] = f /\ m.next[x] = n
  <2>1. m.next[h] = f
    BY <1>1, HeadWords
  <2>2. m.next[x] = n
    BY <1>0, <1>1, Neighbours
  <2> QED
    BY <2>1, <2>2
<1>5. ASSUME NEW j \in 0 .. Len(s)
      PROVE  /\ Cell(h, s, j) = h => j = 0
             /\ Cell(h, s, j) = x => j = i
             /\ Cell(h, s, j + 1) = f => j = 0
             /\ Cell(h, s, j + 1) = n => j = i
  <2>1. \A c, d \in 0 .. Len(s) : /\ Cell(h, s, c) = Cell(h, s, d) => c = d
                                  /\ Cell(h, s, c + 1) = Cell(h, s, d + 1) => c = d
    BY <1>1, RingApart
  <2>2. h = Cell(h, s, 0) /\ x = Cell(h, s, i)
    BY <1>0, <1>2
  <2>3. Cell(h, s, j + 1) = Cell(h, s, 0 + 1) => j = 0
    BY <1>3, <2>1
  <2> HIDE DEF x, s
  <2> QED
    BY <1>3, <2>1, <2>2, <2>3
<1>6. \A j \in 0 .. Len(s) + 1 : Cell(h, s, j) # list
  BY <1>1, ListAssumption DEF Cell
<1>7. PICK q \in 0 .. Len(s) : n = Cell(h, s, q)
  BY <1>1, <1>3, SuccPlace
<1>8. /\ list \in Cells /\ h \in Cells /\ x \in Cells /\ f \in Cells /\ n \in Cells
      /\ x = Cell(h, s, i) /\ list # x /\ h # x /\ f # n /\ f # list /\ n # list
  <2>1. list \in Cells /\ h \in Cells
    BY <1>1 DEF Cells
  <2>2. x = Cell(h, s, i) /\ x \in Cells /\ f \in Cells /\ n \in Cells
    BY <1>0, <1>2, <1>3
  <2>3. list # x /\ f # list /\ n # list
    BY <1>3, <1>6, <2>2
  <2>4. h # x /\ f # n
    BY <1>3, <1>5, <2>2
  <2> QED
    BY <2>1, <2>2, <2>3, <2>4
<1>9. M \in [Heads -> Seq(Nodes)] /\ M[list] = a /\ M[h] = b
      /\ \A g \in Heads \ {list, h} : M[g] = L[g]
  BY <1>1
<1>10. /\ Cell(list, a, 0) = list /\ Cell(list, a, i + 1) = list
       /\ \A j \in 1 .. i : Cell(list, a, j) = Cell(h, s, j)
  BY <1>0, <1>a DEF Cell
<1>11. /\ Cell(h, b, 0) = h
       /\ \A j \in 1 .. Len(s) - i + 1 : Cell(h, b, j) = Cell(h, s, i + j)
  BY <1>0, <1>a DEF Cell
<1> HIDE DEF s, x, f, n, M
<1>12. /\ w \in Memory
       /\ \A y \in Cells :
            /\ w.next[y] = IF y = h THEN n ELSE IF y = x THEN list ELSE IF y = list THEN f ELSE m.next[y]
            /\ w.prev[y] = IF y = n THEN h ELSE IF y = list THEN x ELSE IF y = f THEN list ELSE m.prev[y]
  BY <1>1, <1>4, <1>8, CutRingFacts
<1> HIDE DEF w
<1>13. SameOutside(m, w, C)
  BY <1>12 DEF SameOutside
<1>14. \A j \in 0 .. Len(s) : /\ m.next[Cell(h, s, j)] = Cell(h, s, j + 1)
                              /\ m.prev[Cell(h, s, j + 1)] = Cell(h, s, j)
  BY <1>1 DEF Linked
<1>15. Linked(w, list, a)
  <2> SUFFICES ASSUME NEW j \in 0 .. i
               PROVE  /\ w.next[Cell(list, a, j)] = Cell(list, a, j + 1)
                      /\ w.prev[Cell(list, a, j + 1)] = Cell(list, a, j)
    BY <1>0 DEF Linked
  <2>1. CASE j = 0
    <3>1. Cell(list, a, j) = list /\ Cell(list, a, j + 1) = f
      BY <1>3, <1>10, <2>1, <1>0, <1>1 DEF f
    <3> QED
      BY <1>8, <1>12, <3>1
  <2>2. CASE j = i
    <3>1. Cell(list, a, j) = x /\ Cell(list, a, j + 1) = list
      BY <1>0, <1>8, <1>10, <2>2
    <3> QED
      BY <1>8, <1>12, <3>1
  <2>3. CASE j # 0 /\ j # i
    <3>1. /\ j \in 0 .. Len(s) /\ j + 1 \in 0 .. Len(s) + 1 /\ j \in 0 .. Len(s) + 1
          /\ j \in 1 .. i /\ j + 1 \in 1 .. i
      BY <1>0, <2>3
    <3>a. Cell(list, a, j) = Cell(h, s, j) /\ Cell(list, a, j + 1) = Cell(h, s, j + 1)
      BY <1>10, <3>1
    <3>2. /\ Cell(h, s, j) \in Cells \ {h, x, list}
          /\ Cell(h, s, j + 1) \in Cells \ {n, list, f}
      BY <1>2, <1>5, <1>6, <2>3, <3>1
    <3> QED
      BY <1>12, <1>14, <3>1, <3>a, <3>2
  <2> QED
    BY <2>1, <2>2, <2>3
<1>16. Linked(w, h, b)
  <2> SUFFICES ASSUME NEW j \in 0 .. Len(s) - i
               PROVE  /\ w.next[Cell(h, b, j)] = Cell(h, b, j + 1)
                      /\ w.prev[Cell(h, b, j + 1)] = Cell(h, b, j)
    BY <1>0 DEF Linked
  <2>1. CASE j = 0
    <3>1. 1 \in 1 .. Len(s) - i + 1
      BY <1>0, <1>1
    <3>2. Cell(h, b, j) = h /\ Cell(h, b, j + 1) = n
      BY <1>11, <2>1, <3>1 DEF n
    <3> QED
      BY <1>8, <1>12, <3>2
  <2>2. CASE j # 0
    <3> DEFINE k == i + j
    <3>1. /\ k \in 0 .. Len(s) /\ k + 1 \in 0 .. Len(s) + 1 /\ k \in 0 .. Len(s) + 1
          /\ k # 0 /\ k # i /\ i + (j + 1) = k + 1
          /\ j \in 1 .. Len(s) - i + 1 /\ j + 1 \in 1 .. Len(s) - i + 1
      <4>1. i \in Nat /\ j \in Nat /\ Len(s) \in Nat /\ 1 <= i /\ 1 <= j /\ j <= Len(s) - i
        BY <1>0, <2>2
      <4>2. /\ k \in 0 .. Len(s) /\ k + 1 \in 0 .. Len(s) + 1 /\ k \in 0 .. Len(s) + 1
        BY <4>1
      <4>3. k # 0 /\ k # i /\ i + (j + 1) = k + 1
        BY <4>1
      <4>4. j \in 1 .. Len(s) - i + 1 /\ j + 1 \in 1 .. Len(s) - i + 1
        BY <4>1
      <4> QED
        BY <4>2, <4>3, <4>4
    <3>2. Cell(h, b, j) = Cell(h, s, k) /\ Cell(h, b, j + 1) = Cell(h, s, k + 1)
      BY <1>11, <3>1
    <3> HIDE DEF k
    <3>3. /\ Cell(h, s, k) \in Cells \ {h, x, list}
          /\ Cell(h, s, k + 1) \in Cells \ {n, list, f}
      BY <1>2, <1>5, <1>6, <3>1
    <3> QED
      <4>1. /\ m.next[Cell(h, s, k)] = Cell(h, s, k + 1)
            /\ m.prev[Cell(h, s, k + 1)] = Cell(h, s, k)
        BY <1>14, <3>1
      <4> QED
        BY <1>12, <3>2, <3>3, <4>1
  <2> QED
    BY <2>1, <2>2
<1>17. Apart(M)
  <2>1. \A c, d \in 1 .. Len(s) : s[c] = s[d] => c = d
    BY <1>1 DEF Apart, s
  <2>2. \A g \in Heads \ {list, h} : \A c \in 1 .. Len(L[g]), d \in 1 .. Len(s) : L[g][c] # s[d]
    BY <1>1 DEF Apart, s
  <2>3. \A j \in 1 .. Len(a) : j \in 1 .. Len(s) /\ a[j] = s[j] /\ j <= i
    BY <1>0, <1>a
  <2>4. \A j \in 1 .. Len(b) : i + j \in 1 .. Len(s) /\ b[j] = s[i + j] /\ i + j > i
    BY <1>0, <1>a
  <2>5. \A c, d \in 1 .. Len(a) : a[c] = a[d] => c = d
    BY <2>1, <2>3
  <2>6. \A c, d \in 1 .. Len(b) : b[c] = b[d] => c = d
    <3> SUFFICES ASSUME NEW c \in 1 .. Len(b), NEW d \in 1 .. Len(b), b[c] = b[d]
                 PROVE  c = d
      OBVIOUS
    <3>1. i + c \in 1 .. Len(s) /\ i + d \in 1 .. Len(s) /\ s[i + c] = s[i + d]
      BY <2>4
    <3>2. i + c = i + d
      BY <2>1, <3>1
    <3> QED
      BY <1>0, <3>2
  <2>7. \A c \in 1 .. Len(a), d \in 1 .. Len(b) : a[c] # b[d]
    <3> SUFFICES ASSUME NEW c \in 1 .. Len(a), NEW d \in 1 .. Len(b), a[c] = b[d]
                 PROVE  FALSE
      OBVIOUS
    <3>1. c \in 1 .. Len(s) /\ a[c] = s[c] /\ c <= i
      BY <2>3
    <3>2. i + d \in 1 .. Len(s) /\ b[d] = s[i + d] /\ i + d > i
      BY <2>4
    <3>3. c = i + d
      BY <2>1, <3>1, <3>2
    <3> QED
      BY <1>0, <3>1, <3>2, <3>3
  <2>8. \A g \in Heads \ {list, h} : \A c \in 1 .. Len(L[g]) :
          (\A j \in 1 .. Len(a) : L[g][c] # a[j]) /\ (\A j \in 1 .. Len(b) : L[g][c] # b[j])
    <3> SUFFICES ASSUME NEW g \in Heads \ {list, h}, NEW c \in 1 .. Len(L[g])
                 PROVE  /\ \A j \in 1 .. Len(a) : L[g][c] # a[j]
                        /\ \A j \in 1 .. Len(b) : L[g][c] # b[j]
      OBVIOUS
    <3>1. \A d \in 1 .. Len(s) : L[g][c] # s[d]
      BY <2>2
    <3>2. ASSUME NEW j \in 1 .. Len(a) PROVE L[g][c] # a[j]
      BY <2>3, <3>1
    <3>3. ASSUME NEW j \in 1 .. Len(b) PROVE L[g][c] # b[j]
      <4>1. i + j \in 1 .. Len(s) /\ b[j] = s[i + j]
        BY <2>4
      <4> QED
        BY <3>1, <4>1
    <3> QED
      BY <3>2, <3>3
  <2> QED
    BY <1>1, <2>5, <2>6, <2>7, <2>8, ApartTwo DEF M
<1>18. \A g \in Heads \ (R \cup {list}) : Len(M[g]) = 0
  BY <1>1, <1>9
<1>19. ASSUME NEW g \in R, g # h, g # list
       PROVE  g \in R /\ M[g] = L[g] /\ \A j \in 0 .. Len(L[g]) : Cell(g, L[g], j) \notin C
  <2>1. g \in Heads /\ M[g] = L[g] /\ L[g] \in Seq(Nodes)
    BY <1>1, <1>9, <1>19
  <2>2. ASSUME NEW j \in 0 .. Len(L[g]), NEW e \in 0 .. Len(s)
        PROVE  Cell(g, L[g], j) # Cell(h, s, e)
    BY <1>1, <1>19, <2>1, CellsApart DEF s
  <2>3. ASSUME NEW j \in 0 .. Len(L[g]) PROVE Cell(g, L[g], j) \notin C
    <3>1. Cell(g, L[g], j) # list
      BY <1>19, <2>1, ListAssumption DEF Cell
    <3>2. Cell(g, L[g], j) \notin {h, x, f, n}
      BY <1>2, <1>3, <1>7, <1>8, <2>2 DEF f
    <3> QED
      BY <3>1, <3>2
  <2> QED
    BY <2>1, <2>3
<1> HIDE DEF C
<1>20. \A g \in R \cup {list} :
         \/ Linked(w, g, M[g])
         \/ /\ g \in R /\ M[g] = L[g]
            /\ \A j \in 0 .. Len(L[g]) : Cell(g, L[g], j) \notin C
  BY <1>9, <1>15, <1>16, <1>19
<1>21. Coherent(w, M, R \cup {list})
  <2>1. R \cup {list} \in SUBSET Heads
    BY <1>1
  <2> QED
    BY <1>9, <1>12, <1>13, <1>17, <1>18, <1>20, <2>1, CoherentStep
<1> QED
  BY <1>21 DEF w, M, x, s

\* t is u with v put in after its k-th place.
Spliced(t, u, k, v) ==
  /\ Len(t) = Len(u) + Len(v)
  /\ \A j \in 1 .. Len(u) + Len(v) :
       t[j] = IF j <= k THEN u[j] ELSE IF j <= k + Len(v) THEN v[j - k] ELSE u[j - Len(v)]

\* __list_splice puts all nodes of list between two neighbours of another ring
\* and leaves its head pointing at nodes it no longer has.
LEMMA SpliceCoherent ==
  ASSUME NEW m, NEW L, NEW R, Coherent(m, L, R), NEW h \in R, NEW list \in R, list # h,
         Len(L[list]) # 0, NEW k \in 0 .. Len(L[h]),
         NEW t \in Seq(Nodes), Spliced(t, L[h], k, L[list])
  PROVE  Coherent(SpliceRing(m, list, Cell(h, L[h], k), Cell(h, L[h], k + 1)),
                  [L EXCEPT ![list] = << >>, ![h] = t], R \ {list})
<1> DEFINE u == L[h]
           v == L[list]
           lu == Len(u)
           lv == Len(v)
           p == Cell(h, u, k)
           n == Cell(h, u, k + 1)
           f == Cell(list, v, 1)
           l == Cell(list, v, lv)
           w == SpliceRing(m, list, p, n)
           M == [L EXCEPT ![list] = << >>, ![h] = t]
           C == {p, n, f, l}
<1>1. /\ m \in Memory /\ L \in [Heads -> Seq(Nodes)] /\ R \in SUBSET Heads /\ Apart(L)
      /\ h \in Heads /\ u \in Seq(Nodes) /\ Linked(m, h, u)
      /\ list \in Heads /\ v \in Seq(Nodes) /\ Linked(m, list, v)
      /\ \A g \in Heads \ R : Len(L[g]) = 0
  BY DEF Coherent
<1>2. lu \in Nat /\ lv \in Nat /\ lv >= 1 /\ k \in 0 .. lu /\ Len(t) = lu + lv
  BY <1>1 DEF Spliced
<1>3. \A j \in 1 .. lu + lv :
        t[j] = IF j <= k THEN u[j] ELSE IF j <= k + lv THEN v[j - k] ELSE u[j - lv]
  BY DEF Spliced
<1>4. /\ \A j \in 0 .. lu + 1 : Cell(h, u, j) \in Cells
      /\ \A j \in 0 .. lv + 1 : Cell(list, v, j) \in Cells
      /\ Cell(list, v, 0) = list
  BY <1>1, CellFacts
<1>5. m.next[list] = f /\ m.prev[list] = l
  BY <1>1, HeadWords
<1>6. /\ \A i, j \in 0 .. lu : /\ Cell(h, u, i) = Cell(h, u, j) => i = j
                               /\ Cell(h, u, i + 1) = Cell(h, u, j + 1) => i = j
      /\ \A i, j \in 0 .. lv : /\ Cell(list, v, i) = Cell(list, v, j) => i = j
                               /\ Cell(list, v, i + 1) = Cell(list, v, j + 1) => i = j
  BY <1>1, RingApart
<1>7. /\ \A i \in 0 .. lu, j \in 0 .. lv : Cell(h, u, i) # Cell(list, v, j)
      /\ \A i \in 0 .. lu, j \in 0 .. lv : Cell(h, u, i + 1) # Cell(list, v, j + 1)
  BY <1>1, CellsApart, SuccApart
<1>8. PICK q \in 0 .. lu : n = Cell(h, u, q)
  BY <1>1, <1>2, SuccPlace
<1>9. /\ \A j \in 0 .. k : Cell(h, t, j) = Cell(h, u, j)
      /\ \A j \in k + 1 .. k + lv : Cell(h, t, j) = Cell(list, v, j - k)
      /\ \A j \in k + lv + 1 .. lu + lv + 1 : Cell(h, t, j) = Cell(h, u, j - lv)
  <2> HIDE DEF u, v, lu, lv
  <2>1. /\ \A j \in 1 .. lu : Cell(h, u, j) = u[j]
        /\ \A j \in 1 .. lv : Cell(list, v, j) = v[j]
        /\ \A j \in 1 .. lu + lv : Cell(h, t, j) = t[j]
        /\ Cell(h, u, 0) = h /\ Cell(h, u, lu + 1) = h
        /\ Cell(h, t, 0) = h /\ Cell(h, t, lu + lv + 1) = h
    <3>1. \A j \in 1 .. lu : Cell(h, u, j) = u[j]
      BY DEF Cell, lu
    <3>2. \A j \in 1 .. lv : Cell(list, v, j) = v[j]
      BY DEF Cell, lv
    <3>3. \A j \in 1 .. lu + lv : Cell(h, t, j) = t[j]
      BY <1>2 DEF Cell
    <3>4. Cell(h, u, 0) = h /\ Cell(h, t, 0) = h
      BY DEF Cell
    <3>5. lu + 1 \notin 1 .. Len(u)
      BY <1>2 DEF lu
    <3>6. lu + lv + 1 \notin 1 .. Len(t)
      <4>1. Len(t) \in Nat /\ lu + lv + 1 = Len(t) + 1
        BY <1>2
      <4> QED
        BY <4>1
    <3>7. Cell(h, u, lu + 1) = h /\ Cell(h, t, lu + lv + 1) = h
      BY <3>5, <3>6 DEF Cell
    <3> QED
      BY <3>1, <3>2, <3>3, <3>4, <3>7
  <2>2. ASSUME NEW j \in 0 .. k PROVE Cell(h, t, j) = Cell(h, u, j)
    <3>1. CASE j = 0
      BY <2>1, <3>1
    <3>2. CASE j # 0
      <4>1. j \in 1 .. lu /\ j \in 1 .. lu + lv /\ j <= k
        BY <1>2, <3>2
      <4> QED
        BY <1>3, <2>1, <4>1
    <3> QED
      BY <3>1, <3>2
  <2>3. ASSUME NEW j \in k + 1 .. k + lv PROVE Cell(h, t, j) = Cell(list, v, j - k)
    <3>1. j - k \in 1 .. lv /\ j \in 1 .. lu + lv /\ ~ (j <= k) /\ j <= k + lv
      BY <1>2
    <3> QED
      BY <1>3, <2>1, <3>1
  <2>4. ASSUME NEW j \in k + lv + 1 .. lu + lv + 1 PROVE Cell(h, t, j) = Cell(h, u, j - lv)
    <3>1. CASE j = lu + lv + 1
      <4>1. j - lv = lu + 1
        BY <1>2, <3>1
      <4> QED
        BY <2>1, <3>1, <4>1
    <3>2. CASE j # lu + lv + 1
      <4>1. j - lv \in 1 .. lu /\ j \in 1 .. lu + lv /\ ~ (j <= k) /\ ~ (j <= k + lv)
        BY <1>2, <3>2
      <4> QED
        BY <1>3, <2>1, <4>1
    <3> QED
      BY <3>1, <3>2
  <2> QED
    BY <2>2, <2>3, <2>4
<1>10. /\ M \in [Heads -> Seq(Nodes)] /\ M[list] = << >> /\ M[h] = t
       /\ \A g \in Heads \ {list, h} : M[g] = L[g]
  <2> DEFINE e == << >>
             K == [L EXCEPT ![list] = e]
  <2>1. e \in Seq(Nodes)
    OBVIOUS
  <2> HIDE DEF e
  <2>2. K \in [Heads -> Seq(Nodes)] /\ K[list] = e /\ \A g \in Heads \ {list} : K[g] = L[g]
    BY <1>1, <2>1
  <2>3. M = [K EXCEPT ![h] = t]
    BY DEF e
  <2> HIDE DEF K, M
  <2> QED
    BY <1>1, <2>2, <2>3 DEF e
<1>11. \A i \in 0 .. lu : /\ m.next[Cell(h, u, i)] = Cell(h, u, i + 1)
                          /\ m.prev[Cell(h, u, i + 1)] = Cell(h, u, i)
  BY <1>1 DEF Linked
<1>12. \A i \in 0 .. lv : /\ m.next[Cell(list, v, i)] = Cell(list, v, i + 1)
                          /\ m.prev[Cell(list, v, i + 1)] = Cell(list, v, i)
  BY <1>1 DEF Linked
<1>13. \A a, b \in 1 .. lu : u[a] = u[b] => a = b
  BY <1>1 DEF Apart
<1>14. \A a, b \in 1 .. lv : v[a] = v[b] => a = b
  BY <1>1 DEF Apart
<1>15. \A a \in 1 .. lu, b \in 1 .. lv : u[a] # v[b]
  BY <1>1 DEF Apart
<1>16. \A g \in Heads \ {list, h} : \A c \in 1 .. Len(L[g]) :
         (\A d \in 1 .. lu : L[g][c] # u[d]) /\ (\A d \in 1 .. lv : L[g][c] # v[d])
  BY <1>1 DEF Apart
<1>17. ASSUME NEW g \in R, g # h, g # list
       PROVE  /\ g \in Heads /\ M[g] = L[g]
              /\ \A j \in 0 .. Len(L[g]) : /\ \A i \in 0 .. lu : Cell(g, L[g], j) # Cell(h, u, i)
                                           /\ \A i \in 0 .. lv : Cell(g, L[g], j) # Cell(list, v, i)
  BY <1>1, <1>10, <1>17, CellsApart
<1> HIDE DEF u, v, lu, lv, M
<1>18. /\ k \in 0 .. lu + 1 /\ k + 1 \in 0 .. lu + 1 /\ 1 \in 0 .. lv + 1 /\ lv \in 0 .. lv + 1
       /\ lv \in 0 .. lv /\ 1 \in 0 .. lv /\ 0 \in 0 .. lv
  BY <1>2
<1>19. p \in Cells /\ n \in Cells /\ f \in Cells /\ l \in Cells /\ list \in Cells
  BY <1>1, <1>4, <1>18 DEF Cells
<1>20. p # l /\ n # f
  BY <1>2, <1>7, <1>8, <1>18
<1> HIDE DEF p, n, f, l
<1>21. /\ w \in Memory
       /\ \A y \in Cells :
            /\ w.next[y] = IF y = l THEN n ELSE IF y = p THEN f ELSE m.next[y]
            /\ w.prev[y] = IF y = n THEN l ELSE IF y = f THEN p ELSE m.prev[y]
  BY <1>1, <1>5, <1>19, <1>20, SpliceRingFacts
<1> HIDE DEF w
<1>22. SameOutside(m, w, C)
  BY <1>21 DEF SameOutside
<1>23. ASSUME NEW i \in 0 .. lu, i # k
       PROVE  /\ w.next[Cell(h, u, i)] = Cell(h, u, i + 1)
              /\ w.prev[Cell(h, u, i + 1)] = Cell(h, u, i)
  <2>1. i \in 0 .. lu + 1 /\ i + 1 \in 0 .. lu + 1
    BY <1>2
  <2>2. Cell(h, u, i) \in Cells /\ Cell(h, u, i + 1) \in Cells
    BY <1>4, <2>1
  <2>3. Cell(h, u, i) # l /\ Cell(h, u, i) # p
    BY <1>2, <1>6, <1>7, <1>18, <1>23 DEF p, l
  <2>4. Cell(h, u, i + 1) # n
    BY <1>2, <1>6, <1>23 DEF n
  <2>5. Cell(h, u, i + 1) # f
    <3>1. 0 \in 0 .. lv /\ Cell(h, u, i + 1) # Cell(list, v, 0 + 1)
      BY <1>7, <1>18
    <3> QED
      BY <3>1 DEF f
  <2> QED
    BY <1>11, <1>21, <2>2, <2>3, <2>4, <2>5
<1>24. ASSUME NEW i \in 1 .. lv - 1
       PROVE  /\ w.next[Cell(list, v, i)] = Cell(list, v, i + 1)
              /\ w.prev[Cell(list, v, i + 1)] = Cell(list, v, i)
  <2>1. /\ i \in 0 .. lv /\ i + 1 \in 0 .. lv /\ i \in 0 .. lv + 1 /\ i + 1 \in 0 .. lv + 1
        /\ i # 0 /\ i # lv /\ i + 1 # 1
    BY <1>2
  <2>2. Cell(list, v, i) \in Cells /\ Cell(list, v, i + 1) \in Cells
    BY <1>4, <2>1
  <2>3. Cell(list, v, i) # l /\ Cell(list, v, i) # p
    BY <1>2, <1>6, <1>7, <1>18, <2>1 DEF p, l
  <2>4. Cell(list, v, i + 1) # n
    BY <1>2, <1>7, <1>8, <2>1
  <2>5. Cell(list, v, i + 1) # f
    BY <1>6, <1>18, <2>1 DEF f
  <2> QED
    BY <1>12, <1>21, <2>1, <2>2, <2>3, <2>4, <2>5
<1>25. Linked(w, h, t)
  <2> SUFFICES ASSUME NEW j \in 0 .. lu + lv
               PROVE  /\ w.next[Cell(h, t, j)] = Cell(h, t, j + 1)
                      /\ w.prev[Cell(h, t, j + 1)] = Cell(h, t, j)
    BY <1>2 DEF Linked
  <2>1. CASE j < k
    <3>1. j \in 0 .. lu /\ j # k /\ j \in 0 .. k /\ j + 1 \in 0 .. k
      BY <1>2, <2>1
    <3>2. Cell(h, t, j) = Cell(h, u, j) /\ Cell(h, t, j + 1) = Cell(h, u, j + 1)
      BY <1>9, <3>1
    <3> QED
      BY <1>23, <3>1, <3>2
  <2>2. CASE j = k
    <3>1. j \in 0 .. k /\ j + 1 \in k + 1 .. k + lv /\ (j + 1) - k = 1
      BY <1>2, <2>2
    <3>2. Cell(h, t, j) = p /\ Cell(h, t, j + 1) = f
      BY <1>9, <2>2, <3>1 DEF p, f
    <3> QED
      BY <1>19, <1>20, <1>21, <3>2
  <2>3. CASE k < j /\ j < k + lv
    <3> DEFINE i == j - k
    <3>1. /\ i \in 1 .. lv - 1 /\ (j + 1) - k = i + 1
          /\ j \in k + 1 .. k + lv /\ j + 1 \in k + 1 .. k + lv
      BY <1>2, <2>3
    <3>2. Cell(h, t, j) = Cell(list, v, i) /\ Cell(h, t, j + 1) = Cell(list, v, i + 1)
      BY <1>9, <3>1
    <3> HIDE DEF i
    <3> QED
      BY <1>24, <3>1, <3>2
  <2>4. CASE j = k + lv
    <3>1. /\ j \in k + 1 .. k + lv /\ j - k = lv /\ (j + 1) - lv = k + 1
          /\ j + 1 \in k + lv + 1 .. lu + lv + 1
      BY <1>2, <2>4
    <3>2. Cell(h, t, j) = l /\ Cell(h, t, j + 1) = n
      BY <1>9, <3>1 DEF l, n
    <3> QED
      BY <1>19, <1>20, <1>21, <3>2
  <2>5. CASE j > k + lv
    <3> DEFINE i == j - lv
    <3>1. /\ i \in 0 .. lu /\ i # k /\ (j + 1) - lv = i + 1
          /\ j \in k + lv + 1 .. lu + lv + 1 /\ j + 1 \in k + lv + 1 .. lu + lv + 1
      BY <1>2, <2>5
    <3>2. Cell(h, t, j) = Cell(h, u, i) /\ Cell(h, t, j + 1) = Cell(h, u, i + 1)
      BY <1>9, <3>1
    <3> HIDE DEF i
    <3> QED
      BY <1>23, <3>1, <3>2
  <2> QED
    BY <1>2, <2>1, <2>2, <2>3, <2>4, <2>5
<1>26. Apart(M)
  <2> DEFINE from(j) == IF j <= k THEN j ELSE IF j <= k + lv THEN j - k ELSE j - lv
             own(j)  == j <= k \/ j > k + lv
  <2>1. ASSUME NEW j \in 1 .. Len(t)
        PROVE  /\ own(j) => from(j) \in 1 .. lu /\ t[j] = u[from(j)]
               /\ ~ own(j) => from(j) \in 1 .. lv /\ t[j] = v[from(j)]
    <3>1. j \in 1 .. lu + lv /\ k \in 0 .. lu /\ lu \in Nat /\ lv \in Nat
      BY <1>2
    <3>2. CASE j <= k
      <4>1. j \in 1 .. lu /\ from(j) = j /\ own(j)
        BY <3>1, <3>2
      <4>2. t[j] = u[j]
        BY <1>3, <3>1, <3>2
      <4> QED
        BY <4>1, <4>2
    <3>3. CASE ~ (j <= k) /\ j <= k + lv
      <4>1. j - k \in 1 .. lv /\ from(j) = j - k /\ ~ own(j)
        BY <3>1, <3>3
      <4>2. t[j] = v[j - k]
        BY <1>3, <3>1, <3>3
      <4> QED
        BY <4>1, <4>2
    <3>4. CASE ~ (j <= k) /\ ~ (j <= k + lv)
      <4>1. j - lv \in 1 .. lu /\ from(j) = j - lv /\ own(j)
        BY <3>1, <3>4
      <4>2. t[j] = u[j - lv]
        BY <1>3, <3>1, <3>4
      <4> QED
        BY <4>1, <4>2
    <3> QED
      BY <3>2, <3>3, <3>4
  <2>2. ASSUME NEW i \in 1 .. Len(t), NEW j \in 1 .. Len(t), own(i) <=> own(j), from(i) = from(j)
        PROVE  i = j
    BY <1>2, <2>2
  <2> HIDE DEF from, own
  <2>3. ASSUME NEW i \in 1 .. Len(t), NEW j \in 1 .. Len(t), t[i] = t[j]
        PROVE  i = j
    <3>1. own(i) <=> own(j)
      BY <1>15, <2>1, <2>3
    <3>2. from(i) = from(j)
      <4>1. CASE own(i)
        <5>1. /\ from(i) \in 1 .. lu /\ t[i] = u[from(i)]
              /\ from(j) \in 1 .. lu /\ t[j] = u[from(j)]
          BY <2>1, <3>1, <4>1
        <5> QED
          BY <1>13, <2>3, <5>1
      <4>2. CASE ~ own(i)
        <5>1. /\ from(i) \in 1 .. lv /\ t[i] = v[from(i)]
              /\ from(j) \in 1 .. lv /\ t[j] = v[from(j)]
          BY <2>1, <3>1, <4>2
        <5> QED
          BY <1>14, <2>3, <5>1
      <4> QED
        BY <4>1, <4>2
    <3> QED
      BY <2>2, <3>1, <3>2
  <2>4. ASSUME NEW g \in Heads \ {list, h}, NEW c \in 1 .. Len(L[g]), NEW j \in 1 .. Len(t)
        PROVE  L[g][c] # t[j]
    <3>1. (\A d \in 1 .. lu : L[g][c] # u[d]) /\ (\A d \in 1 .. lv : L[g][c] # v[d])
      BY <1>16
    <3>2. CASE own(j)
      BY <2>1, <3>1, <3>2
    <3>3. CASE ~ own(j)
      BY <2>1, <3>1, <3>3
    <3> QED
      BY <3>2, <3>3
  <2> DEFINE e == << >>
  <2>5. e \in Seq(Nodes) /\ Len(e) = 0 /\ 1 .. Len(e) = {}
    OBVIOUS
  <2>6. M = [L EXCEPT ![list] = e, ![h] = t]
    BY DEF M
  <2> HIDE DEF e
  <2>7. \A g \in Heads \ {list, h} : \A c \in 1 .. Len(L[g]) :
          (\A j \in 1 .. Len(e) : L[g][c] # e[j]) /\ (\A j \in 1 .. Len(t) : L[g][c] # t[j])
    BY <2>4, <2>5
  <2>8. /\ \A i, j \in 1 .. Len(e) : e[i] = e[j] => i = j
        /\ \A i, j \in 1 .. Len(t) : t[i] = t[j] => i = j
        /\ \A i \in 1 .. Len(e), j \in 1 .. Len(t) : e[i] # t[j]
    BY <2>3, <2>5
  <2>9. Apart([L EXCEPT ![list] = e, ![h] = t])
    BY <1>1, <2>5, <2>7, <2>8, ApartTwo
  <2> QED
    BY <2>6, <2>9
<1>27. \A g \in Heads \ (R \ {list}) : Len(M[g]) = 0
  BY <1>1, <1>10
<1>28. ASSUME NEW g \in R \ {list}, g # h
       PROVE  g \in R /\ M[g] = L[g] /\ \A j \in 0 .. Len(L[g]) : Cell(g, L[g], j) \notin C
  <2>1. \A j \in 0 .. Len(L[g]) : /\ \A i \in 0 .. lu : Cell(g, L[g], j) # Cell(h, u, i)
                                  /\ \A i \in 0 .. lv : Cell(g, L[g], j) # Cell(list, v, i)
    BY <1>17, <1>28
  <2>2. \A j \in 0 .. Len(L[g]) : Cell(g, L[g], j) \notin C
    BY <1>2, <1>8, <1>18, <2>1 DEF p, f, l
  <2> QED
    BY <1>17, <1>28, <2>2
<1> HIDE DEF C
<1>29. \A g \in R \ {list} :
         \/ Linked(w, g, M[g])
         \/ /\ g \in R /\ M[g] = L[g]
            /\ \A j \in 0 .. Len(L[g]) : Cell(g, L[g], j) \notin C
  BY <1>10, <1>25, <1>28
<1>30. Coherent(w, M, R \ {list})
  <2>1. R \ {list} \in SUBSET Heads
    BY <1>1
  <2> QED
    BY <1>10, <1>21, <1>22, <1>26, <1>27, <1>29, <2>1, CoherentStep
<1> QED
  BY <1>30 DEF w, M, p, n, u

-------------------------------------------------------------------------------
(* The operations on memory *)

\* list_add's pointers.
LEMMA AddFrontCoherent ==
  ASSUME NEW m, NEW L, NEW R, Coherent(m, L, R), NEW h \in R, NEW x \in Nodes,
         OffLists(x, L)
  PROVE  Coherent(AddFront(m, x, h), [L EXCEPT ![h] = <<x>> \o @], R)
<1> DEFINE s == L[h]
           t == <<x>> \o s
<1>1. h \in Heads /\ L \in [Heads -> Seq(Nodes)] /\ s \in Seq(Nodes) /\ Len(s) \in Nat
      /\ Linked(m, h, s)
  BY DEF Coherent
<1>2. m.next[h] = Cell(h, s, 0 + 1) /\ h = Cell(h, s, 0)
  BY <1>1, HeadWords, CellFacts
<1>3. t \in Seq(Nodes) /\ Len(t) = Len(s) + 1 /\ 0 \in 0 .. Len(s)
  <2> HIDE DEF s
  <2> QED
    BY <1>1
<1>4. \A j \in 1 .. Len(s) + 1 : t[j] = IF j <= 0 THEN s[j] ELSE IF j = 0 + 1 THEN x ELSE s[j - 1]
  <2> HIDE DEF s
  <2> QED
    BY <1>1
<1> HIDE DEF t
<1>5. Coherent(LinkBetween(m, x, Cell(h, s, 0), Cell(h, s, 0 + 1)), [L EXCEPT ![h] = t], R)
  BY <1>3, <1>4, InsertCoherent DEF Inserted
<1> QED
  BY <1>2, <1>5 DEF AddFront, t

\* list_add_tail's pointers.
LEMMA AddTailCoherent ==
  ASSUME NEW m, NEW L, NEW R, Coherent(m, L, R), NEW h \in R, NEW x \in Nodes,
         OffLists(x, L)
  PROVE  Coherent(AddTail(m, x, h), [L EXCEPT ![h] = Append(@, x)], R)
<1> DEFINE s == L[h]
           t == Append(s, x)
           k == Len(s)
<1>1. h \in Heads /\ L \in [Heads -> Seq(Nodes)] /\ s \in Seq(Nodes) /\ k \in Nat
      /\ Linked(m, h, s)
  BY DEF Coherent
<1>2. m.prev[h] = Cell(h, s, k) /\ h = Cell(h, s, k + 1)
  BY <1>1, HeadWords, CellFacts
<1>3. t \in Seq(Nodes) /\ Len(t) = Len(s) + 1 /\ k \in 0 .. Len(s)
  <2> HIDE DEF s
  <2> QED
    BY <1>1
<1>4. \A j \in 1 .. Len(s) + 1 : t[j] = IF j <= k THEN s[j] ELSE IF j = k + 1 THEN x ELSE s[j - 1]
  <2> HIDE DEF s
  <2> QED
    BY <1>1
<1> HIDE DEF t, k
<1>5. Coherent(LinkBetween(m, x, Cell(h, s, k), Cell(h, s, k + 1)), [L EXCEPT ![h] = t], R)
  BY <1>3, <1>4, InsertCoherent DEF Inserted
<1> QED
  BY <1>2, <1>5 DEF AddTail, t

\* __list_del_entry's pointers; the node is then on no list.
LEMMA DelCoherent ==
  ASSUME NEW m, NEW L, NEW R, Coherent(m, L, R), NEW h \in R, NEW k \in 1 .. Len(L[h]),
         NEW M, M = [L EXCEPT ![h] = RemoveAt(@, k)]
  PROVE  /\ Coherent(Del(m, L[h][k]), M, R)
         /\ L[h][k] \in Nodes
         /\ OffLists(L[h][k], M)
<1> DEFINE s == L[h]
           t == RemoveAt(s, k)
<1>1. h \in Heads /\ L \in [Heads -> Seq(Nodes)] /\ s \in Seq(Nodes) /\ s[k] \in Nodes
  BY DEF Coherent
<1>2. /\ t \in Seq(Nodes) /\ Len(t) = Len(s) - 1
      /\ \A j \in 1 .. Len(s) - 1 : t[j] = IF j < k THEN s[j] ELSE s[j + 1]
  <2>1. k \in 1 .. Len(s)
    OBVIOUS
  <2> HIDE DEF s
  <2> QED
    BY <1>1, <2>1, RemoveAtFacts
<1>3. M = [L EXCEPT ![h] = t]
  OBVIOUS
<1> HIDE DEF t
<1>4. /\ Coherent(Del(m, L[h][k]), [L EXCEPT ![h] = t], R)
      /\ OffLists(L[h][k], [L EXCEPT ![h] = t])
  BY <1>2, DeleteCoherent DEF Removed
<1> QED
  BY <1>1, <1>3, <1>4

-------------------------------------------------------------------------------
(* The invariant *)

\* A listed node is where IndexOf says.
LEMMA IndexFacts ==
  ASSUME Inv, NEW h \in Heads, NEW x \in On(h)
  PROVE  /\ IndexOf(h, x) \in 1 .. Len(lists[h])
         /\ lists[h][IndexOf(h, x)] = x
<1>1. lists[h] \in Seq(Nodes)
  BY DEF Inv, Coherent
<1>2. \E i \in DOMAIN lists[h] : lists[h][i] = x
  BY DEF On, ToSet
<1>3. DOMAIN lists[h] = 1 .. Len(lists[h])
  BY <1>1
<1> QED
  BY <1>2, <1>3 DEF IndexOf

\* An unlisted node is on no list.
LEMMA UnlistedFacts ==
  ASSUME Inv, NEW x \in Unlisted
  PROVE  x \in Nodes /\ OffLists(x, lists)
<1> SUFFICES ASSUME NEW g \in Heads, NEW i \in 1 .. Len(lists[g]), lists[g][i] = x
             PROVE  FALSE
  BY DEF Unlisted, OffLists
<1>1. lists[g] \in Seq(Nodes)
  BY DEF Inv, Coherent
<1>2. i \in DOMAIN lists[g]
  BY <1>1
<1>3. x \in On(g)
  BY <1>2 DEF On, ToSet
<1> QED
  BY <1>3 DEF Unlisted

\* All lists are empty at first.
LEMMA InitInv == Init => Inv
<1> SUFFICES ASSUME Init PROVE Inv
  OBVIOUS
<1>1. mem \in Memory
  BY DEF Init, Memory, Words
<1>2. lists \in [Heads -> Seq(Nodes)] /\ ready = Heads /\ \A h \in Heads : Len(lists[h]) = 0
  BY DEF Init
<1>3. Apart(lists)
  BY <1>2 DEF Apart
<1>4. ASSUME NEW h \in ready PROVE Linked(mem, h, lists[h])
  <2>1. \A i \in Int : Cell(h, lists[h], i) = h
    BY <1>2 DEF Cell
  <2>2. mem.next[h] = h /\ mem.prev[h] = h
    BY <1>2 DEF Init, Cells
  <2> QED
    BY <1>2, <2>1, <2>2 DEF Linked
<1> QED
  BY <1>1, <1>2, <1>3, <1>4 DEF Inv, Coherent

\* list_add and list_add_tail keep the lists coherent.
LEMMA AddInv ==
  ASSUME Inv, NEW h \in ready, NEW x \in Nodes, list_add(x, h) \/ list_add_tail(x, h)
  PROVE  Inv'
<1>1. Coherent(mem, lists, ready)
  BY DEF Inv
<1>2. OffLists(x, lists)
  BY UnlistedFacts DEF list_add, list_add_tail
<1>3. CASE list_add(x, h)
  <2>1. Coherent(AddFront(mem, x, h), [lists EXCEPT ![h] = <<x>> \o @], ready)
    BY <1>1, <1>2, AddFrontCoherent
  <2> QED
    BY <1>3, <2>1 DEF list_add, Inv
<1>4. CASE list_add_tail(x, h)
  <2>1. Coherent(AddTail(mem, x, h), [lists EXCEPT ![h] = Append(@, x)], ready)
    BY <1>1, <1>2, AddTailCoherent
  <2> QED
    BY <1>4, <2>1 DEF list_add_tail, Inv
<1> QED
  BY <1>3, <1>4

\* So do list_del and list_del_init: what they leave in the node is not read.
LEMMA DelInv ==
  ASSUME Inv, NEW h \in ready, NEW x \in Nodes, list_del(x, h) \/ list_del_init(x, h)
  PROVE  Inv'
<1> DEFINE k == IndexOf(h, x)
           m == Del(mem, x)
           M == [lists EXCEPT ![h] = RemoveAt(@, k)]
<1>1. Coherent(mem, lists, ready) /\ h \in Heads
  BY DEF Inv, Coherent
<1>2. k \in 1 .. Len(lists[h]) /\ lists[h][k] = x
  BY <1>1, IndexFacts DEF list_del, list_del_init
<1>3. /\ mem' = Poison(m, x) \/ mem' = INIT_LIST_HEAD(m, x)
      /\ lists' = M /\ ready' = ready
  BY DEF list_del, list_del_init
<1> HIDE DEF k, M
<1>4. Coherent(m, M, ready) /\ OffLists(x, M)
  <2>1. M = [lists EXCEPT ![h] = RemoveAt(@, k)]
    BY DEF M
  <2> QED
    BY <1>1, <1>2, <2>1, DelCoherent
<1> HIDE DEF m
<1>5. x \in Cells /\ m \in Memory /\ x \notin ready
  BY <1>1, <1>4, ListAssumption DEF Cells, Coherent
<1>6. mem' \in Memory /\ SameOutside(m, mem', {x})
  BY <1>3, <1>5, PoisonFacts, InitFacts
<1>7. Coherent(mem', M, ready)
  BY <1>4, <1>5, <1>6, WriteUnlisted
<1> QED
  BY <1>3, <1>7 DEF Inv

\* So do list_replace and list_replace_init.
LEMMA ReplaceInv ==
  ASSUME Inv, NEW h \in ready, NEW x \in Nodes, NEW new \in Nodes, NEW init \in BOOLEAN,
         list_replace(x, h, new, init)
  PROVE  Inv'
<1> DEFINE k == IndexOf(h, x)
           m == Replace(mem, x, new)
           M == [lists EXCEPT ![h] = [@ EXCEPT ![k] = new]]
<1>1. Coherent(mem, lists, ready) /\ h \in Heads /\ lists \in [Heads -> Seq(Nodes)] /\ Apart(lists)
  BY DEF Inv, Coherent
<1>2. k \in 1 .. Len(lists[h]) /\ lists[h][k] = x
  BY <1>1, IndexFacts DEF list_replace
<1>3. OffLists(new, lists)
  BY UnlistedFacts DEF list_replace
<1>4. /\ mem' = IF init THEN INIT_LIST_HEAD(m, x) ELSE m
      /\ lists' = M /\ ready' = ready
  BY DEF list_replace
<1> HIDE DEF k
<1>5. Coherent(m, M, ready)
  BY <1>1, <1>2, <1>3, ReplaceCoherent
<1>6. OffLists(x, M)
  <2> SUFFICES ASSUME NEW g \in Heads, NEW i \in 1 .. Len(M[g]), M[g][i] = x
               PROVE  FALSE
    BY DEF OffLists
  <2>1. x # new
    BY <1>1, <1>2, <1>3 DEF OffLists
  <2>2. CASE g = h
    <3>1. i \in 1 .. Len(lists[h]) /\ M[h][i] = IF i = k THEN new ELSE lists[h][i]
      <4> DEFINE s == lists[h]
      <4>1. s \in Seq(Nodes) /\ k \in 1 .. Len(s) /\ M[h] = [s EXCEPT ![k] = new]
        BY <1>1, <1>2
      <4>2. i \in 1 .. Len(M[h])
        BY <2>2
      <4> HIDE DEF s, M
      <4>3. i \in 1 .. Len(s) /\ M[h][i] = IF i = k THEN new ELSE s[i]
        BY <4>1, <4>2
      <4> QED
        BY <4>3 DEF s
    <3>2. i # k /\ lists[h][i] = x
      BY <2>1, <2>2, <3>1
    <3> QED
      BY <1>1, <1>2, <3>1, <3>2 DEF Apart
  <2>3. CASE g # h
    <3>1. M[g] = lists[g]
      BY <1>1, <2>3
    <3> QED
      BY <1>1, <1>2, <2>3, <3>1 DEF Apart
  <2> QED
    BY <2>2, <2>3
<1> HIDE DEF m, M
<1>7. x \in Cells /\ m \in Memory /\ x \notin ready
  BY <1>1, <1>5, ListAssumption DEF Cells, Coherent
<1>8. CASE init
  <2>1. mem' \in Memory /\ SameOutside(m, mem', {x})
    BY <1>4, <1>7, <1>8, InitFacts
  <2>2. Coherent(mem', M, ready)
    BY <1>5, <1>6, <1>7, <2>1, WriteUnlisted
  <2> QED
    BY <1>4, <2>2 DEF Inv
<1>9. CASE ~ init
  BY <1>4, <1>5, <1>9 DEF Inv
<1> QED
  BY <1>8, <1>9

\* So do the moves, within a list or from one to another.
LEMMA MoveInv ==
  ASSUME Inv, NEW h \in ready, NEW x \in Nodes, NEW to \in ready,
         list_move(x, h, to) \/ list_move_tail(x, h, to)
  PROVE  Inv'
<1> DEFINE k == IndexOf(h, x)
           m == Del(mem, x)
           M == [lists EXCEPT ![h] = RemoveAt(@, k)]
<1>1. Coherent(mem, lists, ready) /\ h \in Heads
  BY DEF Inv, Coherent
<1>2. k \in 1 .. Len(lists[h]) /\ lists[h][k] = x
  BY <1>1, IndexFacts DEF list_move, list_move_tail
<1>3. /\ \/ mem' = AddFront(m, x, to) /\ lists' = [M EXCEPT ![to] = <<x>> \o @]
         \/ mem' = AddTail(m, x, to) /\ lists' = [M EXCEPT ![to] = Append(@, x)]
      /\ ready' = ready
  BY DEF list_move, list_move_tail
<1>4. M = [lists EXCEPT ![h] = RemoveAt(@, k)]
  OBVIOUS
<1> HIDE DEF k, M
<1>5. Coherent(m, M, ready) /\ OffLists(x, M)
  BY <1>1, <1>2, <1>4, DelCoherent
<1> HIDE DEF m
<1>6. /\ Coherent(AddFront(m, x, to), [M EXCEPT ![to] = <<x>> \o @], ready)
      /\ Coherent(AddTail(m, x, to), [M EXCEPT ![to] = Append(@, x)], ready)
  BY <1>5, AddFrontCoherent, AddTailCoherent
<1> QED
  BY <1>3, <1>6 DEF Inv

\* list_rotate_left moves the first node to the end.
LEMMA RotateInv ==
  ASSUME Inv, NEW h \in ready, list_rotate_left(h)
  PROVE  Inv'
<1> DEFINE s == lists[h]
           x == mem.next[h]
           m == Del(mem, x)
           t == RemoveAt(s, 1)
           M == [lists EXCEPT ![h] = RemoveAt(@, 1)]
<1>1. /\ Coherent(mem, lists, ready) /\ h \in Heads /\ lists \in [Heads -> Seq(Nodes)]
      /\ s \in Seq(Nodes) /\ Linked(mem, h, s) /\ Len(s) \in Nat
  BY DEF Inv, Coherent
<1>2. x = Cell(h, s, 1) /\ x # h
  BY <1>1, HeadWords DEF list_rotate_left, list_empty
<1>3. 1 \in 1 .. Len(s) /\ x = s[1]
  BY <1>1, <1>2 DEF Cell
<1>4. /\ mem' = AddTail(m, x, h) /\ ready' = ready
      /\ lists' = [lists EXCEPT ![h] = Append(Tail(s), Head(s))]
  BY DEF list_rotate_left
<1>5. t = Tail(s) /\ Head(s) = x
  <2> HIDE DEF s, x
  <2>1. /\ t \in Seq(Nodes) /\ Len(t) = Len(s) - 1
        /\ \A j \in 1 .. Len(s) - 1 : t[j] = IF j < 1 THEN s[j] ELSE s[j + 1]
    BY <1>1, <1>3, RemoveAtFacts
  <2> HIDE DEF t
  <2>2. /\ s # << >> /\ Tail(s) \in Seq(Nodes) /\ Len(Tail(s)) = Len(s) - 1
        /\ \A j \in 1 .. Len(s) - 1 : Tail(s)[j] = s[j + 1]
    BY <1>1, <1>3
  <2>3. \A j \in 1 .. Len(s) - 1 : t[j] = Tail(s)[j]
    BY <2>1, <2>2
  <2>4. t = Tail(s)
    BY <2>1, <2>2, <2>3, SeqEqual
  <2> QED
    BY <1>1, <1>3, <2>2, <2>4
<1>6. M[h] = t /\ [M EXCEPT ![h] = Append(@, x)] = [lists EXCEPT ![h] = Append(t, x)]
      /\ M = [lists EXCEPT ![h] = RemoveAt(@, 1)]
  BY <1>1
<1>7. lists' = [M EXCEPT ![h] = Append(@, x)]
  BY <1>4, <1>5, <1>6
<1> HIDE DEF M
<1>8. Coherent(m, M, ready) /\ x \in Nodes /\ OffLists(x, M)
  BY <1>1, <1>3, <1>6, DelCoherent
<1> HIDE DEF m, x
<1>9. Coherent(AddTail(m, x, h), [M EXCEPT ![h] = Append(@, x)], ready)
  BY <1>8, AddTailCoherent
<1> QED
  BY <1>4, <1>7, <1>9 DEF Inv

\* list_cut_position keeps the lists coherent, cut at the head or at a node.
LEMMA CutInv ==
  ASSUME Inv, NEW h \in ready, NEW list \in Heads, NEW entry \in Cells,
         list_cut_position(list, h, entry)
  PROVE  Inv'
<1> DEFINE s == lists[h]
           i == IF entry = h THEN 0 ELSE IndexOf(h, entry)
           a == SubSeq(s, 1, i)
           b == SubSeq(s, i + 1, Len(s))
<1>1. /\ Coherent(mem, lists, ready) /\ h \in Heads /\ lists \in [Heads -> Seq(Nodes)]
      /\ s \in Seq(Nodes) /\ Len(s) \in Nat
  BY DEF Inv, Coherent
<1>2. /\ list # h /\ lists[list] = << >> /\ Len(lists[list]) = 0
      /\ entry \in On(h) \cup {h}
      /\ mem' = IF entry = h THEN INIT_LIST_HEAD(mem, list) ELSE CutRing(mem, list, h, entry)
      /\ ready' = ready \cup {list}
  BY DEF list_cut_position
<1>3. lists' = [lists EXCEPT ![list] = a, ![h] = b]
  BY <1>2 DEF list_cut_position
<1>4. CASE entry = h
  <2>1. a = << >> /\ b = s
    <3>1. i = 0
      BY <1>4
    <3> HIDE DEF i, s
    <3> QED
      BY <1>1, <3>1, SubSeqEmpty, SubSeqFull
  <2> HIDE DEF a, b, i
  <2>2. [lists EXCEPT ![list] = a, ![h] = b] = lists
    BY <1>1, <1>2, <2>1
  <2>3. Coherent(INIT_LIST_HEAD(mem, list), lists, ready \cup {list})
    BY <1>1, <1>2, InitCoherent
  <2> QED
    BY <1>2, <1>3, <1>4, <2>2, <2>3 DEF Inv
<1>5. CASE entry # h
  <2>1. i \in 1 .. Len(s) /\ s[i] = entry
    BY <1>1, <1>2, <1>5, IndexFacts
  <2> HIDE DEF i
  <2>2. a \in Seq(Nodes) /\ b \in Seq(Nodes) /\ Halved(s, i, a, b)
    <3> HIDE DEF s
    <3>1. a \in Seq(Nodes) /\ Len(a) = i /\ \A j \in 1 .. i : a[j] = s[j]
      BY <1>1, <2>1, SubSeqProperties
    <3>2. b \in Seq(Nodes) /\ Len(b) = Len(s) - i /\ \A j \in 1 .. Len(s) - i : b[j] = s[i + j]
      BY <1>1, <2>1, SubSeqProperties
    <3> HIDE DEF a, b
    <3> QED
      BY <3>1, <3>2 DEF Halved
  <2> HIDE DEF a, b
  <2>3. Coherent(CutRing(mem, list, h, lists[h][i]), [lists EXCEPT ![list] = a, ![h] = b],
                 ready \cup {list})
    BY <1>1, <1>2, <2>1, <2>2, CutCoherent
  <2> QED
    BY <1>2, <1>3, <1>5, <2>1, <2>3 DEF Inv
<1> QED
  BY <1>4, <1>5

\* The four splices keep the lists coherent.  Without init the emptied head
\* points into another list and is not ready.
LEMMA SpliceInv ==
  ASSUME Inv, NEW h \in ready, NEW list \in ready, NEW tail \in BOOLEAN, NEW init \in BOOLEAN,
         list_splice(list, h, tail, init)
  PROVE  Inv'
<1> DEFINE u == lists[h]
           v == lists[list]
           k == IF tail THEN Len(u) ELSE 0
           t == IF tail THEN u \o v ELSE v \o u
           m == SpliceRing(mem, list, Cell(h, u, k), Cell(h, u, k + 1))
           M == [lists EXCEPT ![list] = << >>, ![h] = t]
<1>1. /\ Coherent(mem, lists, ready) /\ h \in Heads /\ lists \in [Heads -> Seq(Nodes)]
      /\ u \in Seq(Nodes) /\ Len(u) \in Nat /\ Linked(mem, h, u)
      /\ list \in Heads /\ v \in Seq(Nodes) /\ Len(v) \in Nat /\ Linked(mem, list, v)
  BY DEF Inv, Coherent
<1>2. list # h /\ Len(v) # 0
  <2>1. list # h /\ mem.next[list] # list
    BY DEF list_splice, list_empty
  <2>2. mem.next[list] = Cell(list, v, 1)
    BY <1>1, HeadWords
  <2> QED
    BY <1>1, <2>1, <2>2 DEF Cell
<1>3. /\ mem.next[h] = Cell(h, u, 1) /\ mem.prev[h] = Cell(h, u, Len(u))
      /\ h = Cell(h, u, 0) /\ h = Cell(h, u, Len(u) + 1)
  BY <1>1, HeadWords, CellFacts
<1>4. m = IF tail THEN SpliceRing(mem, list, mem.prev[h], h)
                  ELSE SpliceRing(mem, list, h, mem.next[h])
  BY <1>3
<1>5. /\ mem' = IF init THEN INIT_LIST_HEAD(m, list) ELSE m
      /\ ready' = IF init THEN ready ELSE ready \ {list}
  BY <1>4 DEF list_splice
<1>6. lists' = M
  BY <1>2 DEF list_splice
<1>7. k \in 0 .. Len(u) /\ t \in Seq(Nodes) /\ Spliced(t, u, k, v)
  <2> HIDE DEF u, v
  <2>1. k \in 0 .. Len(u)
    BY <1>1
  <2>2. CASE tail
    <3>1. t = u \o v /\ k = Len(u)
      BY <2>2
    <3>2. /\ u \o v \in Seq(Nodes) /\ Len(u \o v) = Len(u) + Len(v)
          /\ \A j \in 1 .. Len(u) + Len(v) : (u \o v)[j] = IF j <= Len(u) THEN u[j] ELSE v[j - Len(u)]
      BY <1>1, ConcatProperties
    <3>3. \A j \in 1 .. Len(u) + Len(v) : j <= k + Len(v)
      BY <1>1, <3>1
    <3> HIDE DEF t, k
    <3> QED
      BY <2>1, <3>1, <3>2, <3>3 DEF Spliced
  <2>3. CASE ~ tail
    <3>1. t = v \o u /\ k = 0
      BY <2>3
    <3>2. /\ v \o u \in Seq(Nodes) /\ Len(v \o u) = Len(v) + Len(u)
          /\ \A j \in 1 .. Len(v) + Len(u) : (v \o u)[j] = IF j <= Len(v) THEN v[j] ELSE u[j - Len(v)]
      BY <1>1, ConcatProperties
    <3> HIDE DEF t, k
    <3>3. t \in Seq(Nodes) /\ Len(t) = Len(u) + Len(v)
      BY <1>1, <3>1, <3>2
    <3>4. ASSUME NEW j \in 1 .. Len(u) + Len(v)
          PROVE  t[j] = IF j <= k THEN u[j] ELSE IF j <= k + Len(v) THEN v[j - k] ELSE u[j - Len(v)]
      <4>1. j \in 1 .. Len(v) + Len(u) /\ ~ (j <= k) /\ k + Len(v) = Len(v) /\ j - k = j
        BY <1>1, <3>1
      <4> QED
        BY <3>1, <3>2, <4>1
    <3> QED
      BY <2>1, <3>3, <3>4 DEF Spliced
  <2> QED
    BY <2>2, <2>3
<1> HIDE DEF k, t
<1>8. Coherent(m, M, ready \ {list})
  BY <1>1, <1>2, <1>7, SpliceCoherent
<1>9. Len(M[list]) = 0 /\ (ready \ {list}) \cup {list} = ready
  BY <1>1, <1>2
<1> HIDE DEF m, M
<1>10. Coherent(INIT_LIST_HEAD(m, list), M, ready)
  <2>1. Coherent(INIT_LIST_HEAD(m, list), M, (ready \ {list}) \cup {list})
    BY <1>1, <1>8, <1>9, InitCoherent
  <2> QED
    BY <1>9, <2>1
<1>11. CASE init
  BY <1>5, <1>6, <1>10, <1>11 DEF Inv
<1>12. CASE ~ init
  BY <1>5, <1>6, <1>8, <1>12 DEF Inv
<1> QED
  BY <1>11, <1>12

\* INIT_LIST_HEAD of a head that lost its nodes.
LEMMA InitHeadInv ==
  ASSUME Inv, NEW h \in Heads, InitHead(h)
  PROVE  Inv'
<1>1. Coherent(mem, lists, ready) /\ Len(lists[h]) = 0
  BY DEF Inv, Coherent, InitHead
<1>2. Coherent(INIT_LIST_HEAD(mem, h), lists, ready \cup {h})
  BY <1>1, InitCoherent
<1> QED
  BY <1>2 DEF InitHead, Inv

\* Every operation keeps the lists coherent.
LEMMA NextInv == Inv /\ [Next]_vars => Inv'
<1> SUFFICES ASSUME Inv, [Next]_vars PROVE Inv'
  OBVIOUS
<1>1. ASSUME NEW h \in Heads, InitHead(h) PROVE Inv'
  BY <1>1, InitHeadInv
<1>2. ASSUME NEW h \in ready, list_rotate_left(h) PROVE Inv'
  BY <1>2, RotateInv
<1>3. ASSUME NEW h \in ready, NEW x \in Nodes, list_add(x, h) \/ list_add_tail(x, h) PROVE Inv'
  BY <1>3, AddInv
<1>4. ASSUME NEW h \in ready, NEW x \in Nodes, list_del(x, h) \/ list_del_init(x, h) PROVE Inv'
  BY <1>4, DelInv
<1>5. ASSUME NEW h \in ready, NEW x \in Nodes, NEW new \in Nodes, NEW init \in BOOLEAN,
             list_replace(x, h, new, init)
      PROVE  Inv'
  BY <1>5, ReplaceInv
<1>6. ASSUME NEW h \in ready, NEW x \in Nodes, NEW to \in ready,
             list_move(x, h, to) \/ list_move_tail(x, h, to)
      PROVE  Inv'
  BY <1>6, MoveInv
<1>7. ASSUME NEW h \in ready, NEW list \in Heads, NEW entry \in Cells,
             list_cut_position(list, h, entry)
      PROVE  Inv'
  BY <1>7, CutInv
<1>8. ASSUME NEW h \in ready, NEW list \in ready, NEW tail \in BOOLEAN, NEW init \in BOOLEAN,
             list_splice(list, h, tail, init)
      PROVE  Inv'
  BY <1>8, SpliceInv
<1>9. CASE UNCHANGED vars
  BY <1>9 DEF vars, Inv
<1> QED
  BY <1>1, <1>2, <1>3, <1>4, <1>5, <1>6, <1>7, <1>8, <1>9 DEF Next

-------------------------------------------------------------------------------
(* The theorems *)

\* However the operations are mixed, the pointers of every list in use follow
\* its nodes both ways, and no node is on two lists or twice on one.
THEOREM ListInv == Spec => []Inv
<1> QED
  BY InitInv, NextInv, PTL DEF Spec

\* The ring as RingsCoherent reads it.
LEMMA InvRings == Inv => RingsCoherent
<1> SUFFICES ASSUME Inv, NEW h \in ready
             PROVE  LET r == Ring(h)
                        succ(i) == r[(i % Len(r)) + 1]
                    IN  \A i \in DOMAIN r : mem.next[r[i]] = succ(i) /\ mem.prev[succ(i)] = r[i]
  BY DEF RingsCoherent
<1> DEFINE s == lists[h]
           r == Ring(h)
           n == Len(s) + 1
<1>1. h \in Heads /\ s \in Seq(Nodes) /\ Len(s) \in Nat /\ Linked(mem, h, s)
  BY DEF Inv, Coherent
<1>2. r \in Seq(Cells) /\ Len(r) = n /\ \A i \in 1 .. n : r[i] = IF i = 1 THEN h ELSE s[i - 1]
  <2>1. r = <<h>> \o s
    BY DEF Ring
  <2>2. s \in Seq(Cells) /\ <<h>> \in Seq(Cells) /\ Len(<<h>>) = 1 /\ <<h>>[1] = h
    BY <1>1 DEF Cells
  <2> HIDE DEF s, r
  <2> QED
    BY <1>1, <2>1, <2>2, ConcatProperties
<1> HIDE DEF r, s
<1>3. DOMAIN r = 1 .. n
  BY <1>2
<1>4. \A i \in 1 .. n : r[i] = Cell(h, s, i - 1)
  BY <1>1, <1>2 DEF Cell
<1>5. ASSUME NEW i \in 1 .. n
      PROVE  (i % n) + 1 \in 1 .. n /\ r[(i % n) + 1] = Cell(h, s, i)
  <2>1. CASE i = n
    <3>1. n % n = 0
      BY <1>1
    <3>2. r[1] = Cell(h, s, 0) /\ Cell(h, s, n) = h /\ Cell(h, s, 0) = h
      BY <1>1, <1>4 DEF Cell
    <3> QED
      BY <1>1, <2>1, <3>1, <3>2
  <2>2. CASE i # n
    <3>1. i % n = i /\ i + 1 \in 1 .. n /\ (i + 1) - 1 = i
      BY <1>1, <2>2
    <3> QED
      BY <1>4, <3>1
  <2> QED
    BY <2>1, <2>2
<1>6. ASSUME NEW i \in 1 .. n
      PROVE  mem.next[r[i]] = r[(i % n) + 1] /\ mem.prev[r[(i % n) + 1]] = r[i]
  <2> DEFINE j == i - 1
  <2>1. j \in 0 .. Len(s) /\ j + 1 = i
    BY <1>1
  <2>2. r[i] = Cell(h, s, j)
    BY <1>4
  <2> HIDE DEF j
  <2>3. mem.next[Cell(h, s, j)] = Cell(h, s, j + 1) /\ mem.prev[Cell(h, s, j + 1)] = Cell(h, s, j)
    BY <1>1, <2>1 DEF Linked
  <2> QED
    BY <1>5, <2>1, <2>2, <2>3
<1> QED
  BY <1>2, <1>3, <1>6 DEF r

\* Following next from a head visits the nodes its callers put there, in their
\* order, and following prev visits them backwards, for any heads and nodes.
THEOREM ListRingsCoherent == Spec => []RingsCoherent
<1> QED
  BY ListInv, InvRings, PTL

-------------------------------------------------------------------------------
(* The queries *)

\* No list is longer than there are nodes.
LEMMA ListBound ==
  ASSUME Inv, NEW h \in Heads
  PROVE  Cardinality(Nodes) \in Nat /\ Len(lists[h]) <= Cardinality(Nodes)
<1> DEFINE s == lists[h]
<1>1. s \in Seq(Nodes) /\ Len(s) \in Nat /\ s \in [1 .. Len(s) -> Nodes]
  BY DEF Inv, Coherent
<1>2. \A i, j \in 1 .. Len(s) : s[i] = s[j] => i = j
  BY DEF Inv, Coherent, Apart
<1> HIDE DEF s
<1>3. s \in Injection(1 .. Len(s), Nodes)
  BY <1>1, <1>2 DEF Injection, IsInjective
<1>4. IsFiniteSet(Nodes) /\ Cardinality(Nodes) \in Nat
  BY ListAssumption, FS_CardinalityType
<1>5. Cardinality(1 .. Len(s)) <= Cardinality(Nodes)
  BY <1>3, <1>4, FS_Injection
<1>6. Cardinality(1 .. Len(s)) = Len(s)
  BY <1>1, FS_Interval
<1> QED
  BY <1>4, <1>5, <1>6 DEF s

\* Walk's equation has a solution, going round and round the ring, so Walk
\* satisfies it.
LEMMA WalkEquation ==
  ASSUME Inv, NEW h \in ready
  PROVE  Walk(h) = [n \in 0 .. Cardinality(Nodes) + 1 |->
                      IF n = 0 THEN h ELSE mem.next[Walk(h)[n - 1]]]
<1> DEFINE s == lists[h]
           N == Cardinality(Nodes) + 1
           c == Len(s) + 1
           f == [n \in 0 .. N |-> Cell(h, s, n % c)]
<1>1. h \in Heads /\ s \in Seq(Nodes) /\ c \in Nat \ {0} /\ Linked(mem, h, s)
  BY DEF Inv, Coherent
<1>2. N \in Nat
  BY <1>1, ListBound
<1> HIDE DEF N
<1>3. ASSUME NEW n \in 0 .. N
      PROVE  f[n] = IF n = 0 THEN h ELSE mem.next[f[n - 1]]
  <2>1. CASE n = 0
    <3>1. Cell(h, s, 0) = h
      BY <1>1, CellFacts
    <3> HIDE DEF c
    <3>2. 0 % c = 0
      <4>1. 0 = 0 * c + 0 /\ 0 \in 0 .. c - 1
        BY <1>1
      <4> QED
        BY <1>1, <4>1, RemainderOf
    <3>3. f[0] = Cell(h, s, 0 % c)
      BY <1>2
    <3> QED
      BY <2>1, <3>1, <3>2, <3>3
  <2>2. CASE n # 0
    <3> DEFINE p == n - 1
               r == p % c
    <3>1. p \in Nat /\ p \in 0 .. N /\ p + 1 = n
      BY <1>2, <2>2
    <3>2. f[n] = Cell(h, s, n % c) /\ f[p] = Cell(h, s, r)
      BY <3>1
    <3> HIDE DEF p, c, f
    <3>3. r \in 0 .. c - 1 /\ n % c = IF r = c - 1 THEN 0 ELSE r + 1
      <4>1. r \in 0 .. c - 1 /\ (p + 1) % c = IF r = c - 1 THEN 0 ELSE r + 1
        BY <1>1, <3>1, NextRemainder
      <4> QED
        BY <3>1, <4>1
    <3> HIDE DEF r
    <3>4. r \in 0 .. Len(s)
      BY <1>1, <3>3 DEF c
    <3>5. mem.next[Cell(h, s, r)] = Cell(h, s, r + 1)
      BY <1>1, <3>4 DEF Linked
    <3>6. Cell(h, s, n % c) = Cell(h, s, r + 1)
      <4>1. CASE r = c - 1
        <5>1. r + 1 = Len(s) + 1
          BY <1>1, <4>1 DEF c
        <5>2. Cell(h, s, Len(s) + 1) = Cell(h, s, 0)
          BY <1>1, CellFacts
        <5> QED
          BY <3>3, <4>1, <5>1, <5>2
      <4>2. CASE r # c - 1
        BY <3>3, <4>2
      <4> QED
        BY <4>1, <4>2
    <3> QED
      BY <2>2, <3>1, <3>2, <3>5, <3>6 DEF p
  <2> QED
    BY <2>1, <2>2
<1>4. f = [n \in 0 .. N |-> f[n]]
  OBVIOUS
<1> HIDE DEF f
<1>5. f = [n \in 0 .. N |-> IF n = 0 THEN h ELSE mem.next[f[n - 1]]]
  BY <1>3, <1>4
<1> QED
  BY <1>5 DEF Walk, N

\* For one round, Walk visits the cells of the ring in order.
LEMMA WalkFacts ==
  ASSUME Inv, NEW h \in ready
  PROVE  \A n \in 0 .. Len(lists[h]) + 1 : Walk(h)[n] = Cell(h, lists[h], n)
<1> DEFINE s == lists[h]
           W == Walk(h)
           N == Cardinality(Nodes) + 1
           S == {n \in Nat : n <= Len(s) + 1 => W[n] = Cell(h, s, n)}
<1>1. h \in Heads /\ s \in Seq(Nodes) /\ Len(s) \in Nat /\ Linked(mem, h, s)
  BY DEF Inv, Coherent
<1>2. N \in Nat /\ Len(s) + 1 <= N
  BY <1>1, ListBound
<1>3. W = [n \in 0 .. N |-> IF n = 0 THEN h ELSE mem.next[W[n - 1]]]
  BY WalkEquation
<1> HIDE DEF W, N, s
<1>4. \A n \in 0 .. N : W[n] = IF n = 0 THEN h ELSE mem.next[W[n - 1]]
  BY <1>3
<1>5. 0 \in S
  BY <1>1, <1>2, <1>4 DEF Cell
<1>6. ASSUME NEW n \in Nat, n \in S PROVE n + 1 \in S
  <2>1. CASE n + 1 <= Len(s) + 1
    <3>1. n \in 0 .. Len(s) /\ n + 1 \in 0 .. N /\ n + 1 # 0 /\ (n + 1) - 1 = n
      BY <1>1, <1>2, <2>1
    <3>2. W[n] = Cell(h, s, n)
      BY <1>1, <1>6, <3>1
    <3>3. W[n + 1] = mem.next[W[n]]
      BY <1>4, <3>1
    <3>4. mem.next[Cell(h, s, n)] = Cell(h, s, n + 1)
      BY <1>1, <3>1 DEF Linked
    <3> QED
      BY <3>2, <3>3, <3>4
  <2>2. CASE ~ (n + 1 <= Len(s) + 1)
    BY <2>2
  <2> QED
    BY <2>1, <2>2
<1> HIDE DEF S
<1>7. \A n \in Nat : n \in S
  BY <1>5, <1>6, NatSetInduction
<1>8. ASSUME NEW n \in 0 .. Len(s) + 1 PROVE W[n] = Cell(h, s, n)
  BY <1>1, <1>7 DEF S
<1> QED
  BY <1>8 DEF W, s

\* Counting the steps until the walk is back at the head counts the nodes.
LEMMA CountFacts ==
  ASSUME Inv, NEW h \in ready
  PROVE  list_count_nodes(h) = Len(lists[h])
<1> DEFINE s == lists[h]
           W == Walk(h)
           N == Cardinality(Nodes)
           P(n) == W[n + 1] = h /\ \A k \in 1 .. n : W[k] # h
<1>1. h \in Heads /\ s \in Seq(Nodes) /\ Len(s) \in Nat
  BY DEF Inv, Coherent
<1>2. N \in Nat /\ Len(s) <= N
  BY <1>1, ListBound
<1>3. \A n \in 0 .. Len(s) + 1 : W[n] = Cell(h, s, n)
  BY WalkFacts
<1>4. /\ \A i \in 1 .. Len(s) : Cell(h, s, i) # h
      /\ Cell(h, s, Len(s) + 1) = h
  BY <1>1, CellFacts, ListAssumption
<1> HIDE DEF W, N, s
<1>5. Len(s) \in 0 .. N /\ P(Len(s))
  BY <1>1, <1>2, <1>3, <1>4
<1>6. ASSUME NEW n \in 0 .. N, P(n) PROVE n = Len(s)
  <2>1. CASE n < Len(s)
    <3>1. n + 1 \in 1 .. Len(s) /\ n + 1 \in 0 .. Len(s) + 1
      BY <1>1, <1>2, <2>1
    <3> QED
      BY <1>3, <1>4, <1>6, <3>1
  <2>2. CASE n > Len(s)
    <3>1. Len(s) + 1 \in 1 .. n /\ Len(s) + 1 \in 0 .. Len(s) + 1
      BY <1>1, <1>2, <2>2
    <3> QED
      BY <1>3, <1>4, <1>6, <3>1
  <2> QED
    BY <1>1, <1>2, <2>1, <2>2
<1>7. list_count_nodes(h) = CHOOSE n \in 0 .. N : P(n)
  BY DEF list_count_nodes, W, N
<1> HIDE DEF P
<1>8. (CHOOSE n \in 0 .. N : P(n)) \in 0 .. N /\ P(CHOOSE n \in 0 .. N : P(n))
  BY <1>5
<1> QED
  BY <1>6, <1>7, <1>8 DEF s

\* What the queries read from the pointers agrees with the sequences.
LEMMA InvQueries == Inv => QueriesAgree
<1> SUFFICES ASSUME Inv, NEW h \in ready
             PROVE  /\ list_empty(mem, h) <=> lists[h] = << >>
                    /\ list_is_singular(mem, h) <=> Len(lists[h]) = 1
                    /\ list_count_nodes(h) = Len(lists[h])
                    /\ \A x \in Nodes : list_contains(h, x) <=> x \in On(h)
                    /\ \A i \in DOMAIN lists[h] :
                         /\ Walk(h)[i] = lists[h][i]
                         /\ list_is_first(mem, lists[h][i], h) <=> i = 1
                         /\ list_is_last(mem, lists[h][i], h) <=> i = Len(lists[h])
  BY DEF QueriesAgree
<1> DEFINE s == lists[h]
<1>1. /\ h \in Heads /\ s \in Seq(Nodes) /\ Len(s) \in Nat /\ Linked(mem, h, s)
      /\ DOMAIN s = 1 .. Len(s)
  BY DEF Inv, Coherent
<1>2. /\ \A i \in 1 .. Len(s) : Cell(h, s, i) = s[i] /\ s[i] \in Nodes /\ s[i] # h
      /\ Cell(h, s, 0) = h /\ Cell(h, s, Len(s) + 1) = h
  BY <1>1, CellFacts, ListAssumption
<1>3. mem.next[h] = Cell(h, s, 1)
  BY <1>1, HeadWords
<1>4. \A n \in 0 .. Len(s) + 1 : Walk(h)[n] = Cell(h, s, n)
  BY WalkFacts
<1>5. list_count_nodes(h) = Len(s)
  BY CountFacts
<1>6. \A i \in 1 .. Len(s) : mem.next[s[i]] = Cell(h, s, i + 1) /\ mem.prev[s[i]] = Cell(h, s, i - 1)
  BY <1>1, Neighbours
<1>7. \A x : x \in On(h) <=> \E i \in 1 .. Len(s) : s[i] = x
  BY <1>1 DEF On, ToSet
<1> HIDE DEF s
<1>8. mem.next[h] = h <=> Len(s) = 0
  BY <1>1, <1>2, <1>3
<1>9. s = << >> <=> Len(s) = 0
  BY <1>1
<1>10. Len(s) # 0 => (mem.next[mem.next[h]] = h <=> Len(s) = 1)
  <2> SUFFICES ASSUME Len(s) # 0 PROVE mem.next[mem.next[h]] = h <=> Len(s) = 1
    OBVIOUS
  <2>1. 1 \in 1 .. Len(s) /\ 1 + 1 = 2
    BY <1>1
  <2>2. mem.next[h] = s[1] /\ mem.next[s[1]] = Cell(h, s, 2)
    BY <1>2, <1>3, <1>6, <2>1
  <2>3. CASE Len(s) = 1
    BY <1>2, <2>2, <2>3
  <2>4. CASE Len(s) # 1
    <3>1. 2 \in 1 .. Len(s)
      BY <1>1, <2>1, <2>4
    <3> QED
      BY <1>2, <2>2, <2>4, <3>1
  <2> QED
    BY <2>3, <2>4
<1>11. ASSUME NEW x \in Nodes PROVE list_contains(h, x) <=> x \in On(h)
  <2>1. \A k \in 1 .. Len(s) : Walk(h)[k] = s[k]
    BY <1>1, <1>2, <1>4
  <2> QED
    BY <1>5, <1>7, <2>1 DEF list_contains
<1>12. ASSUME NEW i \in 1 .. Len(s)
       PROVE  /\ Walk(h)[i] = s[i]
              /\ mem.prev[s[i]] = h <=> i = 1
              /\ mem.next[s[i]] = h <=> i = Len(s)
  <2>1. Walk(h)[i] = s[i]
    BY <1>1, <1>2, <1>4
  <2>2. mem.prev[s[i]] = h <=> i = 1
    <3>1. i # 1 => i - 1 \in 1 .. Len(s)
      BY <1>1
    <3> QED
      BY <1>2, <1>6, <3>1
  <2>3. mem.next[s[i]] = h <=> i = Len(s)
    <3> DEFINE n == Len(s)
    <3>1. n \in Nat /\ i \in 1 .. n
      BY <1>1
    <3>2. i # Len(s) => i + 1 \in 1 .. Len(s)
      <4> HIDE DEF n
      <4>1. i # n => i + 1 \in 1 .. n
        BY <3>1
      <4> QED
        BY <4>1 DEF n
    <3> QED
      BY <1>2, <1>6, <3>2
  <2> QED
    BY <2>1, <2>2, <2>3
<1>13. list_empty(mem, h) <=> s = << >>
  BY <1>8, <1>9 DEF list_empty
<1>14. list_is_singular(mem, h) <=> Len(s) = 1
  BY <1>8, <1>10 DEF list_is_singular
<1>15. ASSUME NEW i \in DOMAIN s
       PROVE  /\ Walk(h)[i] = s[i]
              /\ list_is_first(mem, s[i], h) <=> i = 1
              /\ list_is_last(mem, s[i], h) <=> i = Len(s)
  BY <1>1, <1>12 DEF list_is_first, list_is_last
<1> QED
  BY <1>5, <1>11, <1>13, <1>14, <1>15 DEF s

\* Emptiness, first, last, singular, count, membership and the n-th node, as
\* read from the pointers, are the sequence's, however long the lists get.
THEOREM ListQueriesAgree == Spec => []QueriesAgree
<1> QED
  BY ListInv, InvQueries, PTL
===============================================================================
