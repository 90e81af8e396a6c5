------------------------------ MODULE LinkedList ------------------------------
(***************************************************************************)
(* The circular doubly linked lists of kernel/include/list.h (lines 6-260, *)
(* 395-426), which hold the free pages, the tasks and the run queues.      *)
(*                                                                         *)
(* mem holds the next and prev words of every list head and node; the      *)
(* operations below are the header's pointer assignments in their order    *)
(* (a later assignment reads what an earlier one wrote).  lists is what    *)
(* the callers mean: for each head the sequence of its nodes.  The first   *)
(* conjunct of an action is the precondition of its callers, the last one  *)
(* what the call does to the sequences.                                    *)
(*                                                                         *)
(* The header declares next twice in struct list_head and names a          *)
(* parameter of __list_splice head where its body says prev; both are read *)
(* as prev, which every use requires.                                      *)
(***************************************************************************)
EXTENDS Integers, Sequences, SequencesExt, FiniteSets

CONSTANTS Heads, Nodes,
          Poison1, Poison2      \* 0x100 and 0x200, what list_del leaves behind

ASSUME ListAssumption ==
  /\ Heads \cap Nodes = {} /\ IsFiniteSet(Nodes)
  /\ Poison1 \notin Heads \cup Nodes /\ Poison2 \notin Heads \cup Nodes

Cells == Heads \cup Nodes

VARIABLES mem,          \* mem.next[x], mem.prev[x]
          lists,        \* lists[h]: the nodes of the list, first to last
          ready         \* the heads whose list is initialised

vars == <<mem, lists, ready>>

-------------------------------------------------------------------------------
(* Pointer assignments *)

SetNext(m, x, v) == [m EXCEPT !.next[x] = v]
SetPrev(m, x, v) == [m EXCEPT !.prev[x] = v]

INIT_LIST_HEAD(m, x) == SetPrev(SetNext(m, x, x), x, x)

list_empty(m, h) == m.next[h] = h
list_is_last(m, x, h) == m.next[x] = h
list_is_first(m, x, h) == m.prev[x] = h

\* Mutant: an empty list counts as one with a single node.
list_is_singular_OrEmpty(m, h) == m.next[m.next[h]] = h

\* Declared void in list.h; read as returning the value its body computes.
list_is_singular(m, h) == m.next[h] # h /\ m.next[m.next[h]] = h

\* Mutant: the old first node keeps pointing back at the head.
LinkBetween_NoBack(m, new, p, n) ==
  SetNext(SetPrev(SetNext(m, new, n), new, p), p, new)

\* __list_add
LinkBetween(m, new, p, n) ==
  SetNext(SetPrev(SetNext(SetPrev(m, n, new), new, n), new, p), p, new)

\* __list_del
Unlink(m, p, n) == SetNext(SetPrev(m, n, p), p, n)

AddFront(m, new, h) == LinkBetween(m, new, h, m.next[h])
AddTail(m, new, h)  == LinkBetween(m, new, m.prev[h], h)
Del(m, x)           == Unlink(m, m.prev[x], m.next[x])

Poison(m, x) == SetPrev(SetNext(m, x, Poison1), x, Poison2)

Replace(m, old, new) ==
  LET m1 == SetNext(m, new, m.next[old])
      m2 == SetPrev(m1, m1.next[new], new)
      m3 == SetPrev(m2, new, m2.prev[old])
  IN  SetNext(m3, m3.prev[new], new)

\* __list_cut_position
CutRing(m, list, h, entry) ==
  LET newFirst == m.next[entry]
      m1 == SetNext(m, list, m.next[h])
      m2 == SetPrev(m1, m1.next[list], list)
      m3 == SetNext(SetPrev(m2, list, entry), entry, list)
  IN  SetPrev(SetNext(m3, h, newFirst), newFirst, h)

\* __list_splice
SpliceRing(m, list, p, n) ==
  LET first == m.next[list]
      last == m.prev[list]
  IN  SetPrev(SetNext(SetNext(SetPrev(m, first, p), p, first), last, n), n, last)

-------------------------------------------------------------------------------
(* The operations *)

On(h) == ToSet(lists[h])
Unlisted == Nodes \ UNION {On(h) : h \in Heads}
IndexOf(h, x) == CHOOSE i \in DOMAIN lists[h] : lists[h][i] = x

Init ==
  /\ mem = [next |-> [x \in Cells |-> x], prev |-> [x \in Cells |-> x]]
  /\ lists = [h \in Heads |-> << >>]
  /\ ready = Heads

\* A head that lost its nodes to list_splice is initialised again before use.
InitHead(h) ==
  /\ h \notin ready
  /\ mem' = INIT_LIST_HEAD(mem, h)
  /\ ready' = ready \cup {h}
  /\ UNCHANGED lists

list_add(x, h) ==
  /\ x \in Unlisted
  /\ mem' = AddFront(mem, x, h)
  /\ lists' = [lists EXCEPT ![h] = <<x>> \o @]
  /\ UNCHANGED ready

list_add_tail(x, h) ==
  /\ x \in Unlisted
  /\ mem' = AddTail(mem, x, h)
  /\ lists' = [lists EXCEPT ![h] = Append(@, x)]
  /\ UNCHANGED ready

list_del(x, h) ==
  /\ x \in On(h)
  /\ mem' = Poison(Del(mem, x), x)
  /\ lists' = [lists EXCEPT ![h] = RemoveAt(@, IndexOf(h, x))]
  /\ UNCHANGED ready

list_del_init(x, h) ==
  /\ x \in On(h)
  /\ mem' = INIT_LIST_HEAD(Del(mem, x), x)
  /\ lists' = [lists EXCEPT ![h] = RemoveAt(@, IndexOf(h, x))]
  /\ UNCHANGED ready

\* list_replace, and list_replace_init if init.
list_replace(x, h, new, init) ==
  /\ x \in On(h) /\ new \in Unlisted
  /\ mem' = LET m == Replace(mem, x, new)
            IN  IF init THEN INIT_LIST_HEAD(m, x) ELSE m
  /\ lists' = [lists EXCEPT ![h] = [@ EXCEPT ![IndexOf(h, x)] = new]]
  /\ UNCHANGED ready

list_move(x, h, to) ==
  /\ x \in On(h)
  /\ mem' = AddFront(Del(mem, x), x, to)
  /\ lists' = [[lists EXCEPT ![h] = RemoveAt(@, IndexOf(h, x))] EXCEPT ![to] = <<x>> \o @]
  /\ UNCHANGED ready

list_move_tail(x, h, to) ==
  /\ x \in On(h)
  /\ mem' = AddTail(Del(mem, x), x, to)
  /\ lists' = [[lists EXCEPT ![h] = RemoveAt(@, IndexOf(h, x))] EXCEPT ![to] = Append(@, x)]
  /\ UNCHANGED ready

list_rotate_left(h) ==
  /\ ~ list_empty(mem, h)
  /\ LET first == mem.next[h] IN mem' = AddTail(Del(mem, first), first, h)
  /\ lists' = [lists EXCEPT ![h] = Append(Tail(@), Head(@))]
  /\ UNCHANGED ready

\* list_cut_position(list, head, entry): the nodes up to entry go to list,
\* whose old contents do not matter.  An empty head, or a head with one node
\* that is not entry, leaves everything alone, list included.
list_cut_position(list, h, entry) ==
  /\ list # h /\ lists[list] = << >>
  /\ entry \in On(h) \cup {h}
  /\ ~ list_empty(mem, h)
  /\ ~ (list_is_singular(mem, h) /\ mem.next[h] # entry /\ mem.prev[h] # entry)
  /\ mem' = IF entry = h THEN INIT_LIST_HEAD(mem, list) ELSE CutRing(mem, list, h, entry)
  /\ LET i == IF entry = h THEN 0 ELSE IndexOf(h, entry)
     IN  lists' = [lists EXCEPT ![list] = SubSeq(lists[h], 1, i),
                                ![h] = SubSeq(@, i + 1, Len(@))]
  /\ ready' = ready \cup {list}

\* The four splices: to the front or the tail, and with or without init.
list_splice(list, h, tail, init) ==
  /\ list # h
  /\ ~ list_empty(mem, list)
  /\ mem' = LET m == IF tail THEN SpliceRing(mem, list, mem.prev[h], h)
                             ELSE SpliceRing(mem, list, h, mem.next[h])
            IN  IF init THEN INIT_LIST_HEAD(m, list) ELSE m
  /\ lists' = [lists EXCEPT ![list] = << >>,
                            ![h] = IF tail THEN @ \o lists[list] ELSE lists[list] \o @]
  /\ ready' = IF init THEN ready ELSE ready \ {list}

Next ==
  \/ \E h \in Heads : InitHead(h)
  \/ \E h \in ready :
       \/ list_rotate_left(h)
       \/ \E x \in Nodes :
            \/ list_add(x, h) \/ list_add_tail(x, h)
            \/ list_del(x, h) \/ list_del_init(x, h)
            \/ \E new \in Nodes, init \in BOOLEAN : list_replace(x, h, new, init)
            \/ \E to \in ready : list_move(x, h, to) \/ list_move_tail(x, h, to)
       \/ \E list \in Heads, entry \in Cells : list_cut_position(list, h, entry)
       \/ \E list \in ready, tail, init \in BOOLEAN : list_splice(list, h, tail, init)

Spec == Init /\ [][Next]_vars

-------------------------------------------------------------------------------
(* Properties *)

\* The ring a list is: its head, its nodes, and round again.
Ring(h) == <<h>> \o lists[h]

\* After any sequence of operations, following next from a head visits exactly
\* the nodes its callers put there, in their order, and following prev visits
\* them backwards: no operation drops, repeats or cross-links a node.
RingsCoherent ==
  \A h \in ready :
    LET r == Ring(h)
        succ(i) == r[(i % Len(r)) + 1]
    IN  \A i \in DOMAIN r : mem.next[r[i]] = succ(i) /\ mem.prev[succ(i)] = r[i]

\* What n steps along next from the head reach.
Walk(h) ==
  LET w[n \in 0 .. Cardinality(Nodes) + 1] == IF n = 0 THEN h ELSE mem.next[w[n - 1]]
  IN  w

\* list_count_nodes: steps of list_for_each until it is back at the head.
list_count_nodes(h) ==
  CHOOSE n \in 0 .. Cardinality(Nodes) :
    Walk(h)[n + 1] = h /\ \A k \in 1 .. n : Walk(h)[k] # h

list_contains(h, x) == \E k \in 1 .. list_count_nodes(h) : Walk(h)[k] = x

\* The queries answer for the sequences: emptiness, first, last, singular,
\* the count, membership and the n-th node found by walking the pointers.
QueriesAgree ==
  \A h \in ready :
    /\ list_empty(mem, h) <=> lists[h] = << >>
    /\ list_is_singular(mem, h) <=> Len(lists[h]) = 1
    /\ list_count_nodes(h) = Len(lists[h])
    /\ \A x \in Nodes : list_contains(h, x) <=> x \in On(h)
    /\ \A i \in DOMAIN lists[h] :
         /\ Walk(h)[i] = lists[h][i]
         /\ list_is_first(mem, lists[h][i], h) <=> i = 1
         /\ list_is_last(mem, lists[h][i], h) <=> i = Len(lists[h])
===============================================================================
