---------------------------- MODULE BuddyProofs ----------------------------
(***************************************************************************)
(* Proofs about Buddy, for every zone size, set of boot blocks and set of  *)
(* actors.                                                                 *)
(***************************************************************************)
EXTENDS Buddy, DataLemmas

-------------------------------------------------------------------------------
(* Geometry of blocks *)

\* A block has its first page, and the powers it is made of are sizes.
LEMMA Size ==
  ASSUME NEW o \in Nat
  PROVE  /\ 2^o \in Nat \ {0}
         /\ 2^(o + 1) = 2 * 2^o
BY PowerStep

LEMMA HasHead ==
  ASSUME NEW p \in Nat, NEW o \in Nat
  PROVE  p \in p .. p + 2^o - 1
<1> DEFINE s == 2^o
<1>1. s \in Nat \ {0}
  BY Size
<1> HIDE DEF s
<1>2. p \in p .. p + s - 1
  BY <1>1
<1> QED
  BY <1>2 DEF s

\* expand: the block cut down to order low and the upper halves it leaves are
\* the pages of the block it was cut from.
LEMMA ExpandCovers ==
  ASSUME NEW p \in Nat, NEW low \in Nat, NEW high \in Nat, low <= high
  PROVE  p .. p + 2^high - 1
         = (p .. p + 2^low - 1)
           \cup UNION {(p + 2^h) .. (p + 2^h) + 2^h - 1 : h \in low .. high - 1}
<1> DEFINE half(h) == (p + 2^h) .. (p + 2^h) + 2^h - 1
<1>1. \A h \in Nat : 2^h \in Nat \ {0} /\ 2^(h + 1) = 2 * 2^h
  BY Size
<1>2. ASSUME NEW q \in p .. p + 2^low - 1
      PROVE  q \in p .. p + 2^high - 1
  BY <1>1, PowerMono
<1>3. ASSUME NEW h \in low .. high - 1, NEW q \in half(h)
      PROVE  q \in p .. p + 2^high - 1
  <2>1. h \in Nat /\ h + 1 \in Nat /\ h + 1 <= high
    OBVIOUS
  <2>2. 2^(h + 1) <= 2^high
    BY <2>1, PowerMono
  <2>3. 2^h \in Nat /\ 2^high \in Nat /\ 2^h + 2^h <= 2^high
    BY <2>1, <2>2, <1>1
  <2> QED
    BY <2>3
<1>4. ASSUME NEW q \in p .. p + 2^high - 1, q \notin p .. p + 2^low - 1
      PROVE  \E h \in low .. high - 1 : q \in half(h)
  <2> DEFINE S == {h \in low .. high : q < p + 2^h}
  <2>1. S \in SUBSET Nat /\ S # {}
    <3>1. 2^high \in Nat /\ high \in low .. high
      BY <1>1
    <3> QED
      BY <3>1
  <2>2. PICK h \in S : \A k \in S : h <= k
    <3> HIDE DEF S
    <3> QED
      BY <2>1, LeastNat
  <2>3. h # low /\ h - 1 \in Nat /\ h - 1 \in low .. high - 1
    <3>1. 2^low \in Nat
      BY <1>1
    <3> QED
      BY <1>4, <3>1
  <2>4. h - 1 \notin S
    BY <2>2, <2>3
  <2>5. 2^(h - 1) \in Nat /\ 2^h = 2 * 2^(h - 1)
    <3>1. (h - 1) + 1 = h
      BY <2>3
    <3> QED
      BY <2>3, <1>1, <3>1
  <2>6. q >= p + 2^(h - 1)
    BY <2>3, <2>4, <2>5
  <2>7. q \in half(h - 1)
    BY <2>2, <2>5, <2>6
  <2> QED
    BY <2>3, <2>7
<1> HIDE DEF half
<1>5. ASSUME NEW q
      PROVE  q \in p .. p + 2^high - 1
             <=> q \in p .. p + 2^low - 1 \/ \E h \in low .. high - 1 : q \in half(h)
  BY <1>2, <1>3, <1>4
<1>6. p .. p + 2^high - 1
      = (p .. p + 2^low - 1) \cup UNION {half(h) : h \in low .. high - 1}
  BY <1>5
<1> QED
  BY <1>6 DEF half

\* expand: no two of the pieces share a page.
LEMMA ExpandDisjoint ==
  ASSUME NEW p \in Nat, NEW h \in Nat, NEW k \in Nat, h < k
  PROVE  ((p + 2^h) .. (p + 2^h) + 2^h - 1) \cap ((p + 2^k) .. (p + 2^k) + 2^k - 1) = {}
<1>1. 2^h \in Nat /\ 2^k \in Nat /\ 2^(h + 1) = 2 * 2^h
  BY Size
<1>2. 2^(h + 1) <= 2^k
  BY PowerMono
<1>3. (p + 2^h) + 2^h - 1 < p + 2^k
  BY <1>1, <1>2
<1> QED
  BY <1>1, <1>3

LEMMA ExpandKeeps ==
  ASSUME NEW p \in Nat, NEW o \in Nat, NEW k \in Nat, o <= k
  PROVE  (p .. p + 2^o - 1) \cap ((p + 2^k) .. (p + 2^k) + 2^k - 1) = {}
<1>1. 2^o \in Nat /\ 2^k \in Nat
  BY Size
<1>2. 2^o <= 2^k
  BY PowerMono
<1> QED
  BY <1>1, <1>2

\* What is aligned to an order is aligned to the orders below.
LEMMA AlignedBelow ==
  ASSUME NEW p \in Nat, NEW i \in Nat, NEW j \in Nat, i <= j, p % 2^j = 0
  PROVE  p % 2^i = 0
<1> DEFINE S == {n \in Nat : p % 2^(i + n) = 0 => p % 2^i = 0}
<1>1. 0 \in S
  <2>1. i + 0 = i
    OBVIOUS
  <2> QED
    BY <2>1
<1>2. ASSUME NEW n \in Nat, n \in S
      PROVE  n + 1 \in S
  <2>1. 2^(i + n) \in Nat \ {0} /\ 2^((i + n) + 1) = 2 * 2^(i + n) /\ i + (n + 1) = (i + n) + 1
    BY Size
  <2>2. p % 2^(i + (n + 1)) = 0 => p % 2^(i + n) = 0
    BY <2>1, AlignedHalf
  <2> QED
    BY <1>2, <2>2
<1> HIDE DEF S
<1>3. j - i \in S
  <2>1. j - i \in Nat
    OBVIOUS
  <2> QED
    BY <1>1, <1>2, <2>1, NatSetInduction
<1>4. i + (j - i) = j
  OBVIOUS
<1> QED
  BY <1>3, <1>4 DEF S

\* The upper half of a block aligned to twice its size: it is aligned to its
\* size, and its buddy is the lower half.
LEMMA UpperHalf ==
  ASSUME NEW p \in Nat, NEW h \in Nat, p % 2^(h + 1) = 0
  PROVE  /\ (p + 2^h) % 2^h = 0
         /\ FindBuddyPfn(p + 2^h, h) = p
<1> DEFINE s == 2^h
           d == 2^(h + 1)
           k == p \div d
<1>1. s \in Nat \ {0} /\ d = 2 * s
  BY Size
<1>2. k \in Nat /\ p = k * d
  <2>1. d \in Nat \ {0} /\ p % d = 0
    BY <1>1
  <2> HIDE DEF d
  <2> QED
    BY <2>1
<1> HIDE DEF s, d, k
<1>3. (p + s) % s = 0
  <2> DEFINE j == 2 * k + 1
             t == p + s
  <2>1. t = j * s + 0 /\ j \in Nat /\ 0 \in 0 .. s - 1
    BY <1>1, <1>2
  <2> HIDE DEF j, t
  <2>2. t % s = 0
    BY <1>1, <2>1, RemainderOf
  <2> QED
    BY <2>2 DEF t
<1>4. (p + s) % d = s
  <2>1. d \in Nat \ {0} /\ s \in 0 .. d - 1
    BY <1>1
  <2> QED
    BY <1>2, <2>1, RemainderOf
<1>5. (p + s) % d # 0 /\ (p + s) - s = p
  BY <1>1, <1>4
<1> QED
  BY <1>3, <1>5 DEF FindBuddyPfn, s, d

\* The buddy's buddy of an aligned block is the block.
LEMMA BuddyOfBuddy ==
  ASSUME NEW p \in Nat, NEW o \in Nat, p % 2^o = 0
  PROVE  FindBuddyPfn(FindBuddyPfn(p, o), o) = p
<1>1. CASE p % 2^(o + 1) = 0
  BY <1>1, UpperHalf DEF FindBuddyPfn
<1>2. CASE p % 2^(o + 1) # 0
  <2> DEFINE s == 2^o
             d == 2^(o + 1)
             c == p - (p % (2 * s))
  <2>1. s \in Nat \ {0} /\ d = 2 * s /\ p % s = 0
    BY Size
  <2>2. FindBuddyPfn(p, o) = p - s
    BY <1>2 DEF FindBuddyPfn
  <2>3. p % (2 * s) # 0
    BY <1>2, <2>1
  <2> HIDE DEF s, d
  <2>4. p - (p % s) = p
    BY <2>1, RoundAligned
  <2>5. c = p - s
    BY <2>1, <2>3, <2>4, Halves
  <2>6. 2 * s \in Nat \ {0}
    BY <2>1
  <2>7. c % (2 * s) = 0
    BY <2>6, RoundDown
  <2>8. (p - s) % d = 0 /\ (p - s) + s = p
    BY <2>1, <2>5, <2>7
  <2> QED
    BY <2>2, <2>8 DEF FindBuddyPfn, s, d
<1> QED
  BY <1>1, <1>2

\* Align rounds down to a multiple of the size.
LEMMA AlignRounds ==
  ASSUME NEW p \in Nat, NEW o \in Nat
  PROVE  /\ Align(p, o) \in Nat
         /\ Align(p, o) % 2^o = 0
         /\ p \in Align(p, o) .. Align(p, o) + 2^o - 1
         /\ p % 2^o = 0 => Align(p, o) = p
<1> DEFINE s == 2^o
           a == p - (p % s)
<1>1. s \in Nat \ {0}
  BY Size
<1>2. Align(p, o) = a
  BY DEF Align
<1> HIDE DEF s
<1>3. a \in Nat /\ a % s = 0 /\ a <= p /\ p <= a + s - 1
  BY <1>1, RoundDown
<1>4. p % s = 0 => a = p
  BY <1>1, RoundAligned
<1> HIDE DEF a
<1>5. p \in a .. a + s - 1
  BY <1>1, <1>3
<1> QED
  BY <1>2, <1>3, <1>4, <1>5 DEF s

\* One turn of the merge loop: the block and its buddy are the two halves of
\* the block one order up.
LEMMA MergeTurn ==
  ASSUME NEW p \in Nat, NEW k \in Nat
  PROVE  Span(<<Align(p, k + 1), k + 1>>)
         = Span(<<Align(p, k), k>>) \cup Span(<<FindBuddyPfn(Align(p, k), k), k>>)
<1> DEFINE s == 2^k
           d == 2^(k + 1)
           a == p - (p % s)
           c == p - (p % d)
           b == FindBuddyPfn(Align(p, k), k)
<1>1. s \in Nat \ {0} /\ d = 2 * s
  BY Size
<1>2. Align(p, k) = a /\ Align(p, k + 1) = c
  BY DEF Align
<1>3. b = IF a % d = 0 THEN a + s ELSE a - s
  BY <1>2 DEF FindBuddyPfn
<1>4. Span(<<Align(p, k + 1), k + 1>>) = c .. c + d - 1
  BY <1>2 DEF Span
<1>5. Span(<<Align(p, k), k>>) = a .. a + s - 1
  BY <1>2 DEF Span
<1>6. Span(<<FindBuddyPfn(Align(p, k), k), k>>) = b .. b + s - 1
  BY DEF Span
<1> HIDE DEF s, d, b
<1>7. \/ a % d = 0 /\ c = a
      \/ a % d # 0 /\ c = a - s
  BY <1>1, Halves
<1>8. a \in Nat /\ c \in Nat
  BY <1>1, RoundDown
<1> HIDE DEF a, c
<1>9. c .. c + d - 1 = (a .. a + s - 1) \cup (b .. b + s - 1)
  BY <1>1, <1>3, <1>7, <1>8
<1> QED
  BY <1>4, <1>5, <1>6, <1>9

\* The merge loop: the merged block is the freed block and the buddies taken
\* on the way.
LEMMA MergeCovers ==
  ASSUME NEW p \in Nat, NEW o \in Nat, NEW m \in Nat, o <= m, p % 2^o = 0
  PROVE  Span(<<Align(p, m), m>>)
         = Span(<<p, o>>)
           \cup UNION {Span(<<FindBuddyPfn(Align(p, k), k), k>>) : k \in o .. m - 1}
<1> DEFINE A(k) == Span(<<Align(p, k), k>>)
           B(k) == Span(<<FindBuddyPfn(Align(p, k), k), k>>)
<1>1. \A k \in Nat : A(k + 1) = A(k) \cup B(k)
  BY MergeTurn
<1>2. A(o) = Span(<<p, o>>)
  BY AlignRounds
<1> HIDE DEF A, B
<1>3. ASSUME NEW q \in A(m)
      PROVE  q \in A(o) \/ \E k \in o .. m - 1 : q \in B(k)
  <2> DEFINE S == {k \in o .. m : q \in A(k)}
  <2>1. S \in SUBSET Nat /\ S # {}
    <3>1. m \in o .. m
      OBVIOUS
    <3> QED
      BY <3>1
  <2>2. PICK k \in S : \A j \in S : k <= j
    <3> HIDE DEF S
    <3> QED
      BY <2>1, LeastNat
  <2>3. CASE k = o
    BY <2>2, <2>3
  <2>4. CASE k # o
    <3>1. k - 1 \in Nat /\ k - 1 \in o .. m - 1 /\ (k - 1) + 1 = k
      BY <2>4
    <3>2. q \notin A(k - 1)
      <4>1. k - 1 \notin S
        BY <2>2, <3>1
      <4> QED
        BY <3>1, <4>1
    <3>3. A(k) = A(k - 1) \cup B(k - 1)
      BY <1>1, <3>1
    <3> QED
      BY <2>2, <3>1, <3>2, <3>3
  <2> QED
    BY <2>3, <2>4
<1>4. ASSUME NEW j \in o .. m, NEW q \in A(j)
      PROVE  q \in A(m)
  <2> DEFINE S == {k \in o .. m : q \in A(k)}
  <2>1. S \in SUBSET Nat /\ S # {} /\ \A k \in S : k <= m
    BY <1>4
  <2>2. PICK k \in S : \A i \in S : i <= k
    <3> HIDE DEF S
    <3> QED
      BY <2>1, GreatestNat
  <2>3. CASE k = m
    BY <2>2, <2>3
  <2>4. CASE k # m
    <3>1. k \in Nat /\ k + 1 \in o .. m
      BY <2>4
    <3>2. q \in A(k + 1)
      BY <1>1, <2>2, <3>1
    <3>3. k + 1 \in S
      BY <3>1, <3>2
    <3> QED
      BY <2>2, <3>1, <3>3
  <2> QED
    BY <2>3, <2>4
<1>5. ASSUME NEW k \in o .. m - 1, NEW q \in B(k)
      PROVE  q \in A(m)
  <2>1. k \in Nat /\ k + 1 \in o .. m
    OBVIOUS
  <2>2. q \in A(k + 1)
    BY <1>1, <1>5, <2>1
  <2> QED
    BY <1>4, <2>1, <2>2
<1>6. o \in o .. m
  OBVIOUS
<1>7. \A q : q \in A(m) <=> (q \in A(o) \/ \E k \in o .. m - 1 : q \in B(k))
  BY <1>3, <1>4, <1>5, <1>6
<1>8. A(m) = A(o) \cup UNION {B(k) : k \in o .. m - 1}
  BY <1>7
<1> QED
  BY <1>2, <1>8 DEF A, B

-------------------------------------------------------------------------------
(* The invariant *)

Types  == {UNMOVABLE, MOVABLE, RECLAIMABLE}
Memory == UNION {Span(b) : b \in BootBlocks}

Block(a) == <<act[a].page, act[a].order>>
Busy     == {a \in Actors : act[a].pc # "idle"}

\* Who holds pages, as triples of a kind, a name and the pages: the free lists,
\* the allocators, the calls in progress, the per-CPU list and, for good, the
\* rejected blocks.
OfKind(k, B) == {<<k, b, Span(b)>> : b \in B}
Calls        == {<<"call", a, Span(Block(a))>> : a \in Busy}
OnPcp        == {<<"pcp", p, {p}>> : p \in pcp}

Holdings ==
  OfKind("free", free) \cup OfKind("owned", owned) \cup Calls \cup OnPcp
  \cup OfKind("leaked", leaked)

\* The holdings H have the pages M, and divide them among them.
Covers(H, M) ==
  /\ \A x \in H : x[3] \subseteq M
  /\ \A p \in M : \E x \in H : p \in x[3]

Divides(H, M) ==
  /\ \A x, y \in H : x # y => x[3] \cap y[3] = {}
  /\ Covers(H, M)

CallRec == [pc : {"idle", "prep", "account", "check", "merge", "pcp"},
            page : Pfns, order : Orders]

Aligned(b) == b[1] % 2^b[2] = 0

TypeInv ==
  /\ free \subseteq Pfns \X Orders \X Types
  /\ owned \subseteq Pfns \X Orders /\ leaked \subseteq Pfns \X Orders
  /\ pcp \subseteq Pfns
  /\ count \in [Pfns -> Nat] /\ fmt \in [Pfns -> Types]
  /\ act \in [Actors -> CallRec]
  /\ \A b \in free \cup owned : Aligned(b)
  /\ \A a \in Busy : Aligned(Block(a))

PlaceInv == Divides(Holdings, Memory)

\* The page structs of the free blocks' first pages, and of no others, say so.
PageInv ==
  /\ \A p \in Pfns : PageBuddy[p] <=> \E b \in free : b[1] = p
  /\ \A b \in free : private[b[1]] = b[2]

\* Pages on their way to a free list have no reference left, from the moment
\* free_page_prepare looked at them.
CountInv ==
  /\ \A b \in free : \A p \in Span(b) : count[p] = 0
  /\ \A p \in pcp : count[p] = 0
  /\ \A a \in Actors :
       /\ act[a].pc \in {"merge", "pcp"} => \A p \in Span(Block(a)) : count[p] = 0
       /\ act[a].pc = "pcp" => act[a].order = 0

\* While a batch goes back, pcp->count still has the part of it that went.
NumberInv ==
  /\ \A o \in Orders : nr_free[o] = Cardinality({b \in free : b[2] = o})
  /\ zone_free = PagesIn(free)
  /\ bulk \in 0 .. PcpBatch
  /\ pcp_count = Cardinality(pcp) + (IF bulk = 0 THEN 0 ELSE PcpBatch - bulk)

ListInv == PageInv /\ FullyMerged /\ NumberInv

Inv == TypeInv /\ PlaceInv /\ CountInv /\ ListInv /\ RunsOffOnlyWhenEmpty

-------------------------------------------------------------------------------
(* Moving pages from some holdings to others *)

\* When the pages of some holdings go to new ones, which divide them, all
\* holdings still divide the memory.
LEMMA PagesMove ==
  ASSUME NEW P, NEW M, NEW Del, NEW Add, NEW N, NEW Q,
         Divides(P, M), Del \subseteq P, Q = (P \ Del) \cup Add,
         Covers(Del, N), Divides(Add, N)
  PROVE  Divides(Q, M)
<1> USE DEF Covers
<1>1. ASSUME NEW x \in Q, NEW y \in Q, x # y, NEW p, p \in x[3], p \in y[3]
      PROVE  FALSE
  <2>1. CASE x \in P \ Del /\ y \in P \ Del
    BY <1>1, <2>1 DEF Divides
  <2>2. CASE x \in Add /\ y \in Add
    BY <1>1, <2>2 DEF Divides
  <2>3. ASSUME NEW u \in P \ Del, NEW v \in Add, p \in u[3], p \in v[3]
        PROVE  FALSE
    <3>1. PICK z \in Del : p \in z[3]
      BY <2>3 DEF Divides
    <3> QED
      BY <2>3, <3>1 DEF Divides
  <2> QED
    BY <1>1, <2>1, <2>2, <2>3
<1>2. ASSUME NEW x \in Q
      PROVE  x[3] \subseteq M
  <2>1. \A q \in N : q \in M
    BY DEF Divides
  <2> QED
    BY <2>1 DEF Divides
<1>3. ASSUME NEW p \in M
      PROVE  \E x \in Q : p \in x[3]
  <2>1. PICK x \in P : p \in x[3]
    BY DEF Divides
  <2>2. x \in Del => \E y \in Add : p \in y[3]
    BY <2>1 DEF Divides
  <2> QED
    BY <2>1, <2>2
<1> QED
  BY <1>1, <1>2, <1>3 DEF Divides

\* Nothing is held twice: a page tells who holds it.
LEMMA OneHolder ==
  ASSUME NEW H, NEW M, Divides(H, M), NEW x \in H, NEW y \in H,
         NEW p, p \in x[3], p \in y[3]
  PROVE  x = y
BY DEF Divides

\* The members of Holdings, one kind at a time.
LEMMA Members ==
  ASSUME NEW x
  PROVE  /\ x \in OfKind("free", free) <=> x \in Holdings /\ x[1] = "free"
         /\ x \in OfKind("owned", owned) <=> x \in Holdings /\ x[1] = "owned"
         /\ x \in OfKind("leaked", leaked) <=> x \in Holdings /\ x[1] = "leaked"
         /\ x \in Calls <=> x \in Holdings /\ x[1] = "call"
         /\ x \in OnPcp <=> x \in Holdings /\ x[1] = "pcp"
BY DEF Holdings, OfKind, Calls, OnPcp

\* Different blocks on the free lists, with different allocators and in calls
\* have no page in common.
LEMMA Apart ==
  ASSUME PlaceInv
  PROVE  /\ \A b, c \in free : \A p : p \in Span(b) /\ p \in Span(c) => b = c
         /\ \A b, c \in owned : \A p : p \in Span(b) /\ p \in Span(c) => b = c
         /\ \A b \in free, c \in owned : \A p : ~ (p \in Span(b) /\ p \in Span(c))
         /\ \A b \in free, a \in Busy : \A p : ~ (p \in Span(b) /\ p \in Span(Block(a)))
         /\ \A b \in owned, a \in Busy : \A p : ~ (p \in Span(b) /\ p \in Span(Block(a)))
         /\ \A a, c \in Busy : \A p : p \in Span(Block(a)) /\ p \in Span(Block(c)) => a = c
         /\ \A p \in pcp : /\ \A b \in free \cup owned : p \notin Span(b)
                           /\ \A a \in Busy : p \notin Span(Block(a))
<1> DEFINE f(b) == <<"free", b, Span(b)>>
           o(b) == <<"owned", b, Span(b)>>
           c(a) == <<"call", a, Span(Block(a))>>
           q(p) == <<"pcp", p, {p}>>
<1>1. /\ \A b \in free : f(b) \in Holdings
      /\ \A b \in owned : o(b) \in Holdings
      /\ \A a \in Busy : c(a) \in Holdings
      /\ \A p \in pcp : q(p) \in Holdings
  BY DEF Holdings, OfKind, Calls, OnPcp
<1>2. \A x, y \in Holdings : \A p : p \in x[3] /\ p \in y[3] => x = y
  BY OneHolder DEF PlaceInv
<1>3. /\ \A b : f(b)[1] = "free" /\ f(b)[2] = b /\ f(b)[3] = Span(b)
      /\ \A b : o(b)[1] = "owned" /\ o(b)[2] = b /\ o(b)[3] = Span(b)
      /\ \A a : c(a)[1] = "call" /\ c(a)[2] = a /\ c(a)[3] = Span(Block(a))
      /\ \A p : q(p)[1] = "pcp" /\ q(p)[2] = p /\ q(p)[3] = {p}
  OBVIOUS
<1> HIDE DEF f, o, c, q
<1>4. \A b, d \in free : \A p : p \in Span(b) /\ p \in Span(d) => b = d
  BY <1>1, <1>2, <1>3
<1>5. \A b, d \in owned : \A p : p \in Span(b) /\ p \in Span(d) => b = d
  BY <1>1, <1>2, <1>3
<1>6. \A b \in free, d \in owned : \A p : ~ (p \in Span(b) /\ p \in Span(d))
  BY <1>1, <1>2, <1>3
<1>7. \A b \in free, a \in Busy : \A p : ~ (p \in Span(b) /\ p \in Span(Block(a)))
  BY <1>1, <1>2, <1>3
<1>8. \A b \in owned, a \in Busy : \A p : ~ (p \in Span(b) /\ p \in Span(Block(a)))
  BY <1>1, <1>2, <1>3
<1>9. \A a, d \in Busy : \A p : p \in Span(Block(a)) /\ p \in Span(Block(d)) => a = d
  BY <1>1, <1>2, <1>3
<1>10. \A p \in pcp : /\ \A b \in free : p \notin Span(b)
                      /\ \A b \in owned : p \notin Span(b)
                      /\ \A a \in Busy : p \notin Span(Block(a))
  <2>1. \A p \in pcp : p \in q(p)[3]
    BY <1>3
  <2> QED
    BY <1>1, <1>2, <1>3, <2>1
<1> QED
  BY <1>4, <1>5, <1>6, <1>7, <1>8, <1>9, <1>10

\* All pages of a holding are pages boot handed over, hence of the zone.
LEMMA InMemory ==
  ASSUME PlaceInv
  PROVE  /\ Memory \subseteq Pfns
         /\ \A b \in free \cup owned \cup leaked : Span(b) \subseteq Memory
         /\ \A a \in Busy : Span(Block(a)) \subseteq Memory
         /\ pcp \subseteq Memory
<1>1. Memory \subseteq Pfns
  BY BootAssumption DEF Memory
<1>2. \A x \in Holdings : x[3] \subseteq Memory
  BY DEF PlaceInv, Divides, Covers
<1>3. /\ \A b \in free : <<"free", b, Span(b)>> \in Holdings
      /\ \A b \in owned : <<"owned", b, Span(b)>> \in Holdings
      /\ \A b \in leaked : <<"leaked", b, Span(b)>> \in Holdings
      /\ \A a \in Busy : <<"call", a, Span(Block(a))>> \in Holdings
      /\ \A p \in pcp : <<"pcp", p, {p}>> \in Holdings
  BY DEF Holdings, OfKind, Calls, OnPcp
<1>4. /\ \A b \in free : Span(b) \subseteq Memory
      /\ \A b \in owned : Span(b) \subseteq Memory
      /\ \A b \in leaked : Span(b) \subseteq Memory
  BY <1>2, <1>3
<1>5. \A a \in Busy : Span(Block(a)) \subseteq Memory
  BY <1>2, <1>3
<1>6. \A p \in pcp : p \in Memory
  BY <1>2, <1>3
<1> QED
  BY <1>1, <1>4, <1>5, <1>6

\* Holdings that divide the memory have every page of it once, and no other.
LEMMA DividedIsPartitioned ==
  ASSUME PlaceInv
  PROVE  FramesPartitioned
<1> SUFFICES ASSUME NEW p \in Pfns
             PROVE  Uses(p) = IF p \in Memory THEN 1 ELSE 0
  BY DEF FramesPartitioned, Memory
<1> DEFINE F == {b \in free : p \in Span(b)}
           O == {b \in owned : p \in Span(b)}
           C == {a \in Busy : p \in Span(Block(a))}
           Q == {q \in pcp : q = p}
           L == {b \in leaked : p \in Span(b)}
           Holds(k, n) == \E x \in Holdings : x[1] = k /\ x[2] = n /\ p \in x[3]
<1>1. Uses(p) = Cardinality(F) + Cardinality(O) + Cardinality(C) + Cardinality(Q)
                + Cardinality(L)
  <2>1. {a \in Actors : p \in InFlight(a)} = C
    BY DEF InFlight, Busy, Block
  <2> QED
    BY <2>1 DEF Uses
<1>2. /\ \A b \in F : Holds("free", b)
      /\ \A b \in O : Holds("owned", b)
      /\ \A a \in C : Holds("call", a)
      /\ \A q \in Q : Holds("pcp", q)
      /\ \A b \in L : Holds("leaked", b)
  <2>1. /\ \A b \in F : <<"free", b, Span(b)>> \in Holdings
        /\ \A b \in O : <<"owned", b, Span(b)>> \in Holdings
        /\ \A a \in C : <<"call", a, Span(Block(a))>> \in Holdings
        /\ \A q \in Q : <<"pcp", q, {q}>> \in Holdings
        /\ \A b \in L : <<"leaked", b, Span(b)>> \in Holdings
    BY DEF Holdings, OfKind, Calls, OnPcp
  <2>2. \A b \in F : Holds("free", b)
    BY <2>1
  <2>3. \A b \in O : Holds("owned", b)
    BY <2>1
  <2>4. \A a \in C : Holds("call", a)
    BY <2>1
  <2>5. \A q \in Q : Holds("pcp", q)
    BY <2>1
  <2>6. \A b \in L : Holds("leaked", b)
    BY <2>1
  <2> QED
    BY <2>2, <2>3, <2>4, <2>5, <2>6
<1>3. Cardinality({}) = 0 /\ \A x : Cardinality({x}) = 1
  BY FS_EmptySet, FS_Singleton
<1>4. CASE p \notin Memory
  <2>1. \A x \in Holdings : p \notin x[3]
    BY <1>4 DEF PlaceInv, Divides, Covers
  <2> HIDE DEF F, O, C, Q, L
  <2>2. F = {} /\ O = {} /\ C = {} /\ Q = {} /\ L = {}
    BY <1>2, <2>1
  <2> QED
    BY <1>1, <1>3, <1>4, <2>2
<1>5. CASE p \in Memory
  <2>1. PICK h \in Holdings : p \in h[3]
    BY <1>5 DEF PlaceInv, Divides, Covers
  <2>2. \A x \in Holdings : p \in x[3] => x = h
    BY <2>1, OneHolder DEF PlaceInv
  <2>3. Cardinality({h[2]}) = 1 /\ Cardinality({}) = 0
    BY <1>3
  <2>4. \/ h[1] = "free" /\ h[2] \in F
        \/ h[1] = "owned" /\ h[2] \in O
        \/ h[1] = "call" /\ h[2] \in C
        \/ h[1] = "pcp" /\ h[2] \in Q
        \/ h[1] = "leaked" /\ h[2] \in L
    BY <2>1 DEF Holdings, OfKind, Calls, OnPcp
  <2>5. /\ \A b \in F : h[1] = "free" /\ h[2] = b
        /\ \A b \in O : h[1] = "owned" /\ h[2] = b
        /\ \A a \in C : h[1] = "call" /\ h[2] = a
        /\ \A q \in Q : h[1] = "pcp" /\ h[2] = q
        /\ \A b \in L : h[1] = "leaked" /\ h[2] = b
    BY <1>2, <2>2
  <2> HIDE DEF F, O, C, Q, L
  <2>6. CASE h[1] = "free"
    <3>1. F = {h[2]} /\ O = {} /\ C = {} /\ Q = {} /\ L = {}
      BY <2>4, <2>5, <2>6
    <3>2. Uses(p) = 1
      BY <1>1, <2>3, <3>1
    <3> QED
      BY <1>5, <3>2
  <2>7. CASE h[1] = "owned"
    <3>1. F = {} /\ O = {h[2]} /\ C = {} /\ Q = {} /\ L = {}
      BY <2>4, <2>5, <2>7
    <3>2. Uses(p) = 1
      BY <1>1, <2>3, <3>1
    <3> QED
      BY <1>5, <3>2
  <2>8. CASE h[1] = "call"
    <3>1. F = {} /\ O = {} /\ C = {h[2]} /\ Q = {} /\ L = {}
      BY <2>4, <2>5, <2>8
    <3>2. Uses(p) = 1
      BY <1>1, <2>3, <3>1
    <3> QED
      BY <1>5, <3>2
  <2>9. CASE h[1] = "pcp"
    <3>1. F = {} /\ O = {} /\ C = {} /\ Q = {h[2]} /\ L = {}
      BY <2>4, <2>5, <2>9
    <3>2. Uses(p) = 1
      BY <1>1, <2>3, <3>1
    <3> QED
      BY <1>5, <3>2
  <2>10. CASE h[1] = "leaked"
    <3>1. F = {} /\ O = {} /\ C = {} /\ Q = {} /\ L = {h[2]}
      BY <2>4, <2>5, <2>10
    <3>2. Uses(p) = 1
      BY <1>1, <2>3, <3>1
    <3> QED
      BY <1>5, <3>2
  <2> QED
    BY <2>4, <2>6, <2>7, <2>8, <2>9, <2>10
<1> QED
  BY <1>4, <1>5

-------------------------------------------------------------------------------
(* Counting the pages and the blocks of the free lists *)

LEMMA ListsFinite ==
  ASSUME NEW B \in SUBSET (Pfns \X Orders \X Types)
  PROVE  IsFiniteSet(B) /\ IsFiniteSet(PagesOf(B))
<1>1. IsFiniteSet(Pfns) /\ IsFiniteSet(Orders)
  BY FS_Interval, SizeAssumption DEF Pfns, Orders
<1>2. IsFiniteSet(Types)
  <2>1. IsFiniteSet({})
    BY FS_EmptySet
  <2>2. IsFiniteSet({RECLAIMABLE})
    BY FS_Singleton
  <2>3. IsFiniteSet({RECLAIMABLE} \cup {MOVABLE})
    BY <2>2, FS_AddElement
  <2>4. IsFiniteSet(({RECLAIMABLE} \cup {MOVABLE}) \cup {UNMOVABLE})
    BY <2>3, FS_AddElement
  <2>5. Types = ({RECLAIMABLE} \cup {MOVABLE}) \cup {UNMOVABLE}
    BY DEF Types
  <2> QED
    BY <2>4, <2>5
<1>3. IsFiniteSet(B)
  <2>1. IsFiniteSet(Orders \X Types)
    BY <1>1, <1>2, FS_Product
  <2>2. IsFiniteSet(Pfns \X (Orders \X Types))
    BY <1>1, <2>1, FS_Product
  <2> DEFINE T == Pfns \X (Orders \X Types)
             f == [b \in B |-> <<b[1], <<b[2], b[3]>>>>]
  <2>3. f \in [B -> T]
    OBVIOUS
  <2>4. ASSUME NEW b \in B, NEW c \in B, f[b] = f[c]
        PROVE  b = c
    <3>1. b[1] = c[1] /\ b[2] = c[2] /\ b[3] = c[3]
      BY <2>4
    <3> QED
      BY <3>1
  <2>5. f \in Injection(B, T)
    BY <2>3, <2>4 DEF Injection, IsInjective
  <2> QED
    BY <2>2, <2>5, FS_Injection
<1>4. IsFiniteSet(PagesOf(B))
  <2> DEFINE N == 2^MAX_ORDER
  <2>1. N \in Nat /\ \A o \in Orders : o \in Nat /\ 2^o \in Nat /\ 2^o <= N
    <3>1. \A o \in Orders : o \in Nat /\ o <= MAX_ORDER /\ MAX_ORDER \in Nat
      BY SizeAssumption DEF Orders
    <3> QED
      BY <3>1, PowerMono, Size, SizeAssumption
  <2> HIDE DEF N
  <2>2. IsFiniteSet(0 .. N)
    BY <2>1, FS_Interval
  <2>3. IsFiniteSet(B \X (0 .. N))
    BY <1>3, <2>2, FS_Product
  <2>4. PagesOf(B) \subseteq B \X (0 .. N)
    <3> SUFFICES ASSUME NEW b \in B, NEW x \in {b} \X (0 .. 2^b[2] - 1)
                 PROVE  x \in B \X (0 .. N)
      BY DEF PagesOf
    <3>1. 2^b[2] \in Nat /\ 2^b[2] <= N
      BY <2>1
    <3>2. \A i \in 0 .. 2^b[2] - 1 : i \in 0 .. N
      BY <2>1, <3>1
    <3> QED
      BY <3>2
  <2> QED
    BY <2>3, <2>4, FS_Subset
<1> QED
  BY <1>3, <1>4

LEMMA CardinalityChange ==
  ASSUME NEW X, IsFiniteSet(X), NEW Y, Y \subseteq X, NEW Z, IsFiniteSet(Z),
         Z \cap (X \ Y) = {}
  PROVE  /\ Cardinality((X \ Y) \cup Z) = Cardinality(X) - Cardinality(Y) + Cardinality(Z)
         /\ Cardinality((X \ Y) \cup Z) \in Nat
<1>1. X \cap Y = Y /\ (X \ Y) \cap Z = {}
  OBVIOUS
<1>2. IsFiniteSet(X \ Y) /\ Cardinality(X \ Y) = Cardinality(X) - Cardinality(Y)
  BY <1>1, FS_Difference
<1>3. /\ IsFiniteSet((X \ Y) \cup Z)
      /\ Cardinality((X \ Y) \cup Z) = Cardinality(X \ Y) + Cardinality(Z) - Cardinality({})
  BY <1>1, <1>2, FS_Union
<1>4. IsFiniteSet(Y)
  BY FS_Subset
<1>5. /\ Cardinality({}) = 0 /\ Cardinality(X) \in Nat /\ Cardinality(Y) \in Nat
      /\ Cardinality(Z) \in Nat
  BY <1>4, FS_EmptySet, FS_CardinalityType
<1>6. Cardinality((X \ Y) \cup Z) \in Nat
  BY <1>3, FS_CardinalityType
<1> QED
  BY <1>2, <1>3, <1>5, <1>6

\* The counters follow the blocks that come off the lists and go on them.
LEMMA CountersFollow ==
  ASSUME NEW B \in SUBSET (Pfns \X Orders \X Types), NEW D \in SUBSET B,
         NEW A \in SUBSET (Pfns \X Orders \X Types), A \cap (B \ D) = {}
  PROVE  /\ PagesIn((B \ D) \cup A) = PagesIn(B) - PagesIn(D) + PagesIn(A)
         /\ \A o \in Orders :
              Cardinality({b \in (B \ D) \cup A : b[2] = o})
              = Cardinality({b \in B : b[2] = o}) - Cardinality({b \in D : b[2] = o})
                + Cardinality({b \in A : b[2] = o})
<1>1. IsFiniteSet(B) /\ IsFiniteSet(A) /\ IsFiniteSet(PagesOf(B)) /\ IsFiniteSet(PagesOf(A))
  BY ListsFinite
<1>2. PagesIn((B \ D) \cup A) = PagesIn(B) - PagesIn(D) + PagesIn(A)
  <2>1. \A C : \A x : x \in PagesOf(C) <=> \E b \in C : x \in {b} \X (0 .. 2^b[2] - 1)
    BY DEF PagesOf
  <2>2. \A b, c : \A x : x \in {b} \X (0 .. 2^b[2] - 1) /\ x \in {c} \X (0 .. 2^c[2] - 1)
                         => b = c
    OBVIOUS
  <2>3. PagesOf((B \ D) \cup A) = (PagesOf(B) \ PagesOf(D)) \cup PagesOf(A)
    BY <2>1, <2>2
  <2>4. PagesOf(D) \subseteq PagesOf(B)
    BY <2>1
  <2>5. PagesOf(A) \cap (PagesOf(B) \ PagesOf(D)) = {}
    BY <2>1, <2>2
  <2> DEFINE X == PagesOf(B)
             Y == PagesOf(D)
             Z == PagesOf(A)
  <2> HIDE DEF X, Y, Z
  <2>6. Cardinality((X \ Y) \cup Z) = Cardinality(X) - Cardinality(Y) + Cardinality(Z)
    BY <1>1, <2>4, <2>5, CardinalityChange DEF X, Y, Z
  <2> QED
    BY <2>3, <2>6 DEF PagesIn, X, Y, Z
<1>3. ASSUME NEW o \in Orders
      PROVE  Cardinality({b \in (B \ D) \cup A : b[2] = o})
             = Cardinality({b \in B : b[2] = o}) - Cardinality({b \in D : b[2] = o})
               + Cardinality({b \in A : b[2] = o})
  <2> DEFINE X == {b \in B : b[2] = o}
             Y == {b \in D : b[2] = o}
             Z == {b \in A : b[2] = o}
  <2>1. IsFiniteSet(X) /\ IsFiniteSet(Z)
    BY <1>1, FS_Subset
  <2>2. {b \in (B \ D) \cup A : b[2] = o} = (X \ Y) \cup Z
    OBVIOUS
  <2>3. Y \subseteq X /\ Z \cap (X \ Y) = {}
    OBVIOUS
  <2> HIDE DEF X, Y, Z
  <2>4. Cardinality((X \ Y) \cup Z) = Cardinality(X) - Cardinality(Y) + Cardinality(Z)
    BY <2>1, <2>3, CardinalityChange
  <2> QED
    BY <2>2, <2>4 DEF X, Y, Z
<1> QED
  BY <1>2, <1>3

\* Blocks without a common page have as many pages as there are frames in them.
LEMMA PagesAreFrames ==
  ASSUME NEW B \in SUBSET (Pfns \X Orders \X Types),
         \A b, c \in B : \A p : p \in Span(b) /\ p \in Span(c) => b = c
  PROVE  PagesIn(B) = Cardinality(UNION {Span(b) : b \in B})
<1> DEFINE U == UNION {Span(b) : b \in B}
           f == [x \in PagesOf(B) |-> x[1][1] + x[2]]
<1>1. \A b \in B : b[1] \in Nat /\ 2^b[2] \in Nat
  <2>1. \A b \in B : b[1] \in Nat /\ b[2] \in Nat
    BY SizeAssumption DEF Pfns, Orders
  <2> QED
    BY <2>1, Size
<1>2. ASSUME NEW x \in PagesOf(B)
      PROVE  /\ x[1] \in B /\ x[2] \in 0 .. 2^x[1][2] - 1 /\ x = <<x[1], x[2]>>
             /\ x[1][1] + x[2] \in Span(x[1])
  <2>1. PICK b \in B : x \in {b} \X (0 .. 2^b[2] - 1)
    BY DEF PagesOf
  <2>2. x[1] = b /\ x[2] \in 0 .. 2^b[2] - 1 /\ x = <<x[1], x[2]>>
    BY <2>1
  <2>3. b[1] + x[2] \in b[1] .. b[1] + 2^b[2] - 1
    BY <1>1, <2>2
  <2> QED
    BY <2>2, <2>3 DEF Span
<1>3. f \in [PagesOf(B) -> U]
  BY <1>2
<1>4. ASSUME NEW x \in PagesOf(B), NEW y \in PagesOf(B), f[x] = f[y]
      PROVE  x = y
  <2>1. x[1] = y[1]
    BY <1>2, <1>4
  <2>2. x[2] = y[2]
    <3>1. x[1][1] \in Nat /\ x[2] \in Int /\ y[2] \in Int /\ x[1][1] + x[2] = x[1][1] + y[2]
      BY <1>1, <1>2, <1>4, <2>1
    <3> QED
      BY <3>1
  <2> QED
    BY <1>2, <2>1, <2>2
<1>5. ASSUME NEW p \in U
      PROVE  \E x \in PagesOf(B) : f[x] = p
  <2>1. PICK b \in B : p \in b[1] .. b[1] + 2^b[2] - 1
    BY DEF Span
  <2>2. p - b[1] \in 0 .. 2^b[2] - 1 /\ b[1] + (p - b[1]) = p
    BY <1>1, <2>1
  <2>3. <<b, p - b[1]>> \in PagesOf(B)
    BY <2>2 DEF PagesOf
  <2> QED
    BY <2>2, <2>3
<1>6. f \in Bijection(PagesOf(B), U)
  BY <1>3, <1>4, <1>5 DEF Bijection, Injection, Surjection, IsInjective
<1>7. ExistsBijection(PagesOf(B), U)
  BY <1>6 DEF ExistsBijection
<1>8. IsFiniteSet(PagesOf(B))
  BY ListsFinite
<1> HIDE DEF U
<1>9. Cardinality(U) = Cardinality(PagesOf(B))
  BY <1>7, <1>8, FS_Bijection
<1> QED
  BY <1>9 DEF PagesIn, U

-------------------------------------------------------------------------------
(* Changing the free lists *)

\* Heads tell blocks apart, before and after blocks D come off the lists and A
\* go on them.
HeadsApart(D, A) ==
  /\ \A b, c \in free : b[1] = c[1] => b = c
  /\ \A b, c \in A : b[1] = c[1] => b = c
  /\ \A b \in free \ D, c \in A : b[1] # c[1]

\* __del_page_from_free_list and __add_page_to_free_list keep the page structs
\* and the counters in step with the lists.
LEMMA ListsInStep ==
  ASSUME TypeInv, PageInv, NumberInv,
         NEW D \in SUBSET free, NEW A \in SUBSET (Pfns \X Orders \X Types),
         HeadsApart(D, A), ChangeFreeLists(D, A)
  PROVE  /\ PageInv'
         /\ \A o \in Orders : nr_free'[o] = Cardinality({b \in free' : b[2] = o})
         /\ zone_free' = PagesIn(free')
<1>1. free' = (free \ D) \cup A
  BY DEF ChangeFreeLists
<1>2. ASSUME NEW p \in Pfns
      PROVE  PageBuddy'[p] <=> \E b \in free' : b[1] = p
  <2>1. PageBuddy'[p] <=> p \in Heads(A) \/ (PageBuddy[p] /\ p \notin Heads(D))
    BY DEF ChangeFreeLists
  <2>2. PageBuddy[p] <=> \E b \in free : b[1] = p
    BY DEF PageInv
  <2>3. p \in Heads(A) <=> \E b \in A : b[1] = p
    BY DEF Heads
  <2>4. p \in Heads(D) <=> \E b \in D : b[1] = p
    BY DEF Heads
  <2> QED
    BY <1>1, <2>1, <2>2, <2>3, <2>4 DEF HeadsApart
<1>3. ASSUME NEW b \in free'
      PROVE  private'[b[1]] = b[2]
  <2>1. b[1] \in Pfns
    BY <1>1 DEF TypeInv
  <2>2. private'[b[1]] = IF b[1] \in Heads(A) THEN OrderIn(A, b[1])
                         ELSE IF b[1] \in Heads(D) THEN 0 ELSE private[b[1]]
    BY <2>1 DEF ChangeFreeLists
  <2>3. CASE b \in A
    <3>1. b[1] \in Heads(A)
      BY <2>3 DEF Heads
    <3>2. (CHOOSE c \in A : c[1] = b[1]) = b
      BY <2>3 DEF HeadsApart
    <3> QED
      BY <2>2, <3>1, <3>2 DEF OrderIn
  <2>4. CASE b \in free \ D
    <3>1. b[1] \notin Heads(A) /\ b[1] \notin Heads(D)
      BY <2>4 DEF Heads, HeadsApart
    <3>2. private[b[1]] = b[2]
      BY <2>4 DEF PageInv
    <3> QED
      BY <2>2, <3>1, <3>2
  <2> QED
    BY <1>1, <2>3, <2>4
<1>4. free \in SUBSET (Pfns \X Orders \X Types) /\ A \cap (free \ D) = {}
  BY DEF TypeInv, HeadsApart
<1>5. ASSUME NEW o \in Orders
      PROVE  nr_free'[o] = Cardinality({b \in free' : b[2] = o})
  <2>1. nr_free'[o] = nr_free[o] - Cardinality({b \in D : b[2] = o})
                      + Cardinality({b \in A : b[2] = o})
    BY DEF ChangeFreeLists
  <2>2. nr_free[o] = Cardinality({b \in free : b[2] = o})
    BY DEF NumberInv
  <2>3. \A n \in Orders :
          Cardinality({b \in (free \ D) \cup A : b[2] = n})
          = Cardinality({b \in free : b[2] = n}) - Cardinality({b \in D : b[2] = n})
            + Cardinality({b \in A : b[2] = n})
    <3> DEFINE F == free
    <3>1. F \in SUBSET (Pfns \X Orders \X Types) /\ D \in SUBSET F /\ A \cap (F \ D) = {}
      BY <1>4
    <3> HIDE DEF F
    <3>2. \A n \in Orders :
            Cardinality({b \in (F \ D) \cup A : b[2] = n})
            = Cardinality({b \in F : b[2] = n}) - Cardinality({b \in D : b[2] = n})
              + Cardinality({b \in A : b[2] = n})
      BY <3>1, CountersFollow
    <3> QED
      BY <3>2 DEF F
  <2> QED
    BY <1>1, <2>1, <2>2, <2>3
<1>6. zone_free' = PagesIn(free')
  <2>1. PagesIn((free \ D) \cup A) = PagesIn(free) - PagesIn(D) + PagesIn(A)
    BY <1>4, CountersFollow
  <2> QED
    BY <1>1, <2>1 DEF ChangeFreeLists, NumberInv
<1> QED
  BY <1>2, <1>3, <1>5, <1>6 DEF PageInv

\* The merge loop stops at the largest order or where the buddy is not free.
LEMMA MergeStops ==
  ASSUME NEW p, NEW o \in Orders
  PROVE  LET m == MergedOrder(p, o)
         IN  /\ m \in Orders /\ o <= m
             /\ \A k \in o .. m - 1 : page_is_buddy(FindBuddyPfn(Align(p, k), k), k)
             /\ m < MAX_ORDER - 1 => ~ page_is_buddy(FindBuddyPfn(Align(p, m), m), m)
<1> DEFINE ok(k) == page_is_buddy(FindBuddyPfn(Align(p, k), k), k)
           S == {m \in o .. MAX_ORDER - 1 : \A k \in o .. m - 1 : ok(k)}
           m == MergedOrder(p, o)
<1>1. o \in Nat /\ MAX_ORDER - 1 \in Nat /\ o <= MAX_ORDER - 1
  BY SizeAssumption DEF Orders
<1>2. m = CHOOSE x \in S : \A y \in S : x >= y
  BY DEF MergedOrder, Max
<1> HIDE DEF ok, m
<1>3. \E x \in S : \A y \in S : y <= x
  <2>1. S \in SUBSET Nat /\ \A x \in S : x <= MAX_ORDER - 1
    BY <1>1
  <2>2. o \in S
    BY <1>1
  <2> HIDE DEF S
  <2> QED
    BY <1>1, <2>1, <2>2, GreatestNat
<1>4. m \in S /\ \A y \in S : m >= y
  <2>1. \E x \in S : \A y \in S : x >= y
    <3>1. \A x \in S : x \in Int
      BY <1>1
    <3> QED
      BY <1>3, <3>1
  <2> HIDE DEF S
  <2> QED
    BY <1>2, <2>1
<1>5. m \in Orders /\ o <= m /\ \A k \in o .. m - 1 : ok(k)
  BY <1>1, <1>4 DEF Orders
<1>6. ASSUME m < MAX_ORDER - 1, ok(m)
      PROVE  FALSE
  <2>1. m \in Int /\ m + 1 \in o .. MAX_ORDER - 1
    BY <1>1, <1>5, <1>6 DEF Orders
  <2>2. \A k \in o .. (m + 1) - 1 : k \in o .. m - 1 \/ k = m
    BY <1>1, <2>1
  <2>3. m + 1 \in S
    BY <1>5, <1>6, <2>1, <2>2
  <2> QED
    BY <1>4, <2>1, <2>3
<1> QED
  BY <1>5, <1>6 DEF ok, m

\* What __free_one_page takes off the lists.
Taken(p, o) ==
  {b \in free : \E k \in o .. MergedOrder(p, o) - 1 :
                  b[1] = FindBuddyPfn(Align(p, k), k) /\ b[2] = k}

\* The merged block is the freed block and the blocks taken off the lists.
LEMMA MergeTakes ==
  ASSUME TypeInv, PageInv, NEW p \in Pfns, NEW o \in Orders, p % 2^o = 0
  PROVE  LET m == MergedOrder(p, o)
         IN  Span(<<Align(p, m), m>>)
             = Span(<<p, o>>) \cup UNION {Span(d) : d \in Taken(p, o)}
<1> DEFINE m == MergedOrder(p, o)
           B(k) == FindBuddyPfn(Align(p, k), k)
<1>1. p \in Nat /\ o \in Nat
  BY SizeAssumption DEF Pfns, Orders
<1>2. m \in Orders /\ o <= m /\ \A k \in o .. m - 1 : page_is_buddy(B(k), k)
  BY MergeStops
<1>3. m \in Nat
  BY <1>2, SizeAssumption DEF Orders
<1>4. Taken(p, o) = {b \in free : \E k \in o .. m - 1 : b[1] = B(k) /\ b[2] = k}
  BY DEF Taken
<1>5. Span(<<Align(p, m), m>>)
      = Span(<<p, o>>) \cup UNION {Span(<<B(k), k>>) : k \in o .. m - 1}
  <2> HIDE DEF m
  <2> QED
    BY <1>1, <1>2, <1>3, MergeCovers
<1> HIDE DEF m, B
<1>6. \A k \in o .. m - 1 : \E d \in Taken(p, o) : d[1] = B(k) /\ d[2] = k
  <2> SUFFICES ASSUME NEW k \in o .. m - 1
               PROVE  \E d \in Taken(p, o) : d[1] = B(k) /\ d[2] = k
    OBVIOUS
  <2>1. B(k) \in Pfns /\ PageBuddy[B(k)] /\ private[B(k)] = k
    BY <1>2 DEF page_is_buddy
  <2>2. PICK d \in free : d[1] = B(k)
    BY <2>1 DEF PageInv
  <2>3. d[2] = k
    BY <2>1, <2>2 DEF PageInv
  <2> QED
    BY <1>4, <2>2, <2>3
<1>7. \A d : \A a, k : d[1] = a /\ d[2] = k => Span(d) = Span(<<a, k>>)
  BY DEF Span
<1>8. UNION {Span(<<B(k), k>>) : k \in o .. m - 1} = UNION {Span(d) : d \in Taken(p, o)}
  <2>1. ASSUME NEW k \in o .. m - 1, NEW q \in Span(<<B(k), k>>)
        PROVE  q \in UNION {Span(d) : d \in Taken(p, o)}
    BY <1>6, <1>7
  <2>2. ASSUME NEW d \in Taken(p, o), NEW q \in Span(d)
        PROVE  q \in UNION {Span(<<B(k), k>>) : k \in o .. m - 1}
    <3>1. PICK k \in o .. m - 1 : d[1] = B(k) /\ d[2] = k
      BY <1>4
    <3> QED
      BY <1>7, <3>1
  <2> QED
    BY <2>1, <2>2
<1> QED
  BY <1>5, <1>8 DEF m

\* The first page of a block is one of its pages.
LEMMA Headed ==
  /\ \A b \in Pfns \X Orders \X Types : b[1] \in Span(b)
  /\ \A b \in Pfns \X Orders : b[1] \in Span(b)
<1>1. \A p \in Pfns, o \in Orders : p \in p .. p + 2^o - 1
  BY HasHead, SizeAssumption DEF Pfns, Orders
<1> QED
  BY <1>1 DEF Span

LEMMA FreeHeads ==
  ASSUME TypeInv, PlaceInv
  PROVE  /\ \A b \in free : b[1] \in Span(b)
         /\ \A b, c \in free : b[1] = c[1] => b = c
<1>1. \A b \in free : b[1] \in Span(b)
  BY Headed DEF TypeInv
<1> QED
  BY <1>1, Apart

\* __free_one_page of a block that is nowhere on the lists: one block with the
\* pages of the freed one and of the blocks taken goes on them, nothing is left
\* that could be merged, and the page structs and counters agree.
LEMMA FreeMerges ==
  ASSUME TypeInv, PlaceInv, PageInv, FullyMerged, NumberInv,
         NEW p \in Pfns, NEW o \in Orders, NEW t \in Types, p % 2^o = 0,
         Span(<<p, o>>) \subseteq Pfns,
         \A b \in free : \A q : ~ (q \in Span(b) /\ q \in Span(<<p, o>>)),
         FreeOnePage(p, o, t)
  PROVE  \E c \in Pfns \X Orders \X Types :
           /\ free' = (free \ Taken(p, o)) \cup {c}
           /\ Aligned(c)
           /\ Span(c) = Span(<<p, o>>) \cup UNION {Span(d) : d \in Taken(p, o)}
           /\ PageInv' /\ FullyMerged'
           /\ \A n \in Orders : nr_free'[n] = Cardinality({b \in free' : b[2] = n})
           /\ zone_free' = PagesIn(free')
<1> DEFINE m == MergedOrder(p, o)
           c == <<Align(p, m), m, t>>
           D == Taken(p, o)
<1>1. ChangeFreeLists(D, {c})
  BY DEF FreeOnePage, Taken
<1>2. /\ m \in Orders
      /\ m < MAX_ORDER - 1 => ~ page_is_buddy(FindBuddyPfn(Align(p, m), m), m)
  BY MergeStops
<1>3. p \in Nat /\ m \in Nat
  BY <1>2, SizeAssumption DEF Pfns, Orders
<1>4. Span(c) = Span(<<p, o>>) \cup UNION {Span(d) : d \in D}
  <2>1. Span(c) = Span(<<Align(p, m), m>>)
    BY DEF Span
  <2> QED
    BY <2>1, MergeTakes
<1>5. c[1] = Align(p, m) /\ c[2] = m /\ c[3] = t
  OBVIOUS
<1>6. D \in SUBSET free
  BY DEF Taken
<1> HIDE DEF m, D
<1>7. Align(p, m) \in Nat /\ Align(p, m) % 2^m = 0
  BY <1>3, AlignRounds
<1>8. c[1] \in Span(c)
  <2>1. Align(p, m) \in Align(p, m) .. Align(p, m) + 2^m - 1
    BY <1>3, <1>7, HasHead
  <2> QED
    BY <2>1 DEF Span
<1>9. c \in Pfns \X Orders \X Types
  <2>1. \A d \in D : Span(d) \subseteq Pfns
    BY <1>6, InMemory
  <2>2. Align(p, m) \in Pfns
    BY <1>4, <1>5, <1>8, <2>1
  <2> QED
    BY <1>2, <2>2
<1>10. Aligned(c)
  BY <1>5, <1>7 DEF Aligned
<1> HIDE DEF c
<1>11. \A b \in free \ D : \A q : ~ (q \in Span(b) /\ q \in Span(c))
  <2> SUFFICES ASSUME NEW b \in free \ D, NEW q, q \in Span(b), q \in Span(c)
               PROVE  FALSE
    OBVIOUS
  <2>1. PICK d \in D : q \in Span(d)
    BY <1>4
  <2> QED
    BY <1>6, <2>1, Apart
<1>12. HeadsApart(D, {c})
  BY <1>8, <1>11, FreeHeads DEF HeadsApart
<1>13. /\ PageInv'
       /\ \A n \in Orders : nr_free'[n] = Cardinality({b \in free' : b[2] = n})
       /\ zone_free' = PagesIn(free')
  BY <1>1, <1>6, <1>9, <1>12, ListsInStep
<1>14. free' = (free \ D) \cup {c}
  BY <1>1 DEF ChangeFreeLists
<1>15. FullyMerged'
  <2> SUFFICES ASSUME NEW b \in free', NEW e \in free', b[2] < MAX_ORDER - 1,
                      e[2] = b[2], e[1] = FindBuddyPfn(b[1], b[2])
               PROVE  FALSE
    BY DEF FullyMerged
  <2>1. ASSUME NEW x \in free, x[2] = m, m < MAX_ORDER - 1,
               x[1] = FindBuddyPfn(Align(p, m), m)
        PROVE  FALSE
    <3>1. x[1] \in Pfns /\ PageBuddy[x[1]] /\ private[x[1]] = x[2]
      BY DEF TypeInv, PageInv
    <3> QED
      BY <1>2, <2>1, <3>1 DEF page_is_buddy
  <2>2. CASE b \in free /\ e \in free
    BY <2>2 DEF FullyMerged
  <2>3. CASE b = c /\ e \in free
    BY <1>5, <2>1, <2>3
  <2>4. CASE b \in free /\ e = c
    <3>1. b[1] \in Nat /\ b[2] \in Nat /\ b[1] % 2^b[2] = 0
      BY <2>4, SizeAssumption DEF TypeInv, Pfns, Orders, Aligned
    <3>2. FindBuddyPfn(e[1], b[2]) = b[1]
      BY <3>1, BuddyOfBuddy
    <3> QED
      BY <1>5, <2>1, <2>4, <3>2
  <2>5. CASE b = c /\ e = c
    <3> DEFINE s == 2^m
    <3>1. s \in Nat \ {0}
      BY <1>3, Size
    <3>2. Align(p, m) = Align(p, m) + s \/ Align(p, m) = Align(p, m) - s
      BY <1>5, <2>5 DEF FindBuddyPfn
    <3> HIDE DEF s
    <3> QED
      BY <1>7, <3>1, <3>2
  <2> QED
    BY <1>14, <2>2, <2>3, <2>4, <2>5
<1> QED
  BY <1>4, <1>9, <1>10, <1>13, <1>14, <1>15 DEF D

\* rmqueue takes block b and cuts it down to order o: the rest of it goes on
\* the lists in blocks that have no page in common with each other or with what
\* is allocated, and none of them has a free buddy.
LEMMA TakeSplits ==
  ASSUME TypeInv, PlaceInv, PageInv, FullyMerged, NumberInv,
         NEW b \in free, NEW o \in Orders, NEW t \in Types, o <= b[2],
         ChangeFreeLists({b}, Expand(b[1], o, b[2], t))
  PROVE  LET E == Expand(b[1], o, b[2], t)
             a == <<b[1], o>>
         IN  /\ E \subseteq Pfns \X Orders \X Types
             /\ \A e \in E : Aligned(e)
             /\ Aligned(a)
             /\ Span(b) = Span(a) \cup UNION {Span(e) : e \in E}
             /\ \A e, f \in E : \A q : q \in Span(e) /\ q \in Span(f) => e = f
             /\ \A e \in E : \A q : ~ (q \in Span(e) /\ q \in Span(a))
             /\ PageInv' /\ FullyMerged'
             /\ \A n \in Orders : nr_free'[n] = Cardinality({x \in free' : x[2] = n})
             /\ zone_free' = PagesIn(free')
<1> DEFINE p == b[1]
           H == b[2]
           E == Expand(p, o, H, t)
           a == <<p, o>>
           half(h) == <<p + 2^h, h, t>>
           upper(h) == (p + 2^h) .. (p + 2^h) + 2^h - 1
<1>1. /\ p \in Pfns /\ H \in Orders /\ p \in Nat /\ H \in Nat /\ o \in Nat /\ o <= H
      /\ p % 2^H = 0
  BY SizeAssumption DEF TypeInv, Pfns, Orders, Aligned
<1>2. Span(b) = p .. p + 2^H - 1 /\ Span(a) = p .. p + 2^o - 1
  BY DEF Span
<1>3. \A h : Span(half(h)) = upper(h) /\ half(h)[1] = p + 2^h /\ half(h)[2] = h
  BY DEF Span
<1>4. E = {half(h) : h \in o .. H - 1}
  BY DEF Expand
<1>5. b \in free /\ {b} \in SUBSET free /\ ChangeFreeLists({b}, E)
  OBVIOUS
<1> HIDE DEF p, H, E, half
<1>6. Span(b) = Span(a) \cup UNION {Span(e) : e \in E}
  <2>1. Span(b) = Span(a) \cup UNION {upper(h) : h \in o .. H - 1}
    BY <1>1, <1>2, ExpandCovers
  <2> HIDE DEF upper
  <2>2. UNION {Span(e) : e \in E} = UNION {upper(h) : h \in o .. H - 1}
    BY <1>3, <1>4
  <2> QED
    BY <2>1, <2>2
<1>7. \A e, f \in E : \A q : q \in Span(e) /\ q \in Span(f) => e = f
  <2> SUFFICES ASSUME NEW h \in o .. H - 1, NEW k \in o .. H - 1, h # k
               PROVE  \A q : ~ (q \in Span(half(h)) /\ q \in Span(half(k)))
    BY <1>4
  <2>1. h \in Nat /\ k \in Nat
    BY <1>1
  <2>2. h < k => upper(h) \cap upper(k) = {}
    BY <1>1, <2>1, ExpandDisjoint
  <2>3. k < h => upper(k) \cap upper(h) = {}
    BY <1>1, <2>1, ExpandDisjoint
  <2> HIDE DEF upper
  <2>4. upper(h) \cap upper(k) = {}
    BY <2>1, <2>2, <2>3
  <2> QED
    BY <1>3, <2>4
<1>8. \A e \in E : \A q : ~ (q \in Span(e) /\ q \in Span(a))
  <2> SUFFICES ASSUME NEW k \in o .. H - 1
               PROVE  \A q : ~ (q \in Span(half(k)) /\ q \in Span(a))
    BY <1>4
  <2>1. k \in Nat /\ o <= k
    BY <1>1
  <2>2. Span(a) \cap upper(k) = {}
    BY <1>1, <1>2, <2>1, ExpandKeeps
  <2> HIDE DEF upper
  <2> QED
    BY <1>3, <2>2
<1>9. \A h \in o .. H - 1 : /\ h \in Orders /\ h \in Nat
                            /\ 2^h \in Nat \ {0}
                            /\ p % 2^(h + 1) = 0
                            /\ (p + 2^h) % 2^h = 0
                            /\ FindBuddyPfn(p + 2^h, h) = p
  <2> SUFFICES ASSUME NEW h \in o .. H - 1
               PROVE  /\ h \in Orders /\ h \in Nat
                      /\ 2^h \in Nat \ {0}
                      /\ p % 2^(h + 1) = 0
                      /\ (p + 2^h) % 2^h = 0
                      /\ FindBuddyPfn(p + 2^h, h) = p
    OBVIOUS
  <2>1. h \in Orders /\ h \in Nat /\ h + 1 \in Nat /\ h + 1 <= H
    BY <1>1, SizeAssumption DEF Orders
  <2>2. p % 2^(h + 1) = 0
    BY <1>1, <2>1, AlignedBelow
  <2> QED
    BY <1>1, <2>1, <2>2, UpperHalf, Size
<1>10. \A e \in E : e \in Pfns \X Orders \X Types /\ Aligned(e) /\ e[1] \in Span(e)
  <2> SUFFICES ASSUME NEW h \in o .. H - 1
               PROVE  /\ half(h) \in Pfns \X Orders \X Types /\ Aligned(half(h))
                      /\ half(h)[1] \in Span(half(h))
    BY <1>4
  <2>1. p + 2^h \in Span(half(h))
    <3>1. p + 2^h \in Nat /\ h \in Nat
      BY <1>1, <1>9
    <3> QED
      BY <1>3, <3>1, HasHead
  <2>2. Span(b) \subseteq Pfns
    BY InMemory
  <2>3. p + 2^h \in Pfns
    BY <1>4, <1>6, <2>1, <2>2
  <2> QED
    BY <1>3, <1>9, <2>1, <2>3 DEF Aligned, half
<1>11. Aligned(a)
  BY <1>1, AlignedBelow DEF Aligned
<1>12. HeadsApart({b}, E)
  <2>1. ASSUME NEW x \in free \ {b}, NEW e \in E, x[1] = e[1]
        PROVE  FALSE
    <3>1. x[1] \in Span(b) /\ x[1] \in Span(x)
      BY <1>6, <1>10, <2>1, FreeHeads
    <3> QED
      BY <1>5, <3>1, Apart
  <2> QED
    BY <1>7, <1>10, <2>1, FreeHeads DEF HeadsApart
<1>13. /\ PageInv'
       /\ \A n \in Orders : nr_free'[n] = Cardinality({x \in free' : x[2] = n})
       /\ zone_free' = PagesIn(free')
  BY <1>5, <1>10, <1>12, ListsInStep
<1>14. free' = (free \ {b}) \cup E
  BY <1>5 DEF ChangeFreeLists
<1>15. FullyMerged'
  <2> SUFFICES ASSUME NEW x \in free', NEW y \in free', x[2] < MAX_ORDER - 1,
                      y[2] = x[2], y[1] = FindBuddyPfn(x[1], x[2])
               PROVE  FALSE
    BY DEF FullyMerged
  <2>1. \A e \in E : FindBuddyPfn(e[1], e[2]) = p /\ e[1] # p
    <3>1. \A h \in o .. H - 1 : p + 2^h # p
      BY <1>1, <1>9
    <3> QED
      BY <1>3, <1>4, <1>9, <3>1
  <2>2. \A z \in free \ {b} : z[1] # p
    BY <1>5, FreeHeads DEF p
  <2>3. CASE x \in E
    BY <1>14, <2>1, <2>2, <2>3
  <2>4. CASE x \in free \ {b} /\ y \in E
    <3>1. x[1] \in Nat /\ x[2] \in Nat /\ x[1] % 2^x[2] = 0
      BY <2>4, SizeAssumption DEF TypeInv, Pfns, Orders, Aligned
    <3>2. FindBuddyPfn(y[1], y[2]) = x[1]
      BY <3>1, BuddyOfBuddy
    <3> QED
      BY <2>1, <2>2, <2>4, <3>2
  <2>5. CASE x \in free \ {b} /\ y \in free \ {b}
    BY <2>5 DEF FullyMerged
  <2> QED
    BY <1>14, <2>3, <2>4, <2>5
<1> QED
  BY <1>6, <1>7, <1>8, <1>10, <1>11, <1>13, <1>15 DEF E, H, p

-------------------------------------------------------------------------------
(* Calls and holdings from step to step *)

\* A call starts with a block.
LEMMA CallEnters ==
  ASSUME TypeInv, NEW a \in Actors, act[a].pc = "idle",
         NEW pc \in {"prep", "check"}, NEW p \in Pfns, NEW o \in Orders,
         Enter(a, pc, p, o)
  PROVE  /\ act' \in [Actors -> CallRec]
         /\ a \notin Busy /\ Busy' = Busy \cup {a}
         /\ Calls' = Calls \cup {<<"call", a, Span(<<p, o>>)>>}
         /\ act'[a].pc = pc /\ Block(a)' = <<p, o>>
         /\ \A c \in Actors \ {a} : act'[c] = act[c] /\ Block(c)' = Block(c)
<1> DEFINE r == [pc |-> pc, page |-> p, order |-> o]
<1>1. act \in [Actors -> CallRec] /\ act' = [act EXCEPT ![a] = r]
  BY DEF TypeInv, Enter
<1>2. r \in CallRec /\ r.pc = pc /\ r.page = p /\ r.order = o
  BY DEF CallRec
<1> HIDE DEF r
<1>3. act' \in [Actors -> CallRec] /\ act'[a] = r /\ \A c \in Actors \ {a} : act'[c] = act[c]
  BY <1>1, <1>2
<1>4. a \notin Busy /\ Busy' = Busy \cup {a}
  BY <1>2, <1>3 DEF Busy
<1>5. Block(a)' = <<p, o>> /\ \A c \in Actors \ {a} : Block(c)' = Block(c)
  BY <1>2, <1>3 DEF Block
<1>6. Calls' = Calls \cup {<<"call", a, Span(<<p, o>>)>>}
  <2>1. Calls' = {<<"call", c, Span(Block(c)')>> : c \in Busy'}
    BY DEF Calls, Span
  <2>2. \A c \in Busy : c \in Actors \ {a}
    BY <1>4 DEF Busy
  <2> QED
    BY <1>4, <1>5, <2>1, <2>2 DEF Calls
<1> QED
  BY <1>2, <1>3, <1>4, <1>5, <1>6

\* A call ends.
LEMMA CallLeaves ==
  ASSUME TypeInv, NEW a \in Busy, act' = [act EXCEPT ![a] = Idle]
  PROVE  /\ act' \in [Actors -> CallRec]
         /\ act'[a].pc = "idle" /\ Busy' = Busy \ {a}
         /\ Calls' = Calls \ {<<"call", a, Span(Block(a))>>}
         /\ <<"call", a, Span(Block(a))>> \in Calls
         /\ \A c \in Actors \ {a} : act'[c] = act[c] /\ Block(c)' = Block(c)
<1>1. act \in [Actors -> CallRec] /\ a \in Actors
  BY DEF TypeInv, Busy
<1>2. Idle \in CallRec /\ Idle.pc = "idle"
  <2>1. 0 \in Pfns /\ 0 \in Orders
    BY SizeAssumption DEF Pfns, Orders
  <2> QED
    BY <2>1 DEF Idle, CallRec
<1>3. act' \in [Actors -> CallRec] /\ act'[a] = Idle /\ \A c \in Actors \ {a} : act'[c] = act[c]
  BY <1>1, <1>2
<1>4. Busy' = Busy \ {a}
  BY <1>2, <1>3 DEF Busy
<1>5. \A c \in Actors \ {a} : Block(c)' = Block(c)
  BY <1>3 DEF Block
<1>6. Calls' = Calls \ {<<"call", a, Span(Block(a))>>}
  <2>1. Calls' = {<<"call", c, Span(Block(c)')>> : c \in Busy'}
    BY DEF Calls, Span
  <2>2. \A c \in Busy' : c \in Actors \ {a}
    BY <1>4 DEF Busy
  <2> QED
    BY <1>4, <1>5, <2>1, <2>2 DEF Calls
<1>7. <<"call", a, Span(Block(a))>> \in Calls
  BY DEF Calls
<1> QED
  BY <1>2, <1>3, <1>4, <1>5, <1>6, <1>7

\* A call goes on with its block.
LEMMA CallGoesOn ==
  ASSUME TypeInv, NEW a \in Busy, NEW pc \in {"account", "merge", "pcp"},
         act' = [act EXCEPT ![a].pc = pc]
  PROVE  /\ act' \in [Actors -> CallRec]
         /\ Busy' = Busy /\ Calls' = Calls
         /\ act'[a].pc = pc /\ act'[a].order = act[a].order
         /\ \A c \in Actors : Block(c)' = Block(c)
         /\ \A c \in Actors \ {a} : act'[c] = act[c]
<1>1. act \in [Actors -> CallRec] /\ a \in Actors /\ act[a].pc # "idle"
  BY DEF TypeInv, Busy
<1>2. act[a] \in CallRec
  BY <1>1
<1>3. /\ act' \in [Actors -> CallRec]
      /\ act'[a].pc = pc /\ act'[a].page = act[a].page /\ act'[a].order = act[a].order
      /\ \A c \in Actors \ {a} : act'[c] = act[c]
  BY <1>1, <1>2 DEF CallRec
<1>4. Busy' = Busy
  BY <1>1, <1>3 DEF Busy
<1>5. \A c \in Actors : Block(c)' = Block(c)
  BY <1>3 DEF Block
<1>6. Calls' = Calls
  <2>1. Calls' = {<<"call", c, Span(Block(c)')>> : c \in Busy'}
    BY DEF Calls, Span
  <2>2. \A c \in Busy : c \in Actors
    BY DEF Busy
  <2> QED
    BY <1>4, <1>5, <2>1, <2>2 DEF Calls
<1> QED
  BY <1>3, <1>4, <1>5, <1>6

LEMMA CallsStay ==
  ASSUME UNCHANGED act
  PROVE  Busy' = Busy /\ Calls' = Calls /\ \A c : Block(c)' = Block(c) /\ act'[c] = act[c]
BY DEF Busy, Calls, Block, Span

\* Pages move from the holdings D.. to the holdings A.. of each kind.
LEMMA HoldingsMove ==
  ASSUME PlaceInv,
         NEW DF \in SUBSET OfKind("free", free), NEW AF,
         OfKind("free", free') = (OfKind("free", free) \ DF) \cup AF,
         NEW DO \in SUBSET OfKind("owned", owned), NEW AO,
         OfKind("owned", owned') = (OfKind("owned", owned) \ DO) \cup AO,
         NEW DC \in SUBSET Calls, NEW AC, Calls' = (Calls \ DC) \cup AC,
         NEW DP \in SUBSET OnPcp, NEW AP, OnPcp' = (OnPcp \ DP) \cup AP,
         NEW AL, OfKind("leaked", leaked') = OfKind("leaked", leaked) \cup AL,
         NEW N, Covers(DF \cup DO \cup DC \cup DP, N),
         Divides(AF \cup AO \cup AC \cup AP \cup AL, N)
  PROVE  PlaceInv'
<1> DEFINE F == OfKind("free", free)
           O == OfKind("owned", owned)
           L == OfKind("leaked", leaked)
           C == Calls
           P == OnPcp
           Del == DF \cup DO \cup DC \cup DP
           Add == AF \cup AO \cup AC \cup AP \cup AL
           H == Holdings
           G == Holdings'
<1>1. /\ \A x \in F : x[1] = "free"
      /\ \A x \in O : x[1] = "owned"
      /\ \A x \in L : x[1] = "leaked"
      /\ \A x \in C : x[1] = "call"
      /\ \A x \in P : x[1] = "pcp"
  BY Members
<1>2. H = F \cup O \cup C \cup P \cup L
  BY DEF Holdings
<1>3. G = OfKind("free", free') \cup OfKind("owned", owned') \cup Calls' \cup OnPcp'
          \cup OfKind("leaked", leaked')
  BY DEF Holdings, OfKind, Span
<1>4. G = ((F \ DF) \cup AF) \cup ((O \ DO) \cup AO) \cup ((C \ DC) \cup AC)
          \cup ((P \ DP) \cup AP) \cup (L \cup AL)
  BY <1>3
<1>5. DF \subseteq F /\ DO \subseteq O /\ DC \subseteq C /\ DP \subseteq P
  OBVIOUS
<1>6. Divides(H, Memory) /\ Covers(Del, N) /\ Divides(Add, N)
  BY DEF PlaceInv
<1> HIDE DEF F, O, L, C, P, H, G
<1>7. Del \subseteq H
  BY <1>2, <1>5
<1>8. G = (H \ Del) \cup Add
  BY <1>1, <1>2, <1>4, <1>5
<1> HIDE DEF Del, Add
<1>9. Divides(G, Memory)
  BY <1>6, <1>7, <1>8, PagesMove
<1>10. Memory' = Memory
  BY DEF Memory, Span
<1> QED
  BY <1>9, <1>10 DEF PlaceInv, G, Divides, Covers

\* The holdings of a kind: their pages, and when they have none in common.
LEMMA KindMembers ==
  ASSUME NEW k, NEW B
  PROVE  /\ \A x \in OfKind(k, B) : x[1] = k /\ x[2] \in B /\ x[3] = Span(x[2])
                                     /\ x = <<k, x[2], x[3]>>
         /\ \A b \in B : \E x \in OfKind(k, B) : x[2] = b /\ x[3] = Span(b)
<1>1. \A x \in OfKind(k, B) : x[1] = k /\ x[2] \in B /\ x[3] = Span(x[2])
                              /\ x = <<k, x[2], x[3]>>
  BY DEF OfKind
<1>2. ASSUME NEW b \in B
      PROVE  \E x \in OfKind(k, B) : x[2] = b /\ x[3] = Span(b)
  <2>1. <<k, b, Span(b)>> \in OfKind(k, B)
    BY DEF OfKind
  <2> QED
    BY <2>1
<1> QED
  BY <1>1, <1>2

LEMMA KindCovers ==
  ASSUME NEW k, NEW B
  PROVE  Covers(OfKind(k, B), UNION {Span(b) : b \in B})
BY KindMembers DEF Covers

LEMMA KindDivides ==
  ASSUME NEW k, NEW B, \A b, c \in B : \A p : p \in Span(b) /\ p \in Span(c) => b = c
  PROVE  Divides(OfKind(k, B), UNION {Span(b) : b \in B})
<1>1. ASSUME NEW x \in OfKind(k, B), NEW y \in OfKind(k, B), NEW p, p \in x[3], p \in y[3]
      PROVE  x = y
  <2>1. x[2] = y[2]
    BY <1>1, KindMembers
  <2>2. x = <<k, x[2], Span(x[2])>> /\ y = <<k, y[2], Span(y[2])>>
    BY KindMembers
  <2> QED
    BY <2>1, <2>2
<1> QED
  BY <1>1, KindCovers DEF Divides

\* One more holding.
LEMMA CoversMore ==
  ASSUME NEW H, NEW M, Covers(H, M), NEW x
  PROVE  Covers(H \cup {x}, M \cup x[3])
BY DEF Covers

LEMMA DividesMore ==
  ASSUME NEW H, NEW M, Divides(H, M), NEW x, \A p : ~ (p \in M /\ p \in x[3])
  PROVE  Divides(H \cup {x}, M \cup x[3])
<1>1. \A y \in H : \A p \in y[3] : p \in M
  BY DEF Divides, Covers
<1>2. Covers(H \cup {x}, M \cup x[3])
  BY CoversMore DEF Divides
<1> QED
  BY <1>1, <1>2 DEF Divides

\* A single holding.
LEMMA DividesOne ==
  ASSUME NEW x
  PROVE  Divides({x}, x[3]) /\ Covers({x}, x[3])
BY DEF Divides, Covers

-------------------------------------------------------------------------------
(* The initial states *)

LEMMA InitInv == Init => Inv
<1> SUFFICES ASSUME Init
             PROVE  Inv
  OBVIOUS
<1> USE DEF Init
<1>1. Busy = {}
  BY DEF Busy, Idle
<1>2. TypeInv
  <2>1. act \in [Actors -> CallRec]
    <3>1. 0 \in Pfns /\ 0 \in Orders
      BY SizeAssumption DEF Pfns, Orders
    <3> QED
      BY <3>1 DEF Idle, CallRec
  <2>2. owned \subseteq Pfns \X Orders /\ \A b \in owned : Aligned(b)
    BY BootAssumption DEF Aligned
  <2>3. count \in [Pfns -> Nat] /\ fmt \in [Pfns -> Types]
    BY DEF Types
  <2> QED
    BY <1>1, <2>1, <2>2, <2>3 DEF TypeInv
<1>3. PlaceInv
  <2>1. Holdings = OfKind("owned", BootBlocks)
    BY <1>1 DEF Holdings, OfKind, Calls, OnPcp
  <2>2. \A b, c \in BootBlocks : b # c => Span(b) \cap Span(c) = {}
    BY BootAssumption
  <2>3. Divides(OfKind("owned", BootBlocks), Memory)
    BY <2>2, KindDivides DEF Memory
  <2> QED
    BY <2>1, <2>3 DEF PlaceInv
<1>4. CountInv
  BY DEF CountInv, Idle
<1>5. ListInv
  <2>1. Cardinality({}) = 0
    BY FS_EmptySet
  <2>2. \A o \in Orders : nr_free[o] = Cardinality({b \in free : b[2] = o})
    <3>1. \A o \in Orders : {b \in free : b[2] = o} = {}
      OBVIOUS
    <3> QED
      BY <2>1, <3>1
  <2>3. zone_free = PagesIn(free)
    <3>1. PagesOf(free) = {}
      BY DEF PagesOf
    <3> QED
      BY <2>1, <3>1 DEF PagesIn
  <2>4. bulk \in 0 .. PcpBatch
    BY SizeAssumption
  <2>5. pcp_count = Cardinality(pcp) + (IF bulk = 0 THEN 0 ELSE PcpBatch - bulk)
    BY <2>1
  <2>6. PageInv /\ FullyMerged
    BY DEF PageInv, FullyMerged
  <2> QED
    BY <2>2, <2>3, <2>4, <2>5, <2>6 DEF ListInv, NumberInv
<1>6. RunsOffOnlyWhenEmpty
  BY DEF RunsOffOnlyWhenEmpty
<1> QED
  BY <1>2, <1>3, <1>4, <1>5, <1>6 DEF Inv

-------------------------------------------------------------------------------
(* alloc_pages *)

\* rmqueue, once it has found a block.
LEMMA TakeKeeps ==
  ASSUME Inv, ~ oob, NEW a \in Actors, NEW o \in Orders, NEW t \in Types,
         act[a].pc = "idle", NEW b \in free, o <= b[2], TakeBlock(a, b, o, t)
  PROVE  Inv'
<1> DEFINE E == Expand(b[1], o, b[2], t)
           c == <<"call", a, Span(<<b[1], o>>)>>
<1>1. TypeInv /\ PlaceInv /\ PageInv /\ FullyMerged /\ NumberInv /\ CountInv
  BY DEF Inv, ListInv
<1>2. ChangeFreeLists({b}, E) /\ free' = (free \ {b}) \cup E
  BY DEF TakeBlock, ChangeFreeLists
<1>3. b[1] \in Pfns /\ b[2] \in Orders
  BY <1>1 DEF TypeInv
<1>4. /\ act' \in [Actors -> CallRec]
      /\ a \notin Busy /\ Busy' = Busy \cup {a}
      /\ Calls' = Calls \cup {c}
      /\ act'[a].pc = "prep" /\ Block(a)' = <<b[1], o>>
      /\ \A d \in Actors \ {a} : act'[d] = act[d] /\ Block(d)' = Block(d)
  <2>1. Enter(a, "prep", b[1], o)
    BY DEF TakeBlock
  <2> QED
    BY <1>1, <1>3, <2>1, CallEnters
<1>5. /\ E \subseteq Pfns \X Orders \X Types
      /\ \A e \in E : Aligned(e)
      /\ Aligned(<<b[1], o>>)
      /\ Span(b) = Span(<<b[1], o>>) \cup UNION {Span(e) : e \in E}
      /\ \A e, f \in E : \A q : q \in Span(e) /\ q \in Span(f) => e = f
      /\ \A e \in E : \A q : ~ (q \in Span(e) /\ q \in Span(<<b[1], o>>))
  BY <1>1, <1>2, TakeSplits
<1>6. /\ PageInv' /\ FullyMerged'
      /\ \A n \in Orders : nr_free'[n] = Cardinality({x \in free' : x[2] = n})
      /\ zone_free' = PagesIn(free')
  BY <1>1, <1>2, TakeSplits
<1> HIDE DEF E
<1>7. /\ UNCHANGED <<count, pcp, pcp_count, bulk, owned, leaked, oob>>
      /\ fmt' = [fmt EXCEPT ![b[1]] = t]
  BY DEF TakeBlock, pcpVars
<1>8. TypeInv'
  <2>1. fmt' \in [Pfns -> Types]
    BY <1>1, <1>7 DEF TypeInv
  <2>2. \A x \in free' \cup owned' : Aligned(x)
    BY <1>1, <1>2, <1>5, <1>7 DEF TypeInv
  <2>3. \A d \in Busy' : Aligned(Block(d)')
    BY <1>1, <1>4, <1>5 DEF TypeInv, Busy
  <2>4. free' \subseteq Pfns \X Orders \X Types
    BY <1>1, <1>2, <1>5 DEF TypeInv
  <2> QED
    BY <1>1, <1>4, <1>7, <2>1, <2>2, <2>3, <2>4 DEF TypeInv, Aligned
<1>9. PlaceInv'
  <2> DEFINE DF == OfKind("free", {b})
             AF == OfKind("free", E)
  <2>1. OfKind("free", free') = (OfKind("free", free) \ DF) \cup AF
    <3> DEFINE D == {b}
               F == free
               G == free'
    <3>1. D \subseteq F /\ G = (F \ D) \cup E
      BY <1>2
    <3> HIDE DEF D, F, G
    <3>2. OfKind("free", G) = (OfKind("free", F) \ OfKind("free", D)) \cup OfKind("free", E)
      BY <3>1 DEF OfKind
    <3> QED
      BY <3>2 DEF D, F, G
  <2>2. DF \in SUBSET OfKind("free", free)
    BY DEF OfKind
  <2>3. /\ Covers(DF \cup {} \cup {} \cup {}, Span(b))
        /\ Divides(AF \cup {} \cup {c} \cup {} \cup {}, Span(b))
    <3> DEFINE M == UNION {Span(e) : e \in E}
    <3>1. Covers(DF, Span(b))
      <4>1. UNION {Span(d) : d \in {b}} = Span(b)
        OBVIOUS
      <4> QED
        BY <4>1, KindCovers
    <3>2. Divides(AF, M)
      BY <1>5, KindDivides
    <3>3. c[3] = Span(<<b[1], o>>)
      OBVIOUS
    <3>4. Span(b) = M \cup c[3] /\ \A q : ~ (q \in M /\ q \in c[3])
      BY <1>5, <3>3
    <3> HIDE DEF AF, DF, M, c
    <3>5. Divides(AF \cup {c}, Span(b))
      BY <3>2, <3>4, DividesMore
    <3>6. /\ AF \cup {} \cup {c} \cup {} \cup {} = AF \cup {c}
          /\ DF \cup {} \cup {} \cup {} = DF
      OBVIOUS
    <3> QED
      BY <3>1, <3>5, <3>6
  <2>4. /\ OfKind("owned", owned') = (OfKind("owned", owned) \ {}) \cup {}
        /\ OnPcp' = (OnPcp \ {}) \cup {}
        /\ OfKind("leaked", leaked') = OfKind("leaked", leaked) \cup {}
        /\ {} \in SUBSET OfKind("owned", owned) /\ {} \in SUBSET OnPcp /\ {} \in SUBSET Calls
    BY <1>7 DEF OnPcp
  <2>5. Calls' = (Calls \ {}) \cup {c}
    BY <1>4
  <2> HIDE DEF DF, AF, c
  <2> QED
    BY <1>1, <2>1, <2>2, <2>3, <2>4, <2>5, HoldingsMove
<1>10. CountInv'
  <2>1. \A x \in free' : \A q \in Span(x) : count'[q] = 0
    <3>1. \A e \in E : \A q \in Span(e) : q \in Span(b)
      BY <1>5
    <3> QED
      BY <1>1, <1>2, <1>7, <3>1 DEF CountInv
  <2>2. \A d \in Actors :
          /\ act'[d].pc \in {"merge", "pcp"} => \A q \in Span(Block(d)') : count'[q] = 0
          /\ act'[d].pc = "pcp" => act'[d].order = 0
    BY <1>1, <1>4, <1>7 DEF CountInv
  <2> QED
    BY <1>1, <1>7, <2>1, <2>2 DEF CountInv, Span
<1>11. ListInv'
  BY <1>1, <1>6, <1>7 DEF ListInv, NumberInv
<1>12. RunsOffOnlyWhenEmpty'
  BY <1>7 DEF RunsOffOnlyWhenEmpty
<1> QED
  BY <1>8, <1>9, <1>10, <1>11, <1>12 DEF Inv

\* alloc_pages finds no block of order 0 only when there is no block at all:
\* the two searches between them look at every type.
LEMMA SearchesAll ==
  ASSUME TypeInv, NEW t \in Types, SmallestFit(0, t) = {}, FallbackFit(0, t) = {}
  PROVE  free = {}
<1> SUFFICES ASSUME NEW z \in free
             PROVE  FALSE
  OBVIOUS
<1>1. \A b \in free : b[2] \in Nat /\ b[2] >= 0 /\ b[2] <= MAX_ORDER /\ b[3] \in Types
  BY SizeAssumption DEF TypeInv, Orders
<1>2. CASE z[3] = t
  <2> DEFINE fits == {b \in free : b[2] >= 0 /\ b[3] = t}
             S == {b[2] : b \in fits}
  <2>1. S \in SUBSET Nat /\ S # {}
    BY <1>1, <1>2
  <2>2. PICK n \in S : \A k \in S : n <= k
    <3> HIDE DEF S
    <3> QED
      BY <2>1, LeastNat
  <2>3. PICK b \in fits : \A c \in fits : b[2] <= c[2]
    BY <2>2
  <2>4. b \in SmallestFit(0, t)
    BY <2>3 DEF SmallestFit
  <2> QED
    BY <2>4
<1>3. CASE z[3] # t
  <2> DEFINE row == Fallbacks(t)
             fits == {b \in free : b[2] >= 0 /\ \E i \in DOMAIN row : row[i] = b[3]}
             largest == {b \in fits : \A c \in fits : b[2] >= c[2]}
             rank(b) == CHOOSE i \in DOMAIN row : row[i] = b[3]
             S == {b[2] : b \in fits}
             R == {rank(b) : b \in largest}
  <2>1. DOMAIN row = 1 .. 2 /\ \A u \in Types \ {t} : \E i \in 1 .. 2 : row[i] = u
    BY DEF Fallbacks, Types, UNMOVABLE, MOVABLE, RECLAIMABLE
  <2> HIDE DEF row
  <2>2. z \in fits
    BY <1>1, <1>3, <2>1
  <2>3. S \in SUBSET Nat /\ S # {} /\ \A n \in S : n <= MAX_ORDER
    BY <1>1, <2>2
  <2>4. PICK n \in S : \A k \in S : k <= n
    <3> HIDE DEF S
    <3> QED
      BY <2>3, GreatestNat, SizeAssumption
  <2>5. PICK y \in fits : \A c \in fits : y[2] >= c[2]
    <3>1. PICK y \in fits : y[2] = n
      BY <2>4
    <3>2. \A c \in fits : c[2] <= n /\ c[2] \in Nat /\ n \in Nat
      BY <1>1, <2>3, <2>4
    <3> QED
      BY <3>1, <3>2
  <2>6. \A b \in fits : rank(b) \in 1 .. 2
    BY <2>1
  <2>7. R \in SUBSET Nat /\ R # {}
    <3> HIDE DEF rank
    <3>1. \A b \in largest : rank(b) \in Nat
      BY <2>6
    <3>2. y \in largest
      BY <2>5
    <3> HIDE DEF largest
    <3> QED
      BY <3>1, <3>2
  <2>8. PICK r \in R : \A k \in R : r <= k
    <3> HIDE DEF R
    <3> QED
      BY <2>7, LeastNat
  <2>9. PICK b \in largest : \A c \in largest : rank(b) <= rank(c)
    <3> HIDE DEF rank, largest
    <3> QED
      BY <2>8
  <2>10. b \in FallbackFit(0, t)
    BY <2>9 DEF FallbackFit, row
  <2> QED
    BY <2>10
<1> QED
  BY <1>2, <1>3

\* Steps that move no page.
LEMMA PlaceQuiet ==
  ASSUME PlaceInv, UNCHANGED <<free, owned, pcp, leaked>>, Calls' = Calls
  PROVE  PlaceInv'
<1>1. Holdings' = Holdings
  BY DEF Holdings, OfKind, OnPcp, Span
<1> QED
  BY <1>1 DEF PlaceInv, Divides, Covers, Memory, Span

LEMMA RunsOffKeeps ==
  ASSUME Inv, NEW a \in Actors, NEW t \in Types, RmqueueRunsOff(a, t)
  PROVE  Inv'
<1>1. UNCHANGED <<free, PageBuddy, private, nr_free, zone_free, count, fmt, pcp, pcp_count,
                  bulk, act, owned, leaked>>
  BY DEF RmqueueRunsOff, listVars, pcpVars
<1>2. free = {}
  BY SearchesAll DEF Inv, RmqueueRunsOff
<1>3. TypeInv' /\ PlaceInv' /\ CountInv' /\ ListInv'
  <2>1. TypeInv'
    BY <1>1 DEF Inv, TypeInv, Aligned, Busy, Block
  <2>2. PlaceInv'
    BY <1>1, CallsStay, PlaceQuiet DEF Inv
  <2>3. CountInv'
    BY <1>1 DEF Inv, CountInv, Block, Span
  <2>4. ListInv'
    BY <1>1 DEF Inv, ListInv, PageInv, FullyMerged, NumberInv, FindBuddyPfn, PagesIn, PagesOf
  <2> QED
    BY <2>1, <2>2, <2>3, <2>4
<1> QED
  BY <1>1, <1>2, <1>3 DEF Inv, RunsOffOnlyWhenEmpty

\* Steps that leave the lists alone.
LEMMA ListsQuiet ==
  ASSUME ListInv, \A b \in free : private'[b[1]] = private[b[1]],
         UNCHANGED <<free, PageBuddy, nr_free, zone_free, pcp, pcp_count, bulk>>
  PROVE  ListInv'
<1>1. PageInv' /\ FullyMerged'
  BY DEF ListInv, PageInv, FullyMerged, FindBuddyPfn
<1>2. NumberInv'
  BY DEF ListInv, NumberInv, PagesIn, PagesOf
<1> QED
  BY <1>1, <1>2 DEF ListInv

\* prep_new_page touches the pages of its own block only.
LEMMA PrepKeeps ==
  ASSUME Inv, ~ oob, NEW a \in Actors, PrepNewPage(a)
  PROVE  Inv'
<1> DEFINE S == Span(Block(a))
<1>1. TypeInv /\ PlaceInv /\ ListInv /\ CountInv
  BY DEF Inv
<1>2. /\ UNCHANGED <<free, PageBuddy, nr_free, zone_free, fmt, pcp, pcp_count, bulk, owned,
                     leaked, oob>>
      /\ act[a].pc = "prep" /\ act' = [act EXCEPT ![a].pc = "account"]
      /\ count' = [p \in Pfns |-> IF p \in S THEN 1 ELSE count[p]]
      /\ private' = [p \in Pfns |-> IF p \in S THEN 0 ELSE private[p]]
  BY DEF PrepNewPage, pcpVars, Block
<1>3. a \in Busy
  BY <1>2 DEF Busy
<1>4. /\ act' \in [Actors -> CallRec]
      /\ Busy' = Busy /\ Calls' = Calls
      /\ act'[a].pc = "account"
      /\ \A c \in Actors : Block(c)' = Block(c)
      /\ \A c \in Actors \ {a} : act'[c] = act[c]
  BY <1>1, <1>2, <1>3, CallGoesOn
<1> HIDE DEF S
<1>5. /\ \A b \in free : \A q \in Span(b) : q \in Pfns /\ q \notin S
      /\ \A q \in pcp : q \in Pfns /\ q \notin S
      /\ \A c \in Busy \ {a} : \A q \in Span(Block(c)) : q \in Pfns /\ q \notin S
  BY <1>1, <1>3, Apart, InMemory DEF S
<1>6. TypeInv'
  <2>1. count' \in [Pfns -> Nat]
    BY <1>1, <1>2 DEF TypeInv
  <2>2. \A c \in Busy' : Aligned(Block(c)')
    BY <1>1, <1>4 DEF TypeInv, Busy
  <2> QED
    BY <1>1, <1>2, <1>4, <2>1, <2>2 DEF TypeInv, Aligned
<1>7. PlaceInv'
  BY <1>1, <1>2, <1>4, PlaceQuiet
<1>8. CountInv'
  <2>1. \A b \in free : \A q \in Span(b) : count'[q] = 0
    BY <1>1, <1>2, <1>5 DEF CountInv
  <2>2. \A q \in pcp : count'[q] = 0
    BY <1>1, <1>2, <1>5 DEF CountInv
  <2>3. ASSUME NEW c \in Actors
        PROVE  /\ act'[c].pc \in {"merge", "pcp"} => \A q \in Span(Block(c)') : count'[q] = 0
               /\ act'[c].pc = "pcp" => act'[c].order = 0
    <3>1. CASE c = a
      BY <1>4, <3>1
    <3>2. CASE c # a
      <4>1. act'[c] = act[c] /\ Block(c)' = Block(c)
        BY <1>4, <3>2
      <4>2. act[c].pc \in {"merge", "pcp"} => c \in Busy
        BY DEF Busy
      <4> QED
        BY <1>1, <1>2, <1>5, <3>2, <4>1, <4>2 DEF CountInv
    <3> QED
      BY <3>1, <3>2
  <2> QED
    BY <1>2, <2>1, <2>2, <2>3 DEF CountInv, Span
<1>9. ListInv'
  <2>1. \A b \in free : b[1] \in Span(b)
    BY <1>1, FreeHeads
  <2>2. \A b \in free : private'[b[1]] = private[b[1]]
    BY <1>2, <1>5, <2>1
  <2> QED
    BY <1>1, <1>2, <2>2, ListsQuiet
<1> QED
  BY <1>2, <1>6, <1>7, <1>8, <1>9 DEF Inv, RunsOffOnlyWhenEmpty

LEMMA AllocReturnsKeeps ==
  ASSUME Inv, ~ oob, NEW a \in Actors, AllocReturns(a)
  PROVE  Inv'
<1> DEFINE k == Block(a)
           c == <<"call", a, Span(k)>>
           w == <<"owned", k, Span(k)>>
<1>1. TypeInv /\ PlaceInv /\ ListInv /\ CountInv
  BY DEF Inv
<1>2. /\ UNCHANGED <<free, PageBuddy, private, nr_free, zone_free, count, fmt, pcp, pcp_count,
                     bulk, leaked, oob>>
      /\ act[a].pc = "account" /\ act' = [act EXCEPT ![a] = Idle]
      /\ owned' = owned \cup {k}
  BY DEF AllocReturns, listVars, pcpVars, Block
<1>3. a \in Busy
  BY <1>2 DEF Busy
<1>4. /\ act' \in [Actors -> CallRec]
      /\ act'[a].pc = "idle" /\ Busy' = Busy \ {a}
      /\ Calls' = Calls \ {c} /\ c \in Calls
      /\ \A d \in Actors \ {a} : act'[d] = act[d] /\ Block(d)' = Block(d)
  BY <1>1, <1>2, <1>3, CallLeaves
<1>5. k \in Pfns \X Orders /\ Aligned(k)
  <2>1. act[a] \in CallRec
    BY <1>1 DEF TypeInv
  <2> QED
    BY <1>1, <1>3, <2>1 DEF TypeInv, CallRec, Block
<1> HIDE DEF k
<1>6. TypeInv'
  <2>1. \A b \in free' \cup owned' : Aligned(b)
    BY <1>1, <1>2, <1>5 DEF TypeInv
  <2>2. \A d \in Busy' : Aligned(Block(d)')
    BY <1>1, <1>4 DEF TypeInv, Busy
  <2>3. owned' \subseteq Pfns \X Orders
    BY <1>1, <1>2, <1>5 DEF TypeInv
  <2> QED
    BY <1>1, <1>2, <1>4, <2>1, <2>2, <2>3 DEF TypeInv, Aligned
<1>7. PlaceInv'
  <2>1. /\ OfKind("free", free') = (OfKind("free", free) \ {}) \cup {}
        /\ {} \in SUBSET OfKind("free", free)
        /\ OnPcp' = (OnPcp \ {}) \cup {} /\ {} \in SUBSET OnPcp
        /\ OfKind("leaked", leaked') = OfKind("leaked", leaked) \cup {}
        /\ Calls' = (Calls \ {c}) \cup {} /\ {c} \in SUBSET Calls
    BY <1>2, <1>4 DEF OnPcp
  <2>2. OfKind("owned", owned') = (OfKind("owned", owned) \ {}) \cup {w}
    BY <1>2 DEF OfKind
  <2>3. {} \in SUBSET OfKind("owned", owned)
    OBVIOUS
  <2>4. c[3] = Span(k) /\ w[3] = Span(k)
    OBVIOUS
  <2> HIDE DEF c, w
  <2>5. /\ Covers({} \cup {} \cup {c} \cup {}, Span(k))
        /\ Divides({} \cup {w} \cup {} \cup {} \cup {}, Span(k))
    <3>1. {} \cup {} \cup {c} \cup {} = {c} /\ {} \cup {w} \cup {} \cup {} \cup {} = {w}
      OBVIOUS
    <3>2. Covers({c}, Span(k)) /\ Divides({w}, Span(k))
      BY <2>4, DividesOne
    <3> QED
      BY <3>1, <3>2
  <2> QED
    BY <1>1, <2>1, <2>2, <2>3, <2>5, HoldingsMove
<1>8. CountInv'
  <2>1. \A d \in Actors :
          /\ act'[d].pc \in {"merge", "pcp"} => \A q \in Span(Block(d)') : count'[q] = 0
          /\ act'[d].pc = "pcp" => act'[d].order = 0
    BY <1>1, <1>2, <1>4 DEF CountInv
  <2> QED
    BY <1>1, <1>2, <2>1 DEF CountInv, Span
<1>9. ListInv'
  BY <1>1, <1>2, ListsQuiet
<1> QED
  BY <1>2, <1>6, <1>7, <1>8, <1>9 DEF Inv, RunsOffOnlyWhenEmpty

-------------------------------------------------------------------------------
(* References *)

\* A change of the count of a page its owner holds disturbs no page that is
\* free or on its way to a free list.
LEMMA OwnerCounts ==
  ASSUME TypeInv, PlaceInv, CountInv, NEW b \in owned, NEW n \in Nat,
         count' = [count EXCEPT ![b[1]] = n], UNCHANGED <<free, pcp>>,
         \A c \in Actors : \/ act'[c] = act[c] /\ Block(c)' = Block(c)
                           \/ act'[c].pc = "check"
  PROVE  count' \in [Pfns -> Nat] /\ CountInv'
<1>1. b[1] \in Pfns /\ b[1] \in Span(b)
  BY Headed DEF TypeInv
<1>2. /\ \A x \in free : b[1] \notin Span(x)
      /\ b[1] \notin pcp
      /\ \A c \in Busy : b[1] \notin Span(Block(c))
  BY <1>1, Apart
<1>3. \A q : q # b[1] => count'[q] = count[q]
  BY DEF TypeInv
<1>4. \A x \in free : \A q \in Span(x) : count'[q] = 0
  BY <1>2, <1>3 DEF CountInv
<1>5. \A q \in pcp : count'[q] = 0
  BY <1>2, <1>3 DEF CountInv
<1>6. ASSUME NEW c \in Actors
      PROVE  /\ act'[c].pc \in {"merge", "pcp"} => \A q \in Span(Block(c)') : count'[q] = 0
             /\ act'[c].pc = "pcp" => act'[c].order = 0
  <2>1. CASE act'[c].pc = "check"
    BY <2>1
  <2>2. CASE act'[c] = act[c] /\ Block(c)' = Block(c)
    <3>1. act[c].pc \in {"merge", "pcp"} => c \in Busy
      BY DEF Busy
    <3> QED
      BY <1>2, <1>3, <2>2, <3>1 DEF CountInv
  <2> QED
    BY <2>1, <2>2
<1>7. CountInv'
  BY <1>4, <1>5, <1>6 DEF CountInv, Span
<1>8. count' \in [Pfns -> Nat]
  BY <1>1 DEF TypeInv
<1> QED
  BY <1>7, <1>8

\* get_page, and put_page_testzero when it is not the last reference.
LEMMA CountKeeps ==
  ASSUME Inv, ~ oob, NEW b \in owned, NEW n \in Nat,
         count' = [count EXCEPT ![b[1]] = n],
         UNCHANGED <<listVars, fmt, pcpVars, act, owned, leaked, oob>>
  PROVE  Inv'
<1>1. TypeInv /\ PlaceInv /\ ListInv /\ CountInv
  BY DEF Inv
<1>2. UNCHANGED <<free, PageBuddy, private, nr_free, zone_free, fmt, pcp, pcp_count, bulk, act,
                  owned, leaked, oob>>
  BY DEF listVars, pcpVars
<1>3. Calls' = Calls /\ Busy' = Busy /\ \A c : Block(c)' = Block(c) /\ act'[c] = act[c]
  BY <1>2, CallsStay
<1>4. count' \in [Pfns -> Nat] /\ CountInv'
  BY <1>1, <1>2, <1>3, OwnerCounts
<1>5. TypeInv'
  BY <1>1, <1>2, <1>3, <1>4 DEF TypeInv, Aligned
<1>6. PlaceInv'
  BY <1>1, <1>2, <1>3, PlaceQuiet
<1>7. ListInv'
  BY <1>1, <1>2, ListsQuiet
<1> QED
  BY <1>2, <1>4, <1>5, <1>6, <1>7 DEF Inv, RunsOffOnlyWhenEmpty

LEMMA GetPageKeeps ==
  ASSUME Inv, ~ oob, NEW b \in owned, GetPage(b)
  PROVE  Inv'
<1>1. b[1] \in Pfns /\ count \in [Pfns -> Nat]
  BY DEF Inv, TypeInv
<1>2. count[b[1]] + 1 \in Nat
  BY <1>1
<1>3. count' = [count EXCEPT ![b[1]] = count[b[1]] + 1]
  BY DEF GetPage
<1>4. UNCHANGED <<listVars, fmt, pcpVars, act, owned, leaked, oob>>
  BY DEF GetPage
<1> QED
  BY <1>2, <1>3, <1>4, CountKeeps

\* put_page_testzero; with the last reference the block goes to the call.
LEMMA PutPageKeeps ==
  ASSUME Inv, ~ oob, NEW a \in Actors, NEW b \in owned, PutPage(a, b)
  PROVE  Inv'
<1> DEFINE c == <<"call", a, Span(b)>>
           w == <<"owned", b, Span(b)>>
<1>1. TypeInv /\ PlaceInv /\ ListInv /\ CountInv
  BY DEF Inv
<1>2. /\ UNCHANGED <<free, PageBuddy, private, nr_free, zone_free, fmt, pcp, pcp_count, bulk,
                     leaked, oob>>
      /\ act[a].pc = "idle" /\ count[b[1]] > 0
      /\ count' = [count EXCEPT ![b[1]] = count[b[1]] - 1]
  BY DEF PutPage, listVars, pcpVars
<1>3. b[1] \in Pfns /\ b[2] \in Orders /\ b = <<b[1], b[2]>> /\ Aligned(b)
  BY <1>1 DEF TypeInv
<1>4. count[b[1]] - 1 \in Nat
  BY <1>1, <1>2, <1>3 DEF TypeInv
<1>5. CASE count[b[1]] # 1
  <2>1. UNCHANGED <<act, owned>>
    BY <1>5 DEF PutPage
  <2> QED
    BY <1>2, <1>4, <2>1, CountKeeps DEF listVars, pcpVars
<1>6. CASE count[b[1]] = 1
  <2>1. Enter(a, "check", b[1], b[2]) /\ owned' = owned \ {b}
    BY <1>6 DEF PutPage
  <2>2. /\ act' \in [Actors -> CallRec]
        /\ a \notin Busy /\ Busy' = Busy \cup {a}
        /\ Calls' = Calls \cup {c}
        /\ act'[a].pc = "check" /\ Block(a)' = b
        /\ \A d \in Actors \ {a} : act'[d] = act[d] /\ Block(d)' = Block(d)
    BY <1>1, <1>2, <1>3, <2>1, CallEnters
  <2>3. count' \in [Pfns -> Nat] /\ CountInv'
    BY <1>1, <1>2, <1>4, <2>2, OwnerCounts
  <2>4. TypeInv'
    <3>1. \A d \in Busy' : Aligned(Block(d)')
      BY <1>1, <1>3, <2>2 DEF TypeInv, Busy
    <3>2. \A x \in free' \cup owned' : Aligned(x)
      BY <1>1, <1>2, <2>1 DEF TypeInv
    <3> QED
      BY <1>1, <1>2, <2>1, <2>2, <2>3, <3>1, <3>2 DEF TypeInv, Aligned
  <2>5. PlaceInv'
    <3>1. /\ OfKind("free", free') = (OfKind("free", free) \ {}) \cup {}
          /\ {} \in SUBSET OfKind("free", free)
          /\ OnPcp' = (OnPcp \ {}) \cup {} /\ {} \in SUBSET OnPcp
          /\ OfKind("leaked", leaked') = OfKind("leaked", leaked) \cup {}
          /\ Calls' = (Calls \ {}) \cup {c} /\ {} \in SUBSET Calls
      BY <1>2, <2>2 DEF OnPcp
    <3>2. OfKind("owned", owned') = (OfKind("owned", owned) \ {w}) \cup {}
      BY <2>1 DEF OfKind
    <3>3. {w} \in SUBSET OfKind("owned", owned)
      BY DEF OfKind
    <3>4. c[3] = Span(b) /\ w[3] = Span(b)
      OBVIOUS
    <3> HIDE DEF c, w
    <3>5. /\ Covers({} \cup {w} \cup {} \cup {}, Span(b))
          /\ Divides({} \cup {} \cup {c} \cup {} \cup {}, Span(b))
      <4>1. {} \cup {w} \cup {} \cup {} = {w} /\ {} \cup {} \cup {c} \cup {} \cup {} = {c}
        OBVIOUS
      <4>2. Covers({w}, Span(b)) /\ Divides({c}, Span(b))
        BY <3>4, DividesOne
      <4> QED
        BY <4>1, <4>2
    <3> QED
      BY <1>1, <3>1, <3>2, <3>3, <3>5, HoldingsMove
  <2>6. ListInv'
    BY <1>1, <1>2, ListsQuiet
  <2> QED
    BY <1>2, <2>3, <2>4, <2>5, <2>6 DEF Inv, RunsOffOnlyWhenEmpty
<1> QED
  BY <1>5, <1>6

\* An owner goes on with the single pages of its block.
LEMMA SplitKeeps ==
  ASSUME Inv, ~ oob, NEW b \in owned, SplitBlock(b)
  PROVE  Inv'
<1> DEFINE E == {<<p, 0>> : p \in Span(b)}
           w == <<"owned", b, Span(b)>>
<1>1. TypeInv /\ PlaceInv /\ ListInv /\ CountInv
  BY DEF Inv
<1>2. /\ UNCHANGED <<free, PageBuddy, private, nr_free, zone_free, count, fmt, pcp, pcp_count,
                     bulk, act, leaked, oob>>
      /\ owned' = (owned \ {b}) \cup E
  BY DEF SplitBlock, listVars, pcpVars
<1>3. Calls' = Calls /\ Busy' = Busy /\ \A c : Block(c)' = Block(c) /\ act'[c] = act[c]
  BY <1>2, CallsStay
<1>4. \A p \in Span(b) : p \in Pfns /\ p \in Nat
  <2>1. Span(b) \subseteq Pfns
    BY <1>1, InMemory
  <2> QED
    BY <2>1, SizeAssumption DEF Pfns
<1>5. \A p \in Span(b) : Span(<<p, 0>>) = {p} /\ Aligned(<<p, 0>>)
  <2>1. \A p \in Nat : p .. p + 1 - 1 = {p} /\ p % 1 = 0
    OBVIOUS
  <2> QED
    BY <1>4, <2>1, PowerZero DEF Span, Aligned
<1>6. \A e \in E : \E p \in Span(b) : e = <<p, 0>> /\ Span(e) = {p} /\ Aligned(e)
  BY <1>5
<1>7. E \subseteq Pfns \X Orders
  <2>1. 0 \in Orders
    BY SizeAssumption DEF Orders
  <2> QED
    BY <1>4, <2>1
<1>8. UNION {Span(e) : e \in E} = Span(b)
  <2>1. \A p \in Span(b) : <<p, 0>> \in E /\ p \in Span(<<p, 0>>)
    BY <1>5
  <2>2. \A p \in Span(b) : \E e \in E : p \in Span(e)
    BY <2>1
  <2> HIDE DEF E
  <2>3. \A e \in E : \A q \in Span(e) : q \in Span(b)
    BY <1>6
  <2> QED
    BY <2>2, <2>3
<1>9. \A e, f \in E : \A q : q \in Span(e) /\ q \in Span(f) => e = f
  BY <1>6
<1> HIDE DEF E
<1>10. TypeInv'
  <2>1. \A x \in free' \cup owned' : Aligned(x)
    BY <1>1, <1>2, <1>6 DEF TypeInv
  <2>2. owned' \subseteq Pfns \X Orders
    BY <1>1, <1>2, <1>7 DEF TypeInv
  <2> QED
    BY <1>1, <1>2, <1>3, <2>1, <2>2 DEF TypeInv, Aligned
<1>11. PlaceInv'
  <2> DEFINE AO == OfKind("owned", E)
  <2>1. /\ OfKind("free", free') = (OfKind("free", free) \ {}) \cup {}
        /\ {} \in SUBSET OfKind("free", free)
        /\ OnPcp' = (OnPcp \ {}) \cup {} /\ {} \in SUBSET OnPcp
        /\ OfKind("leaked", leaked') = OfKind("leaked", leaked) \cup {}
        /\ Calls' = (Calls \ {}) \cup {} /\ {} \in SUBSET Calls
    BY <1>2, <1>3 DEF OnPcp
  <2>2. OfKind("owned", owned') = (OfKind("owned", owned) \ {w}) \cup AO
    BY <1>2 DEF OfKind
  <2>3. {w} \in SUBSET OfKind("owned", owned) /\ w[3] = Span(b)
    BY DEF OfKind
  <2>4. Divides(AO, Span(b))
    BY <1>8, <1>9, KindDivides
  <2> HIDE DEF w, AO
  <2>5. /\ Covers({} \cup {w} \cup {} \cup {}, Span(b))
        /\ Divides({} \cup AO \cup {} \cup {} \cup {}, Span(b))
    <3>1. {} \cup {w} \cup {} \cup {} = {w} /\ {} \cup AO \cup {} \cup {} \cup {} = AO
      OBVIOUS
    <3>2. Covers({w}, Span(b))
      BY <2>3, DividesOne
    <3> QED
      BY <2>4, <3>1, <3>2
  <2> QED
    BY <1>1, <2>1, <2>2, <2>3, <2>5, HoldingsMove
<1>12. CountInv'
  BY <1>1, <1>2, <1>3 DEF CountInv, Span
<1>13. ListInv'
  BY <1>1, <1>2, ListsQuiet
<1> QED
  BY <1>2, <1>10, <1>11, <1>12, <1>13 DEF Inv, RunsOffOnlyWhenEmpty

-------------------------------------------------------------------------------
(* __free_pages *)

\* free_page_prepare: a block with a reference left is lost to everyone, any
\* other goes on to the per-CPU list or to the free lists.
LEMMA PrepareKeeps ==
  ASSUME Inv, ~ oob, NEW a \in Actors, FreePagePrepare(a)
  PROVE  Inv'
<1> DEFINE k == Block(a)
           c == <<"call", a, Span(k)>>
           l == <<"leaked", k, Span(k)>>
<1>1. TypeInv /\ PlaceInv /\ ListInv /\ CountInv
  BY DEF Inv
<1>2. /\ UNCHANGED <<free, PageBuddy, private, nr_free, zone_free, count, fmt, pcp, pcp_count,
                     bulk, owned, oob>>
      /\ act[a].pc = "check"
  BY DEF FreePagePrepare, listVars, pcpVars
<1>3. a \in Busy
  BY <1>2 DEF Busy
<1>4. ListInv'
  BY <1>1, <1>2, ListsQuiet
<1>5. CASE \E p \in Span(k) : count[p] # 0
  <2>1. leaked' = leaked \cup {k} /\ act' = [act EXCEPT ![a] = Idle]
    BY <1>5 DEF FreePagePrepare, Block
  <2>2. /\ act' \in [Actors -> CallRec]
        /\ act'[a].pc = "idle" /\ Busy' = Busy \ {a}
        /\ Calls' = Calls \ {c} /\ c \in Calls
        /\ \A d \in Actors \ {a} : act'[d] = act[d] /\ Block(d)' = Block(d)
    BY <1>1, <1>3, <2>1, CallLeaves
  <2>3. k \in Pfns \X Orders
    <3>1. act[a] \in CallRec
      BY <1>1 DEF TypeInv
    <3> QED
      BY <3>1 DEF CallRec, Block
  <2> HIDE DEF k
  <2>4. TypeInv'
    <3>1. \A d \in Busy' : Aligned(Block(d)')
      BY <1>1, <2>2 DEF TypeInv, Busy
    <3>2. leaked' \subseteq Pfns \X Orders
      BY <1>1, <2>1, <2>3 DEF TypeInv
    <3> QED
      BY <1>1, <1>2, <2>2, <3>1, <3>2 DEF TypeInv, Aligned
  <2>5. PlaceInv'
    <3>1. /\ OfKind("free", free') = (OfKind("free", free) \ {}) \cup {}
          /\ {} \in SUBSET OfKind("free", free)
          /\ OfKind("owned", owned') = (OfKind("owned", owned) \ {}) \cup {}
          /\ {} \in SUBSET OfKind("owned", owned)
          /\ OnPcp' = (OnPcp \ {}) \cup {} /\ {} \in SUBSET OnPcp
          /\ Calls' = (Calls \ {c}) \cup {} /\ {c} \in SUBSET Calls
      BY <1>2, <2>2 DEF OnPcp
    <3>2. OfKind("leaked", leaked') = OfKind("leaked", leaked) \cup {l}
      BY <2>1 DEF OfKind
    <3>3. c[3] = Span(k) /\ l[3] = Span(k)
      OBVIOUS
    <3> HIDE DEF c, l
    <3>4. /\ Covers({} \cup {} \cup {c} \cup {}, Span(k))
          /\ Divides({} \cup {} \cup {} \cup {} \cup {l}, Span(k))
      <4>1. {} \cup {} \cup {c} \cup {} = {c} /\ {} \cup {} \cup {} \cup {} \cup {l} = {l}
        OBVIOUS
      <4>2. Covers({c}, Span(k)) /\ Divides({l}, Span(k))
        BY <3>3, DividesOne
      <4> QED
        BY <4>1, <4>2
    <3> QED
      BY <1>1, <3>1, <3>2, <3>4, HoldingsMove
  <2>6. CountInv'
    <3>1. \A d \in Actors :
            /\ act'[d].pc \in {"merge", "pcp"} => \A q \in Span(Block(d)') : count'[q] = 0
            /\ act'[d].pc = "pcp" => act'[d].order = 0
      BY <1>1, <1>2, <2>2 DEF CountInv
    <3> QED
      BY <1>1, <1>2, <3>1 DEF CountInv, Span
  <2> QED
    BY <1>2, <1>4, <2>4, <2>5, <2>6 DEF Inv, RunsOffOnlyWhenEmpty
<1>6. CASE \A p \in Span(k) : count[p] = 0
  <2> DEFINE pc == IF act[a].order = 0 THEN "pcp" ELSE "merge"
  <2>1. leaked' = leaked /\ act' = [act EXCEPT ![a].pc = pc]
    BY <1>6 DEF FreePagePrepare, Block
  <2>2. pc \in {"account", "merge", "pcp"} /\ (pc = "pcp" => act[a].order = 0)
    OBVIOUS
  <2> HIDE DEF pc
  <2>3. /\ act' \in [Actors -> CallRec]
        /\ Busy' = Busy /\ Calls' = Calls
        /\ act'[a].pc = pc /\ act'[a].order = act[a].order
        /\ \A d \in Actors : Block(d)' = Block(d)
        /\ \A d \in Actors \ {a} : act'[d] = act[d]
    BY <1>1, <1>3, <2>1, <2>2, CallGoesOn
  <2>4. TypeInv'
    <3>1. \A d \in Busy' : Aligned(Block(d)')
      BY <1>1, <2>3 DEF TypeInv, Busy
    <3> QED
      BY <1>1, <1>2, <2>1, <2>3, <3>1 DEF TypeInv, Aligned
  <2>5. PlaceInv'
    BY <1>1, <1>2, <2>1, <2>3, PlaceQuiet
  <2>6. CountInv'
    <3>1. ASSUME NEW d \in Actors
          PROVE  /\ act'[d].pc \in {"merge", "pcp"} => \A q \in Span(Block(d)') : count'[q] = 0
                 /\ act'[d].pc = "pcp" => act'[d].order = 0
      <4>1. CASE d = a
        BY <1>2, <1>6, <2>2, <2>3, <4>1
      <4>2. CASE d # a
        BY <1>1, <1>2, <2>3, <4>2 DEF CountInv
      <4> QED
        BY <4>1, <4>2
    <3> QED
      BY <1>1, <1>2, <3>1 DEF CountInv, Span
  <2> QED
    BY <1>2, <1>4, <2>4, <2>5, <2>6 DEF Inv, RunsOffOnlyWhenEmpty
<1> QED
  BY <1>5, <1>6

\* __free_one_page of what holding h has: h is gone and its pages are free.
LEMMA FreedHolding ==
  ASSUME TypeInv, PlaceInv, PageInv, FullyMerged, NumberInv,
         NEW p \in Pfns, NEW o \in Orders, NEW t \in Types, p % 2^o = 0,
         FreeOnePage(p, o, t), NEW h, h[3] = Span(<<p, o>>),
         UNCHANGED <<owned, leaked>>,
         \/ h \in Calls /\ Calls' = Calls \ {h} /\ OnPcp' = OnPcp
         \/ h \in OnPcp /\ OnPcp' = OnPcp \ {h} /\ Calls' = Calls
  PROVE  /\ PlaceInv' /\ PageInv' /\ FullyMerged'
         /\ free' \subseteq Pfns \X Orders \X Types
         /\ \A b \in free' : Aligned(b)
         /\ \A q : (\E b \in free' : q \in Span(b))
                   <=> (\E b \in free : q \in Span(b)) \/ q \in Span(<<p, o>>)
         /\ \A n \in Orders : nr_free'[n] = Cardinality({b \in free' : b[2] = n})
         /\ zone_free' = PagesIn(free')
<1> DEFINE D == Taken(p, o)
           S == Span(<<p, o>>)
<1>1. h \in Holdings /\ h[1] # "free"
  BY Members
<1>2. S \subseteq Pfns
  <2>1. h[3] \subseteq Memory
    BY <1>1 DEF PlaceInv, Divides, Covers
  <2> QED
    BY <2>1, InMemory
<1>3. \A b \in free : \A q : ~ (q \in Span(b) /\ q \in S)
  <2> SUFFICES ASSUME NEW b \in free, NEW q, q \in Span(b), q \in S
               PROVE  FALSE
    OBVIOUS
  <2> DEFINE f == <<"free", b, Span(b)>>
  <2>1. f \in Holdings /\ f[1] = "free" /\ f[3] = Span(b)
    BY DEF Holdings, OfKind
  <2> HIDE DEF f
  <2>2. f = h
    BY <1>1, <2>1, OneHolder DEF PlaceInv
  <2> QED
    BY <1>1, <2>1, <2>2
<1>4. PICK c \in Pfns \X Orders \X Types :
           /\ free' = (free \ D) \cup {c}
           /\ Aligned(c)
           /\ Span(c) = S \cup UNION {Span(d) : d \in D}
           /\ PageInv' /\ FullyMerged'
           /\ \A n \in Orders : nr_free'[n] = Cardinality({b \in free' : b[2] = n})
           /\ zone_free' = PagesIn(free')
  BY <1>2, <1>3, FreeMerges
<1>5. D \in SUBSET free
  BY DEF Taken
<1> HIDE DEF D, S
<1>6. PlaceInv'
  <2> DEFINE DF == OfKind("free", D)
             f == <<"free", c, Span(c)>>
             M == UNION {Span(d) : d \in D}
  <2>1. OfKind("free", free') = (OfKind("free", free) \ DF) \cup {f}
    <3>1. free' = (free \ D) \cup {c}
      BY <1>4
    <3> QED
      BY <1>5, <3>1 DEF OfKind
  <2>2. DF \in SUBSET OfKind("free", free)
    BY <1>5 DEF OfKind
  <2>3. Covers(DF, M)
    BY KindCovers
  <2>4. f[3] = Span(c) /\ Span(c) = M \cup h[3]
    BY <1>4 DEF S
  <2>5. /\ OfKind("owned", owned') = (OfKind("owned", owned) \ {}) \cup {}
        /\ {} \in SUBSET OfKind("owned", owned)
        /\ OfKind("leaked", leaked') = OfKind("leaked", leaked) \cup {}
    OBVIOUS
  <2> HIDE DEF DF, f, M
  <2>6. Covers(DF \cup {h}, Span(c)) /\ Divides({f}, Span(c))
    <3>1. Covers(DF \cup {h}, M \cup h[3])
      BY <2>3, CoversMore
    <3>2. Divides({f}, f[3])
      BY DividesOne
    <3> QED
      BY <2>4, <3>1, <3>2
  <2>7. Divides({f} \cup {} \cup {} \cup {} \cup {}, Span(c))
    <3>1. {f} \cup {} \cup {} \cup {} \cup {} = {f}
      OBVIOUS
    <3> QED
      BY <2>6, <3>1
  <2>8. CASE h \in Calls /\ Calls' = Calls \ {h} /\ OnPcp' = OnPcp
    <3>1. /\ Calls' = (Calls \ {h}) \cup {} /\ {h} \in SUBSET Calls
          /\ OnPcp' = (OnPcp \ {}) \cup {} /\ {} \in SUBSET OnPcp
      BY <2>8
    <3>2. Covers(DF \cup {} \cup {h} \cup {}, Span(c))
      <4>1. DF \cup {} \cup {h} \cup {} = DF \cup {h}
        OBVIOUS
      <4> QED
        BY <2>6, <4>1
    <3> QED
      BY <2>1, <2>2, <2>5, <2>7, <3>1, <3>2, HoldingsMove
  <2>9. CASE h \in OnPcp /\ OnPcp' = OnPcp \ {h} /\ Calls' = Calls
    <3>1. /\ OnPcp' = (OnPcp \ {h}) \cup {} /\ {h} \in SUBSET OnPcp
          /\ Calls' = (Calls \ {}) \cup {} /\ {} \in SUBSET Calls
      BY <2>9
    <3>2. Covers(DF \cup {} \cup {} \cup {h}, Span(c))
      <4>1. DF \cup {} \cup {} \cup {h} = DF \cup {h}
        OBVIOUS
      <4> QED
        BY <2>6, <4>1
    <3> QED
      BY <2>1, <2>2, <2>5, <2>7, <3>1, <3>2, HoldingsMove
  <2> QED
    BY <2>8, <2>9
<1>7. free' \subseteq Pfns \X Orders \X Types /\ \A b \in free' : Aligned(b)
  BY <1>4 DEF TypeInv
<1>8. ASSUME NEW q
      PROVE  (\E b \in free' : q \in Span(b)) <=> (\E b \in free : q \in Span(b)) \/ q \in S
  <2>1. q \in Span(c) <=> q \in S \/ \E d \in D : q \in Span(d)
    BY <1>4
  <2> QED
    BY <1>4, <1>5, <2>1
<1> QED
  BY <1>4, <1>6, <1>7, <1>8 DEF S

\* __free_pages_ok
LEMMA FreePagesOkKeeps ==
  ASSUME Inv, ~ oob, NEW a \in Actors, FreePagesOk(a)
  PROVE  Inv'
<1> DEFINE p == act[a].page
           o == act[a].order
           t == fmt[p]
           h == <<"call", a, Span(<<p, o>>)>>
<1>1. TypeInv /\ PlaceInv /\ ListInv /\ PageInv /\ FullyMerged /\ NumberInv /\ CountInv
  BY DEF Inv, ListInv
<1>2. /\ UNCHANGED <<count, fmt, pcp, pcp_count, bulk, owned, leaked, oob>>
      /\ act[a].pc = "merge" /\ act' = [act EXCEPT ![a] = Idle]
      /\ FreeOnePage(p, o, t)
  BY DEF FreePagesOk, pcpVars
<1>3. a \in Busy /\ Block(a) = <<p, o>>
  BY <1>2 DEF Busy, Block
<1>4. /\ act' \in [Actors -> CallRec]
      /\ act'[a].pc = "idle" /\ Busy' = Busy \ {a}
      /\ Calls' = Calls \ {h} /\ h \in Calls
      /\ \A d \in Actors \ {a} : act'[d] = act[d] /\ Block(d)' = Block(d)
  BY <1>1, <1>2, <1>3, CallLeaves
<1>5. p \in Pfns /\ o \in Orders /\ t \in Types /\ p % 2^o = 0
  <2>1. act[a] \in CallRec
    BY <1>1 DEF TypeInv
  <2>2. p \in Pfns /\ o \in Orders
    BY <2>1 DEF CallRec
  <2>3. Aligned(<<p, o>>)
    BY <1>1, <1>3 DEF TypeInv
  <2> QED
    BY <1>1, <2>2, <2>3 DEF TypeInv, Aligned
<1>6. OnPcp' = OnPcp /\ h[3] = Span(<<p, o>>)
  BY <1>2 DEF OnPcp
<1> HIDE DEF p, o, t, h
<1>7. /\ PlaceInv' /\ PageInv' /\ FullyMerged'
      /\ free' \subseteq Pfns \X Orders \X Types
      /\ \A b \in free' : Aligned(b)
      /\ \A q : (\E b \in free' : q \in Span(b))
                <=> (\E b \in free : q \in Span(b)) \/ q \in Span(<<p, o>>)
      /\ \A n \in Orders : nr_free'[n] = Cardinality({b \in free' : b[2] = n})
      /\ zone_free' = PagesIn(free')
  BY <1>1, <1>2, <1>4, <1>5, <1>6, FreedHolding
<1>8. TypeInv'
  <2>1. \A d \in Busy' : Aligned(Block(d)')
    BY <1>1, <1>4 DEF TypeInv, Busy
  <2>2. \A b \in free' \cup owned' : Aligned(b)
    BY <1>1, <1>2, <1>7 DEF TypeInv
  <2> QED
    BY <1>1, <1>2, <1>4, <1>7, <2>1, <2>2 DEF TypeInv, Aligned
<1>9. CountInv'
  <2>1. \A q \in Span(<<p, o>>) : count[q] = 0
    BY <1>1, <1>2, <1>3 DEF CountInv
  <2>2. \A b \in free' : \A q \in Span(b) : count'[q] = 0
    BY <1>1, <1>2, <1>7, <2>1 DEF CountInv
  <2>3. \A d \in Actors :
          /\ act'[d].pc \in {"merge", "pcp"} => \A q \in Span(Block(d)') : count'[q] = 0
          /\ act'[d].pc = "pcp" => act'[d].order = 0
    BY <1>1, <1>2, <1>4 DEF CountInv
  <2> QED
    BY <1>1, <1>2, <2>2, <2>3 DEF CountInv, Span
<1>10. ListInv'
  BY <1>1, <1>2, <1>7 DEF ListInv, NumberInv
<1> QED
  BY <1>2, <1>7, <1>8, <1>9, <1>10 DEF Inv, RunsOffOnlyWhenEmpty

\* free_hot_cold_page: the page is new on the list, so the count stays right.
LEMMA HotColdKeeps ==
  ASSUME Inv, ~ oob, bulk = 0, NEW a \in Actors, FreeHotColdPage(a)
  PROVE  Inv'
<1> DEFINE p == act[a].page
           c == <<"call", a, {p}>>
           e == <<"pcp", p, {p}>>
<1>1. TypeInv /\ PlaceInv /\ ListInv /\ NumberInv /\ CountInv
  BY DEF Inv, ListInv
<1>2. /\ UNCHANGED <<free, PageBuddy, private, nr_free, zone_free, count, fmt, owned, leaked,
                     oob>>
      /\ act[a].pc = "pcp" /\ act' = [act EXCEPT ![a] = Idle]
      /\ pcp' = pcp \cup {p} /\ pcp_count' = pcp_count + 1
      /\ bulk' = IF pcp_count' >= PcpHigh THEN PcpBatch ELSE 0
  BY DEF FreeHotColdPage, listVars
<1>3. a \in Busy /\ p \in Pfns
  <2>1. act[a] \in CallRec
    BY <1>1 DEF TypeInv
  <2> QED
    BY <1>2, <2>1 DEF Busy, CallRec
<1>4. Span(Block(a)) = {p}
  <2>1. p \in Nat /\ act[a].order = 0
    BY <1>1, <1>2, <1>3, SizeAssumption DEF CountInv, Pfns
  <2>2. Block(a) = <<p, 0>>
    BY <2>1 DEF Block
  <2> HIDE DEF p
  <2>3. p .. p + 1 - 1 = {p}
    BY <2>1
  <2> QED
    BY <2>2, <2>3, PowerZero DEF Span
<1>5. /\ act' \in [Actors -> CallRec]
      /\ act'[a].pc = "idle" /\ Busy' = Busy \ {a}
      /\ Calls' = Calls \ {c} /\ c \in Calls
      /\ \A d \in Actors \ {a} : act'[d] = act[d] /\ Block(d)' = Block(d)
  BY <1>1, <1>2, <1>3, <1>4, CallLeaves
<1> HIDE DEF p
<1>6. count[p] = 0
  BY <1>1, <1>2, <1>4 DEF CountInv
<1>7. p \notin pcp
  BY <1>1, <1>3, <1>4, Apart
<1>8. TypeInv'
  <2>1. \A d \in Busy' : Aligned(Block(d)')
    BY <1>1, <1>5 DEF TypeInv, Busy
  <2>2. pcp' \subseteq Pfns
    BY <1>1, <1>2, <1>3 DEF TypeInv
  <2> QED
    BY <1>1, <1>2, <1>5, <2>1, <2>2 DEF TypeInv, Aligned
<1>9. PlaceInv'
  <2>1. /\ OfKind("free", free') = (OfKind("free", free) \ {}) \cup {}
        /\ {} \in SUBSET OfKind("free", free)
        /\ OfKind("owned", owned') = (OfKind("owned", owned) \ {}) \cup {}
        /\ {} \in SUBSET OfKind("owned", owned)
        /\ OfKind("leaked", leaked') = OfKind("leaked", leaked) \cup {}
        /\ Calls' = (Calls \ {c}) \cup {} /\ {c} \in SUBSET Calls
    BY <1>2, <1>5
  <2>2. OnPcp' = (OnPcp \ {}) \cup {e} /\ {} \in SUBSET OnPcp
    BY <1>2 DEF OnPcp
  <2>3. c[3] = {p} /\ e[3] = {p}
    OBVIOUS
  <2> HIDE DEF c, e
  <2>4. /\ Covers({} \cup {} \cup {c} \cup {}, {p})
        /\ Divides({} \cup {} \cup {} \cup {e} \cup {}, {p})
    <3>1. {} \cup {} \cup {c} \cup {} = {c} /\ {} \cup {} \cup {} \cup {e} \cup {} = {e}
      OBVIOUS
    <3>2. Covers({c}, {p}) /\ Divides({e}, {p})
      BY <2>3, DividesOne
    <3> QED
      BY <3>1, <3>2
  <2> QED
    BY <1>1, <2>1, <2>2, <2>4, HoldingsMove
<1>10. CountInv'
  <2>1. \A d \in Actors :
          /\ act'[d].pc \in {"merge", "pcp"} => \A q \in Span(Block(d)') : count'[q] = 0
          /\ act'[d].pc = "pcp" => act'[d].order = 0
    BY <1>1, <1>2, <1>5 DEF CountInv
  <2>2. \A q \in pcp' : count'[q] = 0
    BY <1>1, <1>2, <1>6 DEF CountInv
  <2> QED
    BY <1>1, <1>2, <2>1, <2>2 DEF CountInv, Span
<1>11. ListInv'
  <2>1. PageInv' /\ FullyMerged'
    BY <1>1, <1>2 DEF ListInv, PageInv, FullyMerged, FindBuddyPfn
  <2>2. /\ \A n \in Orders : nr_free'[n] = Cardinality({b \in free' : b[2] = n})
        /\ zone_free' = PagesIn(free')
    BY <1>1, <1>2 DEF NumberInv
  <2>3. IsFiniteSet(pcp)
    <3>1. IsFiniteSet(Pfns)
      BY FS_Interval, SizeAssumption DEF Pfns
    <3> QED
      BY <1>1, <3>1, FS_Subset DEF TypeInv
  <2>4. Cardinality(pcp') = Cardinality(pcp) + 1 /\ Cardinality(pcp) \in Nat
    BY <1>2, <1>7, <2>3, FS_AddElement, FS_CardinalityType
  <2>5. PcpBatch \in Nat \ {0}
    BY SizeAssumption
  <2>6. pcp_count' = Cardinality(pcp')
    BY <1>1, <1>2, <2>4 DEF NumberInv
  <2>7. bulk' \in 0 .. PcpBatch
    BY <1>2, <2>5
  <2>8. bulk' # 0 => PcpBatch - bulk' = 0
    BY <1>2, <2>5
  <2>9. pcp_count' = Cardinality(pcp') + (IF bulk' = 0 THEN 0 ELSE PcpBatch - bulk')
    BY <2>4, <2>6, <2>8
  <2> QED
    BY <2>1, <2>2, <2>7, <2>9 DEF ListInv, NumberInv, PagesIn, PagesOf
<1> QED
  BY <1>2, <1>8, <1>9, <1>10, <1>11 DEF Inv, RunsOffOnlyWhenEmpty

\* free_pcppages_bulk, one page: the count is put right with the last one.
LEMMA PcpPageKeeps ==
  ASSUME Inv, ~ oob, bulk > 0, FreePcpPage
  PROVE  Inv'
<1>1. TypeInv /\ PlaceInv /\ ListInv /\ PageInv /\ FullyMerged /\ NumberInv /\ CountInv
  BY DEF Inv, ListInv
<1>2. PICK p \in pcp : pcp' = pcp \ {p} /\ FreeOnePage(p, 0, fmt[p])
  BY DEF FreePcpPage
<1>3. /\ UNCHANGED <<count, fmt, act, owned, leaked, oob>>
      /\ bulk' = bulk - 1
      /\ pcp_count' = IF bulk = 1 THEN pcp_count - PcpBatch ELSE pcp_count
  BY DEF FreePcpPage
<1>4. Calls' = Calls /\ Busy' = Busy /\ \A c : Block(c)' = Block(c) /\ act'[c] = act[c]
  BY <1>3, CallsStay
<1> DEFINE h == <<"pcp", p, {p}>>
<1>5. h \in OnPcp /\ OnPcp' = OnPcp \ {h} /\ h[3] = {p}
  BY <1>2 DEF OnPcp
<1>6. p \in Pfns /\ 0 \in Orders /\ fmt[p] \in Types /\ p % 2^0 = 0 /\ Span(<<p, 0>>) = {p}
  <2>1. p \in Pfns /\ p \in Nat /\ 0 \in Orders
    BY <1>1, SizeAssumption DEF TypeInv, Pfns, Orders
  <2>2. p .. p + 1 - 1 = {p} /\ p % 1 = 0
    BY <2>1
  <2> QED
    BY <1>1, <2>1, <2>2, PowerZero DEF TypeInv, Span
<1> HIDE DEF h
<1>7. /\ PlaceInv' /\ PageInv' /\ FullyMerged'
      /\ free' \subseteq Pfns \X Orders \X Types
      /\ \A b \in free' : Aligned(b)
      /\ \A q : (\E b \in free' : q \in Span(b))
                <=> (\E b \in free : q \in Span(b)) \/ q \in Span(<<p, 0>>)
      /\ \A n \in Orders : nr_free'[n] = Cardinality({b \in free' : b[2] = n})
      /\ zone_free' = PagesIn(free')
  <2> DEFINE t == fmt[p]
  <2>1. FreeOnePage(p, 0, t) /\ t \in Types
    BY <1>2, <1>6
  <2>2. h[3] = Span(<<p, 0>>)
    BY <1>5, <1>6
  <2>3. h \in OnPcp /\ OnPcp' = OnPcp \ {h} /\ Calls' = Calls /\ UNCHANGED <<owned, leaked>>
    BY <1>3, <1>4, <1>5
  <2>4. p \in Pfns /\ 0 \in Orders /\ p % 2^0 = 0
    BY <1>6
  <2> HIDE DEF t
  <2> QED
    BY <1>1, <2>1, <2>2, <2>3, <2>4, FreedHolding
<1>8. TypeInv'
  <2>1. \A b \in free' \cup owned' : Aligned(b)
    BY <1>1, <1>3, <1>7 DEF TypeInv
  <2>2. pcp' \subseteq Pfns
    BY <1>1, <1>2 DEF TypeInv
  <2> QED
    BY <1>1, <1>3, <1>4, <1>7, <2>1, <2>2 DEF TypeInv, Aligned
<1>9. CountInv'
  <2>1. count[p] = 0
    BY <1>1 DEF CountInv
  <2>2. \A b \in free' : \A q \in Span(b) : count'[q] = 0
    BY <1>1, <1>3, <1>6, <1>7, <2>1 DEF CountInv
  <2> QED
    BY <1>1, <1>2, <1>3, <1>4, <2>2 DEF CountInv, Span
<1>10. ListInv'
  <2>1. IsFiniteSet(pcp)
    <3>1. IsFiniteSet(Pfns)
      BY FS_Interval, SizeAssumption DEF Pfns
    <3> QED
      BY <1>1, <3>1, FS_Subset DEF TypeInv
  <2>2. Cardinality(pcp') = Cardinality(pcp) - 1 /\ Cardinality(pcp) \in Nat
    BY <1>2, <2>1, FS_RemoveElement, FS_CardinalityType
  <2>3. PcpBatch \in Nat /\ bulk \in 0 .. PcpBatch
    BY <1>1, SizeAssumption DEF NumberInv
  <2>4. bulk' \in 0 .. PcpBatch
    BY <1>3, <2>3
  <2>5. pcp_count = Cardinality(pcp) + (PcpBatch - bulk)
    BY <1>1, <2>3 DEF NumberInv
  <2>6. pcp_count' = Cardinality(pcp') + (IF bulk' = 0 THEN 0 ELSE PcpBatch - bulk')
    BY <1>3, <2>2, <2>3, <2>5
  <2> QED
    BY <1>7, <2>4, <2>6 DEF ListInv, NumberInv
<1> QED
  BY <1>3, <1>7, <1>8, <1>9, <1>10 DEF Inv, RunsOffOnlyWhenEmpty

-------------------------------------------------------------------------------
(* Every step *)

LEMMA NextInv ==
  ASSUME Inv, [Next]_vars
  PROVE  Inv'
<1>1. CASE UNCHANGED vars
  <2>1. UNCHANGED <<free, PageBuddy, private, nr_free, zone_free, count, fmt, pcp, pcp_count,
                    bulk, act, owned, leaked, oob>>
    BY <1>1 DEF vars
  <2>2. Calls' = Calls /\ Busy' = Busy /\ \A c : Block(c)' = Block(c) /\ act'[c] = act[c]
    BY <2>1, CallsStay
  <2>3. TypeInv'
    BY <2>1, <2>2 DEF Inv, TypeInv, Aligned
  <2>4. PlaceInv'
    BY <2>1, <2>2, PlaceQuiet DEF Inv
  <2>5. CountInv'
    BY <2>1, <2>2 DEF Inv, CountInv, Span
  <2>6. ListInv'
    BY <2>1, ListsQuiet DEF Inv
  <2> QED
    BY <2>1, <2>3, <2>4, <2>5, <2>6 DEF Inv, RunsOffOnlyWhenEmpty
<1>2. CASE Next
  <2>1. ~ oob
    BY <1>2 DEF Next
  <2>2. CASE bulk > 0 /\ FreePcpPage
    BY <2>1, <2>2, PcpPageKeeps
  <2>3. \A t \in MigrateTypes : t \in Types
    BY SizeAssumption DEF Types
  <2>4. ASSUME NEW a \in Actors, NEW t \in MigrateTypes, NEW o \in Orders,
               RmqueueSmallest(a, o, t) \/ RmqueueFallback(a, o, t)
        PROVE  Inv'
    <3>1. PICK b \in SmallestFit(o, t) \cup FallbackFit(o, t) : TakeBlock(a, b, o, t)
      BY <2>4 DEF RmqueueSmallest, RmqueueFallback
    <3>2. act[a].pc = "idle"
      BY <2>4 DEF RmqueueSmallest, RmqueueFallback
    <3>3. b \in free /\ b[2] >= o
      BY DEF SmallestFit, FallbackFit
    <3>4. o <= b[2]
      BY <3>3 DEF Inv, TypeInv, Orders
    <3> QED
      BY <2>1, <2>3, <3>1, <3>2, <3>3, <3>4, TakeKeeps
  <2>5. ASSUME NEW a \in Actors, NEW t \in MigrateTypes, RmqueueRunsOff(a, t)
        PROVE  Inv'
    BY <2>3, <2>5, RunsOffKeeps
  <2>6. ASSUME NEW a \in Actors, bulk = 0,
               \/ PrepNewPage(a) \/ AllocReturns(a)
               \/ \E b \in owned : PutPage(a, b)
               \/ FreePagePrepare(a) \/ FreePagesOk(a) \/ FreeHotColdPage(a)
        PROVE  Inv'
    BY <2>1, <2>6, PrepKeeps, AllocReturnsKeeps, PutPageKeeps, PrepareKeeps,
       FreePagesOkKeeps, HotColdKeeps
  <2>7. ASSUME NEW b \in owned, GetPage(b) \/ SplitBlock(b)
        PROVE  Inv'
    BY <2>1, <2>7, GetPageKeeps, SplitKeeps
  <2> QED
    BY <1>2, <2>2, <2>4, <2>5, <2>6, <2>7 DEF Next
<1> QED
  BY <1>1, <1>2

\* The invariant holds in every state of every execution.
THEOREM BuddyInv == Spec => []Inv
<1>1. Inv /\ [Next]_vars => Inv'
  BY NextInv
<1> QED
  BY <1>1, InitInv, PTL DEF Spec

-------------------------------------------------------------------------------
(* What the invariant says *)

\* Whatever contexts allocate, free, split and merge in between, every frame
\* boot handed over is in exactly one place: alloc_pages hands out no page that
\* somebody holds or that is still on a list, and __free_pages loses none but
\* those of the blocks free_page_prepare rejects.
THEOREM BuddyFramesPartitioned == Spec => []FramesPartitioned
<1>1. Inv => FramesPartitioned
  BY DividedIsPartitioned DEF Inv
<1> QED
  BY <1>1, BuddyInv, PTL

\* The lists, the PageBuddy flags, the orders in private, nr_free,
\* zone->free_pages and pcp->count agree in every state, so page_is_buddy never
\* takes a page for a buddy that is not the head of a free block of that order.
THEOREM BuddyFreeListsCoherent == Spec => []FreeListsCoherent
<1>1. Inv => FreeListsCoherent
  <2> SUFFICES ASSUME Inv
               PROVE  FreeListsCoherent
    OBVIOUS
  <2>1. TypeInv /\ PlaceInv /\ PageInv /\ NumberInv
    BY DEF Inv, ListInv
  <2>2. \A b \in free : private[b[1]] = b[2] /\ b[1] % 2^b[2] = 0
    BY <2>1 DEF PageInv, TypeInv, Aligned
  <2>3. zone_free = Cardinality(UNION {Span(b) : b \in free})
    <3> DEFINE F == free
    <3>1. /\ F \in SUBSET (Pfns \X Orders \X Types)
          /\ \A b, c \in F : \A p : p \in Span(b) /\ p \in Span(c) => b = c
      BY <2>1, Apart DEF TypeInv
    <3> HIDE DEF F
    <3>2. PagesIn(F) = Cardinality(UNION {Span(b) : b \in F})
      BY <3>1, PagesAreFrames
    <3> QED
      BY <2>1, <3>2 DEF NumberInv, F
  <2>4. bulk = 0 => pcp_count = Cardinality(pcp)
    <3>1. IsFiniteSet(Pfns)
      BY FS_Interval, SizeAssumption DEF Pfns
    <3>2. Cardinality(pcp) \in Nat
      BY <2>1, <3>1, FS_Subset, FS_CardinalityType DEF TypeInv
    <3> QED
      BY <2>1, <3>2 DEF NumberInv
  <2> QED
    BY <2>1, <2>2, <2>3, <2>4 DEF FreeListsCoherent, PageInv, NumberInv
<1> QED
  BY <1>1, BuddyInv, PTL

\* No two free buddies below the largest order are ever left unmerged: expand
\* leaves upper halves whose lower half is in use, and the merge loop of
\* __free_one_page stops only where the buddy is not free.
THEOREM BuddyFullyMerged == Spec => []FullyMerged
<1>1. Inv => FullyMerged
  BY DEF Inv, ListInv
<1> QED
  BY <1>1, BuddyInv, PTL

\* No page on a free list or on the per-CPU list has a reference: what
\* free_page_prepare checked outside of the lock still holds when the block
\* goes on a list, since its pages are in no other context's hands.
THEOREM BuddyFreePagesUnreferenced == Spec => []FreePagesUnreferenced
<1>1. Inv => FreePagesUnreferenced
  BY DEF Inv, CountInv, FreePagesUnreferenced
<1> QED
  BY <1>1, BuddyInv, PTL

\* The loop of __rmqueue_fallback runs below order 0 only when every free list
\* of the zone is empty: the fallback table leaves out no type.
THEOREM BuddyRunsOffOnlyWhenEmpty == Spec => []RunsOffOnlyWhenEmpty
<1>1. Inv => RunsOffOnlyWhenEmpty
  BY DEF Inv
<1> QED
  BY <1>1, BuddyInv, PTL

-------------------------------------------------------------------------------
(* The promise to callers *)

\* A block with a call in progress is one PageAllocator may hand out.
LEMMA PagesFacts ==
  ASSUME TypeInv, PlaceInv
  PROVE  /\ \A b : Pages!Pages(b) = Span(b)
         /\ \A b \in owned : b \in Pages!Blocks
         /\ \A a \in Busy : Block(a) \in Pages!Blocks
<1>1. \A b : Pages!Pages(b) = Span(b)
  BY DEF Pages!Pages, Span
<1>2. Pages!Blocks = {b \in Memory \X Orders : Aligned(b) /\ Span(b) \subseteq Memory}
  BY <1>1 DEF Pages!Blocks, Memory, Orders, Aligned
<1>3. ASSUME NEW b \in Pfns \X Orders, Aligned(b), Span(b) \subseteq Memory
      PROVE  b \in Pages!Blocks
  <2>1. b[1] \in Memory
    BY <1>3, Headed
  <2> QED
    BY <1>2, <1>3, <2>1
<1>4. \A b \in owned : b \in Pages!Blocks
  BY <1>3, InMemory DEF TypeInv
<1>5. ASSUME NEW a \in Busy
      PROVE  Block(a) \in Pages!Blocks
  <2>1. act[a] \in CallRec
    BY DEF TypeInv, Busy
  <2>2. Block(a) \in Pfns \X Orders
    BY <2>1 DEF CallRec, Block
  <2> QED
    BY <1>3, <2>2, InMemory DEF TypeInv
<1> QED
  BY <1>1, <1>4, <1>5

\* Buddy implements PageAllocator: to those who call alloc_pages and
\* __free_pages the blocks they hold are aligned, of the order asked for, in
\* memory boot handed over and disjoint, as if nothing went on behind them.
THEOREM BuddyImplementsPageAllocator == Spec => ImplementsPageAllocator
<1>1. Init => Pages!Init
  <2> SUFFICES ASSUME Init
               PROVE  Pages!Init
    OBVIOUS
  <2>1. Inv /\ owned = BootBlocks
    BY InitInv DEF Init
  <2>2. /\ \A b : Pages!Pages(b) = Span(b)
        /\ owned \subseteq Pages!Blocks
    BY <2>1, PagesFacts DEF Inv
  <2>3. Pages!Disjoint(owned)
    BY <2>1, <2>2, BootAssumption DEF Pages!Disjoint
  <2>4. UNION {Pages!Pages(b) : b \in owned} = UNION {Span(b) : b \in BootBlocks}
    BY <2>1, <2>2
  <2> QED
    BY <2>2, <2>3, <2>4 DEF Pages!Init
<1>2. Inv /\ [Next]_vars => [Pages!Next]_owned
  <2> SUFFICES ASSUME Inv, [Next]_vars, owned' # owned
               PROVE  Pages!Next
    OBVIOUS
  <2>1. TypeInv /\ PlaceInv
    BY DEF Inv
  <2>2. /\ \A b : Pages!Pages(b) = Span(b)
        /\ \A b \in owned : b \in Pages!Blocks
        /\ \A a \in Busy : Block(a) \in Pages!Blocks
    BY <2>1, PagesFacts
  <2>3. \/ \E a \in Actors : AllocReturns(a) \/ \E b \in owned : PutPage(a, b)
        \/ \E b \in owned : SplitBlock(b)
    BY DEF Next, vars, RmqueueSmallest, RmqueueFallback, RmqueueRunsOff, TakeBlock,
           PrepNewPage, FreePagePrepare, FreePagesOk, FreeHotColdPage, FreePcpPage, GetPage
  <2>4. ASSUME NEW a \in Actors, AllocReturns(a)
        PROVE  Pages!Next
    <3>1. a \in Busy /\ owned' = owned \cup {Block(a)}
      BY <2>4 DEF AllocReturns, Busy, Block
    <3>2. \A c \in owned : \A p : ~ (p \in Span(c) /\ p \in Span(Block(a)))
      BY <2>1, <3>1, Apart
    <3>3. Pages!Alloc(Block(a))
      BY <2>2, <3>1, <3>2 DEF Pages!Alloc
    <3> QED
      BY <2>2, <3>1, <3>3 DEF Pages!Next
  <2>5. ASSUME NEW a \in Actors, NEW b \in owned, PutPage(a, b)
        PROVE  Pages!Next
    <3>1. owned' = owned \ {b}
      BY <2>5 DEF PutPage
    <3>2. Pages!Free(b)
      BY <3>1 DEF Pages!Free
    <3> QED
      BY <2>2, <3>2 DEF Pages!Next
  <2>6. ASSUME NEW b \in owned, SplitBlock(b)
        PROVE  Pages!Next
    <3>1. Pages!Split(b)
      BY <2>2, <2>6 DEF SplitBlock, Pages!Split
    <3> QED
      BY <2>2, <3>1 DEF Pages!Next
  <2> QED
    BY <2>3, <2>4, <2>5, <2>6
<1> QED
  BY <1>1, <1>2, BuddyInv, PTL DEF Spec, ImplementsPageAllocator, Pages!Spec
=============================================================================
