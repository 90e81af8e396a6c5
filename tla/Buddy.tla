-------------------------------- MODULE Buddy --------------------------------
(***************************************************************************)
(* The buddy page allocator of kernel/mm/buddy.c: one zone of Frames page  *)
(* frames, its free lists per order and migrate type, the per-CPU page     *)
(* list, the page structs' reference counts, PageBuddy flag and private    *)
(* word, and the counters.                                                 *)
(*                                                                         *)
(* Actors are the contexts (task, interrupt handlers) that allocate and    *)
(* free.  What runs under the zone lock with interrupts disabled is one    *)
(* step; what runs outside of it (prep_new_page, put_page_testzero,        *)
(* free_page_prepare, the update of the global counter) is a step of its   *)
(* own.  A free list is the set of the blocks on it: list_first_entry      *)
(* takes some block.  Page flags other than PageBuddy, guard pages, vm     *)
(* event counters and debug hooks are left out.                            *)
(***************************************************************************)
EXTENDS Integers, FiniteSets, FiniteSetsExt

CONSTANTS Actors,
          Frames,           \* zone->spanned_pages; the zone starts at pfn 0
          MAX_ORDER,
          MigrateTypes,     \* the types allocflags_to_migratetype returns
          BootBlocks,       \* the blocks <<pfn, order>> boot code hands over
          PcpHigh,          \* pcp->high
          PcpBatch,         \* pcp->batch
          MaxCount,         \* bound: references to one page
          UlongSize         \* the number of values of a ulong

UNMOVABLE   == "unmovable"
MOVABLE     == "movable"
RECLAIMABLE == "reclaimable"

Pfns   == 0 .. Frames - 1
Orders == 0 .. MAX_ORDER - 1

Span(b) == b[1] .. b[1] + 2^b[2] - 1

ASSUME SizeAssumption ==
  /\ Frames \in Nat \ {0} /\ MAX_ORDER \in Nat \ {0}
  /\ PcpBatch \in 1 .. PcpHigh /\ MaxCount \in Nat \ {0}
  /\ UlongSize \in Nat \ {0}
  /\ MigrateTypes \subseteq {UNMOVABLE, MOVABLE, RECLAIMABLE}

ASSUME BootAssumption ==
  /\ \A b \in BootBlocks : /\ b \in Pfns \X Orders /\ b[1] % 2^b[2] = 0
                           /\ Span(b) \subseteq Pfns
  /\ \A b, c \in BootBlocks : b # c => Span(b) \cap Span(c) = {}

VARIABLES free,         \* the blocks <<pfn, order, migratetype>> on free lists
          PageBuddy,    \* PageBuddy[p]
          private,      \* private[p]: the order of a free block's first page
          count,        \* count[p]: page_ref_count
          fmt,          \* fmt[p]: get_freepage_migratetype
          nr_free,      \* nr_free[o]: zone->free_area[o].nr_free
          zone_free,    \* zone->free_pages
          free_pages,   \* the global free_pages, which si_meminfo reports
          pcp,          \* the pages on the per-CPU lists
          pcp_count,    \* pcp->count
          bulk,         \* pages free_pcppages_bulk has still to return
          act,          \* act[a]: the call actor a is in
          owned,        \* history: the blocks their allocators hold
          leaked,       \* history: the blocks free_page_prepare rejected
          oob           \* free_area was indexed outside its bounds

listVars == <<free, PageBuddy, private, nr_free, zone_free>>
pcpVars  == <<pcp, pcp_count, bulk>>
vars == <<free, PageBuddy, private, count, fmt, nr_free, zone_free, free_pages,
          pcp, pcp_count, bulk, act, owned, leaked, oob>>

Idle == [pc |-> "idle", page |-> 0, order |-> 0]

\* init_zone leaves every list empty.  The page structs are zero, but for the
\* one reference boot code holds to each block it is about to free.
Init ==
  /\ free = {}
  /\ PageBuddy = [p \in Pfns |-> FALSE]
  /\ private = [p \in Pfns |-> 0]
  /\ count = [p \in Pfns |-> IF \E b \in BootBlocks : b[1] = p THEN 1 ELSE 0]
  /\ fmt = [p \in Pfns |-> UNMOVABLE]
  /\ nr_free = [o \in Orders |-> 0]
  /\ zone_free = 0
  /\ free_pages = 0
  /\ pcp = {} /\ pcp_count = 0 /\ bulk = 0
  /\ act = [a \in Actors |-> Idle]
  /\ owned = BootBlocks
  /\ leaked = {}
  /\ oob = FALSE

-------------------------------------------------------------------------------
(* The free lists *)

Heads(B) == {b[1] : b \in B}
OrderIn(B, p) == (CHOOSE b \in B : b[1] = p)[2]

\* The pages of the blocks B, each counted with its block.
PagesOf(B) == UNION {{b} \X (0 .. 2^b[2] - 1) : b \in B}
PagesIn(B) == Cardinality(PagesOf(B))

\* Mutant: deleting a block leaves its page marked as buddy.
ChangeFreeLists_StaleBuddy(D, A) ==
  /\ free' = (free \ D) \cup A
  /\ PageBuddy' = [p \in Pfns |-> p \in Heads(A) \/ PageBuddy[p]]
  /\ private' = [p \in Pfns |-> IF p \in Heads(A) THEN OrderIn(A, p)
                                ELSE IF p \in Heads(D) THEN 0 ELSE private[p]]
  /\ nr_free' = [o \in Orders |-> nr_free[o] - Cardinality({b \in D : b[2] = o})
                                             + Cardinality({b \in A : b[2] = o})]
  /\ zone_free' = zone_free - PagesIn(D) + PagesIn(A)

\* __del_page_from_free_list of the blocks D, then __add_page_to_free_list of A.
ChangeFreeLists(D, A) ==
  /\ free' = (free \ D) \cup A
  /\ PageBuddy' = [p \in Pfns |-> p \in Heads(A) \/ (PageBuddy[p] /\ p \notin Heads(D))]
  /\ private' = [p \in Pfns |-> IF p \in Heads(A) THEN OrderIn(A, p)
                                ELSE IF p \in Heads(D) THEN 0 ELSE private[p]]
  /\ nr_free' = [o \in Orders |-> nr_free[o] - Cardinality({b \in D : b[2] = o})
                                             + Cardinality({b \in A : b[2] = o})]
  /\ zone_free' = zone_free - PagesIn(D) + PagesIn(A)

Align(p, o) == p - (p % 2^o)

\* page_pfn ^ (1 << order), for a pfn aligned to its order.
FindBuddyPfn(p, o) == IF p % 2^(o + 1) = 0 THEN p + 2^o ELSE p - 2^o

\* A buddy outside the zone has another zone id.
page_is_buddy(p, o) == p \in Pfns /\ PageBuddy[p] /\ private[p] = o

\* The order the merge loop of __free_one_page stops at.
MergedOrder(p, o) ==
  Max({m \in o .. MAX_ORDER - 1 :
         \A k \in o .. m - 1 : page_is_buddy(FindBuddyPfn(Align(p, k), k), k)})

\* Mutant: the loop stops one order early.
FreeOnePage_MergesOnce(p, o, t) ==
  LET m == IF MergedOrder(p, o) > o THEN o + 1 ELSE o
      D == {b \in free : \E k \in o .. m - 1 :
                           b[1] = FindBuddyPfn(Align(p, k), k) /\ b[2] = k}
  IN  ChangeFreeLists(D, {<<Align(p, m), m, t>>})

\* __free_one_page: the free buddies, whatever their type, come off their
\* lists and the merged block goes on the list of the freed page's type.
FreeOnePage(p, o, t) ==
  LET m == MergedOrder(p, o)
      D == {b \in free : \E k \in o .. m - 1 :
                           b[1] = FindBuddyPfn(Align(p, k), k) /\ b[2] = k}
  IN  ChangeFreeLists(D, {<<Align(p, m), m, t>>})

\* Mutant: the halves are computed from the wrong size.
Expand_WrongHalf(p, low, high, t) ==
  {<<p + 2^low, h, t>> : h \in low .. high - 1}

\* The upper halves a block of order high leaves when it is cut down to low.
Expand(p, low, high, t) == {<<p + 2^h, h, t>> : h \in low .. high - 1}

-------------------------------------------------------------------------------
(* alloc_pages *)

Enter(a, pc, p, o) == act' = [act EXCEPT ![a] = [pc |-> pc, page |-> p, order |-> o]]

\* The lists __rmqueue_smallest finds a block on: the type's smallest order.
SmallestFit(o, t) ==
  LET fits == {b \in free : b[2] >= o /\ b[3] = t}
  IN  {b \in fits : \A c \in fits : b[2] <= c[2]}

\* Mutant: the row of MOVABLE misses its second entry.
Fallbacks_ShortRow(t) ==
  CASE t = UNMOVABLE   -> <<RECLAIMABLE, MOVABLE>>
    [] t = RECLAIMABLE -> <<UNMOVABLE, MOVABLE>>
    [] t = MOVABLE     -> <<RECLAIMABLE>>

\* The table of __rmqueue_fallback: the types to try, in order.
Fallbacks(t) ==
  CASE t = UNMOVABLE   -> <<RECLAIMABLE, MOVABLE>>
    [] t = RECLAIMABLE -> <<UNMOVABLE, MOVABLE>>
    [] t = MOVABLE     -> <<RECLAIMABLE, UNMOVABLE>>

\* The blocks __rmqueue_fallback may take: the largest order first, and in it
\* the first type of the row whose list is not empty.  (The rows are local to
\* __rmqueue_fallback; find_suitable_fallback is read as if it saw them.)  The
\* deletion zeroes private before steal_suitable_fallback reads the order there,
\* so it returns at once and nothing is stolen: the remainder alone changes type.
FallbackFit(o, t) ==
  LET row == Fallbacks(t)
      fits == {b \in free : b[2] >= o /\ \E i \in DOMAIN row : row[i] = b[3]}
      largest == {b \in fits : \A c \in fits : b[2] >= c[2]}
      rank(b) == CHOOSE i \in DOMAIN row : row[i] = b[3]
  IN  {b \in largest : \A c \in largest : rank(b) <= rank(c)}

\* Mutant: the free block stays on its list.
TakeBlock_NotDeleted(a, b, o, t) ==
  /\ ChangeFreeLists({}, Expand(b[1], o, b[2], t))
  /\ fmt' = [fmt EXCEPT ![b[1]] = t]
  /\ Enter(a, "prep", b[1], o)
  /\ UNCHANGED <<count, free_pages, pcpVars, owned, leaked, oob>>

TakeBlock(a, b, o, t) ==
  /\ ChangeFreeLists({b}, Expand(b[1], o, b[2], t))
  /\ fmt' = [fmt EXCEPT ![b[1]] = t]
  /\ Enter(a, "prep", b[1], o)
  /\ UNCHANGED <<count, free_pages, pcpVars, owned, leaked, oob>>

\* rmqueue, up to the release of the zone lock.
RmqueueSmallest(a, o, t) ==
  /\ act[a].pc = "idle"
  /\ \E b \in SmallestFit(o, t) : TakeBlock(a, b, o, t)

RmqueueFallback(a, o, t) ==
  /\ act[a].pc = "idle"
  /\ SmallestFit(o, t) = {}
  /\ \E b \in FallbackFit(o, t) : TakeBlock(a, b, o, t)

\* No block for order 0: current_order is unsigned, so "current_order >= 0"
\* holds after 0 too, and the loop reads free_area[UINT_MAX] (undefined
\* behaviour: the model stops).  For order > 0 alloc_pages returns NULL, which
\* changes nothing.
RmqueueRunsOff(a, t) ==
  /\ act[a].pc = "idle"
  /\ SmallestFit(0, t) = {} /\ FallbackFit(0, t) = {}
  /\ oob' = TRUE
  /\ UNCHANGED <<listVars, count, fmt, free_pages, pcpVars, act, owned, leaked>>

\* prep_new_page, after the lock is released: one reference to every page.
PrepNewPage(a) ==
  /\ act[a].pc = "prep"
  /\ LET S == Span(<<act[a].page, act[a].order>>)
     IN  /\ count' = [p \in Pfns |-> IF p \in S THEN 1 ELSE count[p]]
         /\ private' = [p \in Pfns |-> IF p \in S THEN 0 ELSE private[p]]
  /\ act' = [act EXCEPT ![a].pc = "account"]
  /\ UNCHANGED <<free, PageBuddy, nr_free, zone_free, fmt, free_pages, pcpVars,
                 owned, leaked, oob>>

\* The global counter goes down (and nothing ever brings it up), then
\* alloc_pages returns the block.
AllocReturns(a) ==
  /\ act[a].pc = "account"
  /\ free_pages' = (free_pages - 2^act[a].order) % UlongSize
  /\ owned' = owned \cup {<<act[a].page, act[a].order>>}
  /\ act' = [act EXCEPT ![a] = Idle]
  /\ UNCHANGED <<listVars, count, fmt, pcpVars, leaked, oob>>

-------------------------------------------------------------------------------
(* __free_pages *)

\* put_page_testzero: the last reference starts the free.
PutPage(a, b) ==
  /\ act[a].pc = "idle"
  /\ b \in owned /\ count[b[1]] > 0
  /\ count' = [count EXCEPT ![b[1]] = @ - 1]
  /\ IF count[b[1]] = 1
     THEN Enter(a, "check", b[1], b[2]) /\ owned' = owned \ {b}
     ELSE UNCHANGED <<act, owned>>
  /\ UNCHANGED <<listVars, fmt, free_pages, pcpVars, leaked, oob>>

\* Mutant: free_page_check does not look at the reference count.
FreePagePrepare_Unchecked(a) ==
  /\ act[a].pc = "check"
  /\ act' = [act EXCEPT ![a].pc = IF act[a].order = 0 THEN "pcp" ELSE "merge"]
  /\ UNCHANGED <<listVars, count, fmt, free_pages, pcpVars, owned, leaked, oob>>

\* free_page_prepare: a page of the block with a reference left is a bad page,
\* and __free_pages returns with the block neither owned nor free.
FreePagePrepare(a) ==
  /\ act[a].pc = "check"
  /\ LET b == <<act[a].page, act[a].order>>
     IN  IF \E p \in Span(b) : count[p] # 0
         THEN leaked' = leaked \cup {b} /\ act' = [act EXCEPT ![a] = Idle]
         ELSE /\ act' = [act EXCEPT ![a].pc = IF b[2] = 0 THEN "pcp" ELSE "merge"]
              /\ UNCHANGED leaked
  /\ UNCHANGED <<listVars, count, fmt, free_pages, pcpVars, owned, oob>>

\* __free_pages_ok.
FreePagesOk(a) ==
  /\ act[a].pc = "merge"
  /\ FreeOnePage(act[a].page, act[a].order, fmt[act[a].page])
  /\ act' = [act EXCEPT ![a] = Idle]
  /\ UNCHANGED <<count, fmt, free_pages, pcpVars, owned, leaked, oob>>

\* free_hot_cold_page, with interrupts disabled on the only CPU: nothing else
\* runs until a bulk free it started is over.
FreeHotColdPage(a) ==
  /\ act[a].pc = "pcp"
  /\ pcp' = pcp \cup {act[a].page}
  /\ pcp_count' = pcp_count + 1
  /\ bulk' = IF pcp_count' >= PcpHigh THEN PcpBatch ELSE 0
  /\ act' = [act EXCEPT ![a] = Idle]
  /\ UNCHANGED <<listVars, count, fmt, free_pages, owned, leaked, oob>>

\* free_pcppages_bulk returns one page to the free lists; its caller takes
\* batch off the count when all are returned.
FreePcpPage ==
  /\ \E p \in pcp : pcp' = pcp \ {p} /\ FreeOnePage(p, 0, fmt[p])
  /\ bulk' = bulk - 1
  /\ pcp_count' = IF bulk = 1 THEN pcp_count - PcpBatch ELSE pcp_count
  /\ UNCHANGED <<count, fmt, free_pages, act, owned, leaked, oob>>

-------------------------------------------------------------------------------
(* What allocators do with a block *)

\* get_page: one more reference.
GetPage(b) ==
  /\ b \in owned
  /\ count[b[1]] \in 1 .. MaxCount - 1
  /\ count' = [count EXCEPT ![b[1]] = @ + 1]
  /\ UNCHANGED <<listVars, fmt, free_pages, pcpVars, act, owned, leaked, oob>>

\* Every page of an allocated block has a reference of its own, so its owner
\* may go on to free the pages one by one.
SplitBlock(b) ==
  /\ b \in owned /\ b[2] > 0
  /\ \A p \in Span(b) : count[p] = 1
  /\ owned' = (owned \ {b}) \cup {<<p, 0>> : p \in Span(b)}
  /\ UNCHANGED <<listVars, count, fmt, free_pages, pcpVars, act, leaked, oob>>

Next ==
  /\ ~ oob
  /\ \/ bulk > 0 /\ FreePcpPage
     \/ /\ bulk = 0
        /\ \/ \E a \in Actors :
                \/ \E t \in MigrateTypes :
                     \/ \E o \in Orders : RmqueueSmallest(a, o, t) \/ RmqueueFallback(a, o, t)
                     \/ RmqueueRunsOff(a, t)
                \/ PrepNewPage(a) \/ AllocReturns(a)
                \/ \E b \in owned : PutPage(a, b)
                \/ FreePagePrepare(a) \/ FreePagesOk(a) \/ FreeHotColdPage(a)
           \/ \E b \in owned : GetPage(b) \/ SplitBlock(b)

Spec == Init /\ [][Next]_vars

-------------------------------------------------------------------------------
(* Properties *)

InFlight(a) ==
  IF act[a].pc = "idle" THEN {} ELSE Span(<<act[a].page, act[a].order>>)

\* Where frame p is: on how many free lists, in how many allocators' blocks,
\* calls in progress, per-CPU lists and rejected blocks.
Uses(p) ==
  Cardinality({b \in free : p \in Span(b)}) + Cardinality({b \in owned : p \in Span(b)})
  + Cardinality({a \in Actors : p \in InFlight(a)})
  + Cardinality({q \in pcp : q = p}) + Cardinality({b \in leaked : p \in Span(b)})

\* No page is handed out twice and none gets lost: every frame boot handed
\* over is, at every moment, in exactly one place.
FramesPartitioned ==
  \A p \in Pfns : Uses(p) = IF p \in UNION {Span(b) : b \in BootBlocks} THEN 1 ELSE 0

\* The page structs say what the lists hold, so that page_is_buddy trusts them
\* rightly: the flag and the order are those of the listed block; nr_free
\* counts the blocks and zone->free_pages the pages, and pcp->count those on the
\* per-CPU list whenever no batch is on its way back.
FreeListsCoherent ==
  /\ \A p \in Pfns : PageBuddy[p] <=> \E b \in free : b[1] = p
  /\ \A b \in free : private[b[1]] = b[2] /\ b[1] % 2^b[2] = 0
  /\ \A o \in Orders : nr_free[o] = Cardinality({b \in free : b[2] = o})
  /\ zone_free = Cardinality(UNION {Span(b) : b \in free})
  /\ bulk = 0 => pcp_count = Cardinality(pcp)

\* Free memory is always merged as far as it can be: no two buddies of an
\* order below the largest are both free, whatever types they are listed under.
FullyMerged ==
  \A b, c \in free :
    b[2] < MAX_ORDER - 1 => ~ (c[2] = b[2] /\ c[1] = FindBuddyPfn(b[1], b[2]))

\* Nobody holds a reference to a page that can be allocated again.
FreePagesUnreferenced ==
  \A p \in Pfns : p \in pcp \/ (\E b \in free : p \in Span(b)) => count[p] = 0

\* alloc_pages runs out only when no free list of any type has a block left.
RunsOffOnlyWhenEmpty == oob => free = {}

\* To its callers the allocator is a PageAllocator: whatever other contexts
\* allocate, free, split and merge in between, a block alloc_pages returns is
\* aligned, of the order asked for and disjoint from every block still held.
Pages == INSTANCE PageAllocator
  WITH Memory <- UNION {Span(b) : b \in BootBlocks}, MaxOrder <- MAX_ORDER, held <- owned

ImplementsPageAllocator == Pages!Spec

\* A free list index is inside free_area[MAX_ORDER].
FreeAreaInBounds == ~ oob

\* free_page_check ("nonzero _refcount") never fires on a block whose owner
\* drops the last reference it took.
FreedBlocksPassCheck == leaked = {}
===============================================================================
