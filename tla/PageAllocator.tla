---------------------------- MODULE PageAllocator ----------------------------
(***************************************************************************)
(* What kernel/mm/buddy.c promises to those who call alloc_pages and       *)
(* __free_pages: a block handed out has the size asked for, is aligned to  *)
(* it, lies in memory boot code gave to the allocator and has no page in   *)
(* common with a block somebody still holds.  Buddy implements this.       *)
(***************************************************************************)
EXTENDS Integers

CONSTANTS Memory,       \* the page frames the allocator was given
          MaxOrder      \* bound: block orders are below it

VARIABLE held           \* the blocks <<pfn, order>> their allocators hold

Pages(b) == b[1] .. b[1] + 2^b[2] - 1

Blocks == {b \in Memory \X (0 .. MaxOrder - 1) :
             b[1] % 2^b[2] = 0 /\ Pages(b) \subseteq Memory}

Disjoint(B) == \A b, c \in B : b # c => Pages(b) \cap Pages(c) = {}

\* Boot code holds all memory, in disjoint blocks.
Init ==
  /\ held \subseteq Blocks
  /\ Disjoint(held)
  /\ UNION {Pages(b) : b \in held} = Memory

Alloc(b) ==
  /\ \A c \in held : Pages(b) \cap Pages(c) = {}
  /\ held' = held \cup {b}

Free(b) ==
  /\ b \in held
  /\ held' = held \ {b}

\* The owner of a block goes on with its single pages.
Split(b) ==
  /\ b \in held
  /\ held' = (held \ {b}) \cup {<<p, 0>> : p \in Pages(b)}

Next == \E b \in Blocks : Alloc(b) \/ Free(b) \/ Split(b)

Spec == Init /\ [][Next]_held
==============================================================================
