------------------------------- MODULE MCBuddy -------------------------------
(* Instances of Buddy: what boot code hands over, as pairs <<pfn, order>>. *)
EXTENDS Buddy, TLC

MCBootBlocks == {<<0, 2>>}

\* A zone whose size is not a multiple of its largest block.
MCEdgeBlocks == {<<0, 2>>, <<4, 1>>}

MCSymmetry == Permutations(Actors)
==============================================================================
