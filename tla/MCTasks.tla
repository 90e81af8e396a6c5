------------------------------- MODULE MCTasks -------------------------------
(* Instance of Tasks: the objects of each kind are interchangeable. *)
EXTENDS Tasks, TLC

MCSymmetry ==
  Permutations(TaskStructs) \cup Permutations(Stacks) \cup Permutations(Mms)
==============================================================================
