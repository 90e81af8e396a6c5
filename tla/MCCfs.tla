-------------------------------- MODULE MCCfs --------------------------------
(* Instances of Cfs: the speeds of the tasks' virtual clocks. *)
EXTENDS Cfs

CONSTANTS t1, t2, t3

\* A task of default weight and one of half that weight.
MCScale == [t \in Tasks |-> IF t = t1 THEN 1 ELSE 2]
==============================================================================
