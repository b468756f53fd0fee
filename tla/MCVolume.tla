------------------------------- MODULE MCVolume -------------------------------
(* Volume with two threads and three calls of __init__() that get as far   *)
(* as the array of servers.                                                *)
EXTENDS Volume, TLC

CONSTANTS one, two

ServerLists == {one, two}

CountOf(s) == IF s = one THEN 1 ELSE 2

Symmetry ==
  Permutations(Thread) \cup Permutations(Block) \cup Permutations(Mount)
    \cup Permutations(List)
=============================================================================
