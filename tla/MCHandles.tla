------------------------------- MODULE MCHandles -------------------------------
(* Handles with a few objects of each type and two threads.                *)
EXTENDS Handles, TLC

CONSTANTS v1, v2, o1, o2, d1, f1, i1, e1

Objects == {v1, v2, o1, o2, d1, f1, i1, e1}

Places ==
  [k \in Kinds |->
     CASE k = "Volume"       -> {v1, v2}
       [] k = "ObjectHandle" -> {o1, o2}
       [] k = "FD"           -> {d1}
       [] k = "FTSHandle"    -> {f1}
       [] k = "FTSIterator"  -> {i1}
       [] k = "FTSEntry"     -> {e1}]

Symmetry == Permutations({v1, v2}) \cup Permutations({o1, o2}) \cup Permutations(Thread)
=============================================================================
