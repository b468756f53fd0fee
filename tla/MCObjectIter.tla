----------------------------- MODULE MCObjectIter -----------------------------
(* ObjectIter on every tree over a small set of entries.                   *)
EXTENDS MCTrees

(* No limit (two ways to say so), none below Root, and limits the trees reach. *)
SomeDepths == {-2, -1, 0, 1, 2}
=============================================================================
