------------------------------ MODULE MCFtsIter ------------------------------
(* FtsIter on every tree over a small set of entries.                      *)
EXTENDS FtsIter, MCTrees

SomeDepths == {-1, 1}
=============================================================================
