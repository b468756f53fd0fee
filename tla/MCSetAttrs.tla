------------------------------ MODULE MCSetAttrs ------------------------------
(* SetAttrs on every tree over a small set of entries.                     *)
EXTENDS SetAttrs, MCTrees

NoLimit == {-1}
=============================================================================
