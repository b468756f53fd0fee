-------------------------------- MODULE MCTrees --------------------------------
(* Every tree over a small set of entries, for the models of the walks.    *)
EXTENDS ObjectIter

Symmetry == Permutations(Entry)

(* The path of every entry, if p is the parent function of a tree.         *)
PathsOf(p) ==
  LET extend[k \in Nat] ==
        [e \in Entry |->
           IF k = 0 \/ p[e] = Root THEN <<e>> ELSE Append(extend[k - 1][p[e]], e)]
  IN extend[Cardinality(Entry)]

AllTrees ==
  UNION {{[dirs |-> D, parent |-> p, path |-> PathsOf(p)] :
            D \in {S \in SUBSET Entry : \A e \in Entry : p[e] \in S \cup {Root}}} :
         p \in {q \in [Entry -> Entry \cup {Root}] :
                  IsTree([dirs |-> Entry, parent |-> q, path |-> PathsOf(q)])}}
=============================================================================
