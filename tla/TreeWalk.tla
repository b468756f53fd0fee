------------------------------- MODULE TreeWalk -------------------------------
(***************************************************************************)
(* What iter_glfs_object_handle() promises its callers, without the list   *)
(* of open directories: the entries of a tree are delivered one at a time, *)
(* each once, a directory before what it contains, none below max_depth or *)
(* below a directory that could not be opened, and the end is announced    *)
(* only when nothing is left.  The caller may ask again after the end.     *)
(***************************************************************************)
EXTENDS Integers, Sequences

CONSTANTS Entry, Root, Trees, MaxDepths

VARIABLES
  tree,        \* what the volume holds
  limit,       \* whether to recurse, and how deep
  visited,     \* entries delivered
  lost,        \* directories that could not be opened
  ended        \* the end has been announced

wvars == <<tree, limit, visited, lost, ended>>

Depth(d) == IF d = Root THEN 0 ELSE Len(tree.path[d])

InLimit(d) ==
  /\ d \in tree.dirs
  /\ limit.recurse
  /\ limit.max_depth < 0 \/ Depth(d) <= limit.max_depth

(* The entries of d are to be delivered now.                               *)
Entered(d) == d = Root \/ (d \in visited \ lost /\ InLimit(d))

NothingLeft == \A e \in Entry : Entered(tree.parent[e]) => e \in visited

Init ==
  /\ tree \in Trees
  /\ limit = [recurse |-> FALSE, max_depth |-> -1]
  /\ visited = {} /\ lost = {} /\ ended = FALSE

SetLimit(r, d) ==
  /\ visited = {} /\ lost = {}
  /\ limit' = [recurse |-> r, max_depth |-> d]
  /\ UNCHANGED <<tree, visited, lost, ended>>

Deliver(e) ==
  /\ ~ended
  /\ e \notin visited
  /\ Entered(tree.parent[e])
  /\ visited' = visited \cup {e}
  /\ UNCHANGED <<tree, limit, lost, ended>>

Lose(d) ==
  /\ ~ended
  /\ d \notin visited
  /\ Entered(tree.parent[d]) /\ InLimit(d)
  /\ lost' = lost \cup {d}
  /\ UNCHANGED <<tree, limit, visited, ended>>

End ==
  /\ NothingLeft
  /\ ended' = TRUE
  /\ UNCHANGED <<tree, limit, visited, lost>>

AskAgain ==
  /\ ended' = FALSE
  /\ UNCHANGED <<tree, limit, visited, lost>>

Next ==
  \/ \E r \in BOOLEAN, d \in MaxDepths : SetLimit(r, d)
  \/ \E e \in Entry : Deliver(e) \/ Lose(e)
  \/ End
  \/ AskAgain

Spec == Init /\ [][Next]_wvars
=============================================================================
