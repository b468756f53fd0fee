----------------------------- MODULE SetAttrsProofs -----------------------------
(***************************************************************************)
(* Proofs about SetAttrs: recursive setattrs() is a walk as ObjectIter     *)
(* allows it up to its return, it changes attributes from the top down,    *)
(* and no failure of its callback is lost, for every tree.                 *)
(***************************************************************************)
EXTENDS SetAttrs, ObjectIterProofs, FiniteSetTheorems

-----------------------------------------------------------------------------
(* The inductive invariant.                                                *)

(* How far the walk is at each place of py_glfs_obj_setattrs().            *)
PhaseInv ==
  /\ doing \in {"self", "opendir", "null"} => pc = "new"
  /\ doing \in {"walk", "crashed"} => pc = "idle"
  /\ doing = "walking" => pc = "idle" \/ InWalk
  /\ doing = "walking" /\ pc = "idle" => rv \in {-2, -1, 0}
  /\ doing = "none" => pc = "idle" \/ (pc = "new" /\ (~recursive \/ error))
  /\ doing \in {"opendir", "walk", "walking", "crashed"} => recursive
  /\ pc # "new" => cb = [recurse |-> TRUE, max_depth |-> -1]

(* Until the callback fails, what was delivered has been changed; then the *)
(* entry in hand has not, and the walk is over.                            *)
ChangeInv ==
  /\ changed # {} => Root \in changed
  /\ changed \ {Root} \subseteq visited
  /\ \A e \in changed \ {Root} : Ancestors(e) \subseteq changed
  /\ ~failed => visited = changed \ {Root}
  /\ failed =>
       /\ pc = "idle" /\ rv = -2 /\ doing \in {"walking", "none", "crashed"}
       /\ \E e \in Entry : visited = (changed \ {Root}) \cup {e}

(* A failed read was the last step of the walk.                            *)
ReadInv == "read" \in failures => pc = "idle" /\ rv = IF entry = NULL THEN 0 ELSE -1

(* The return closes the directory that the list still stands on, so the   *)
(* invariant of the walk holds until then.                                 *)
SetInv ==
  /\ SetTypeOK /\ PhaseInv /\ ChangeInv /\ ReadInv
  /\ doing # "none" => IInv
  /\ FailureIsReported /\ QuietIsDone
-----------------------------------------------------------------------------
(* The directories above an entry are directories.  One that is not, above *)
(* an entry of the least depth, would be above the parent of that entry.   *)
LEMMA AncestorsAreDirs ==
  ASSUME tree \in Trees, NEW e \in Entry
  PROVE  Ancestors(e) \subseteq tree.dirs
<1> DEFINE Odd == {f \in Entry : ~(Ancestors(f) \subseteq tree.dirs)}
           Levels == {Level(f) : f \in Odd}
<1>1. ASSUME NEW f \in Entry
      PROVE  /\ Level(f) \in Nat /\ Level(tree.parent[f]) \in Nat
             /\ Level(f) = Level(tree.parent[f]) + 1
             /\ tree.parent[f] \in tree.dirs \cup {Root} /\ tree.dirs \subseteq Entry
             /\ Ancestors(f) = IF tree.parent[f] = Root THEN {}
                               ELSE Ancestors(tree.parent[f]) \cup {tree.parent[f]}
  <2>1. /\ Level(tree.parent[f]) \in Nat /\ Level(f) = Level(tree.parent[f]) + 1
        /\ tree.parent[f] \in tree.dirs \cup {Root} /\ tree.dirs \subseteq Entry
    BY TreeFacts
  <2>2. Ancestors(f) = IF tree.parent[f] = Root THEN {}
                       ELSE Ancestors(tree.parent[f]) \cup {tree.parent[f]}
    BY AncestorsFact
  <2>3. Level(f) \in Nat
    BY <2>1
  <2> QED  BY <2>1, <2>2, <2>3
<1>2. ASSUME Odd # {} PROVE FALSE
  <2>1. Levels \subseteq Nat /\ Levels # {}
    BY <1>1, <1>2
  <2>2. PICK n \in Levels : \A m \in Levels : <<m, n>> \notin OpToRel(<, Nat)
    <3> HIDE DEF Levels
    <3> QED  BY <2>1, WFMin, NatLessThanWellFounded
  <2>3. PICK f \in Odd : Level(f) = n
    BY <2>2
  <2> DEFINE d == tree.parent[f]
  <2>4. d # Root /\ d \in tree.dirs /\ ~(Ancestors(d) \subseteq tree.dirs)
    BY <1>1, <2>3
  <2>5. d \in Odd
    BY <1>1, <2>3, <2>4
  <2>6. Level(d) \in Levels /\ Level(d) \in Nat /\ n \in Nat /\ Level(d) < n
    BY <1>1, <2>1, <2>3, <2>5
  <2> QED  BY <2>2, <2>6 DEF OpToRel
<1> QED  BY <1>2
-----------------------------------------------------------------------------
(* The steps.                                                              *)

LEMMA SetInitInv == SetInit => SetInv
<1> SUFFICES ASSUME SetInit PROVE SetInv
  OBVIOUS
<1>1. IInv
  BY InitInv DEF SetInit
<1>2. SetTypeOK /\ PhaseInv /\ ChangeInv /\ ReadInv
  BY DEF SetInit, Init, SetTypeOK, PhaseInv, ChangeInv, ReadInv, Done, InWalk
<1>3. FailureIsReported /\ QuietIsDone
  BY DEF SetInit, FailureIsReported, QuietIsDone
<1> QED  BY <1>1, <1>2, <1>3 DEF SetInv

(* Before the walk: the handle itself.                                     *)
LEMMA SetSelfStep ==
  ASSUME SetInv, SetSelf \/ SetSelfFails
  PROVE  SetInv'
<1>1. /\ UNCHANGED <<vars, recursive, failed>> /\ doing = "self" /\ doing' # "self"
      /\ \/ /\ changed' = {Root} /\ error' = error
            /\ doing' = IF recursive THEN "opendir" ELSE "none"
         \/ changed' = changed /\ error' = TRUE /\ doing' = "null"
  BY DEF SetSelf, SetSelfFails
<1>2. /\ UNCHANGED <<pc, rv, cb, visited, failures>> /\ pc = "new" /\ changed = {} /\ visited = {}
      /\ ~failed /\ ~error /\ "read" \notin failures
  BY <1>1 DEF SetInv, SetTypeOK, PhaseInv, ChangeInv, ReadInv, vars, cbvars, locals, history, Done
<1>3. IInv'
  BY <1>1, StutterStep DEF SetInv
<1>4. SetTypeOK' /\ PhaseInv'
  <2>1. CASE changed' = {Root} /\ error' = error
    BY <1>1, <1>2, <2>1 DEF SetInv, SetTypeOK, PhaseInv, Done
  <2>2. CASE changed' = changed /\ error' = TRUE /\ doing' = "null"
    BY <1>1, <1>2, <2>2 DEF SetInv, SetTypeOK, PhaseInv, Done
  <2> QED  BY <1>1, <2>1, <2>2
<1>5. ChangeInv' /\ ReadInv'
  BY <1>1, <1>2 DEF ChangeInv, ReadInv
<1>6. fds = {} /\ objs = {}
  <2>1. IInv /\ children = <<>> /\ Len(children) = 0
    BY <1>1, <1>2, EmptySeq DEF SetInv, IInv, ReturnInv
  <2>2. OnList = {}
    BY <2>1 DEF OnList
  <2> QED  BY <1>2, <2>1, <2>2 DEF IInv, HeldExactly
<1>7. fds' = {} /\ objs' = {} /\ recursive' = recursive
  BY <1>1, <1>6 DEF vars
<1>8. FailureIsReported' /\ QuietIsDone'
  BY <1>1, <1>2, <1>7 DEF FailureIsReported, QuietIsDone
<1> QED  BY <1>3, <1>4, <1>5, <1>8 DEF SetInv

LEMMA OpenSelfStep ==
  ASSUME SetInv, OpenSelf \/ OpenSelfFails \/ StartWalk
  PROVE  SetInv'
<1>1. UNCHANGED <<recursive, failed, changed, visited, lost>>
  BY DEF OpenSelf, OpenSelfFails, StartWalk, OpenRoot, Start, vars, history
<1>2. tree' = tree
  BY DEF OpenSelf, OpenSelfFails, StartWalk, OpenRoot, Start, vars, cbvars
<1>3. ~failed
  BY DEF OpenSelf, OpenSelfFails, StartWalk, SetInv, ChangeInv
<1>4. ChangeInv' /\ ReadInv'
  <2>1. "read" \notin failures'
    BY DEF OpenSelf, OpenSelfFails, StartWalk, OpenRoot, Start, vars, history, SetInv, PhaseInv, ReadInv
  <2> QED  BY <1>1, <1>2, <1>3, <2>1, TreeFrame DEF SetInv, ChangeInv, ReadInv
<1>5. CASE OpenSelf
  <2>1. /\ doing = "opendir" /\ doing' = "walk" /\ error' = error
        /\ pc' = "idle" /\ cb' = [recurse |-> TRUE, max_depth |-> -1]
    BY <1>5 DEF OpenSelf, OpenRoot
  <2>2. IInv'
    BY <1>5, <2>1, OpenRootStep, UnlimitedAssumption DEF OpenSelf, SetInv
  <2> QED
    BY <1>1, <1>4, <2>1, <2>2 DEF SetInv, SetTypeOK, PhaseInv, FailureIsReported,
       QuietIsDone, Done
<1>6. CASE OpenSelfFails
  <2>1. doing = "opendir" /\ doing' = "none" /\ error' = TRUE /\ pc' = pc /\ pc = "new"
    BY <1>6 DEF OpenSelfFails, vars, SetInv, PhaseInv
  <2> QED
    BY <1>1, <1>4, <2>1 DEF SetInv, SetTypeOK, PhaseInv, FailureIsReported,
       QuietIsDone, Exhausted, Done
<1>7. CASE StartWalk
  <2>1. /\ doing = "walk" /\ doing' = "walking" /\ error' = error
        /\ pc = "idle" /\ pc' = "read" /\ cb' = cb
    BY <1>7 DEF StartWalk, Start, cbvars
  <2>2. IInv'
    BY <1>7, <2>1, StartStep DEF StartWalk, SetInv
  <2> QED
    BY <1>1, <1>4, <2>1, <2>2 DEF SetInv, SetTypeOK, PhaseInv, FailureIsReported,
       QuietIsDone, InWalk, Done
<1> QED  BY <1>5, <1>6, <1>7

(* The volume and the parameters of a walk stay as they are.               *)
LEMMA WalkFrame ==
  ASSUME Read \/ AddChild \/ \E ok \in BOOLEAN : Callback(ok)
  PROVE  UNCHANGED <<tree, cb>>
BY DEF Read, ReadEntry, ReadDot, ReadEndOfChild, ReadEndOfRoot, ReadFails, AddChild,
   CopyObject, CopyFails, OpenChild, OpenChildFails, PushChild, PathFails, ChildLost,
   Callback, cbvars

LEMMA SetWalksStep ==
  ASSUME SetInv, Walks
  PROVE  SetInv'
<1>1. doing = "walking" /\ UNCHANGED svars /\ (Read \/ AddChild) /\ IInv
  BY DEF Walks, SetInv
<1>2. IInv'
  BY <1>1, NextInv DEF Next, IterStep
<1>3. /\ InWalk /\ visited' = visited
      /\ InWalk' \/ (pc' = "idle" /\ rv' \in {-1, 0})
  BY <1>1, WalksOn
<1>4. UNCHANGED <<tree, cb>>
  BY <1>1, WalkFrame
<1>5. ~failed
  BY <1>3 DEF SetInv, ChangeInv, InWalk
<1>6. SetTypeOK' /\ PhaseInv'
  BY <1>1, <1>3, <1>4 DEF SetInv, SetTypeOK, PhaseInv, svars, InWalk
<1>7. ChangeInv'
  BY <1>1, <1>3, <1>4, <1>5, TreeFrame DEF SetInv, ChangeInv, svars
<1>8. FailureIsReported' /\ QuietIsDone'
  BY <1>1 DEF FailureIsReported, QuietIsDone, svars
<1>9. ReadInv'
  <2>1. "read" \notin failures
    BY <1>3 DEF SetInv, ReadInv, InWalk
  <2>2. CASE ReadFails
    BY <2>2 DEF ReadFails, Break, ReadInv
  <2>3. CASE (Read /\ ~ReadFails) \/ AddChild
    <3>1. "read" \notin failures'
      BY <2>1, <2>3 DEF Read, ReadEntry, ReadDot, ReadEndOfChild, ReadEndOfRoot, AddChild, CopyObject,
         CopyFails, OpenChild, OpenChildFails, PushChild, PathFails, ChildLost, history
    <3> QED  BY <3>1 DEF ReadInv
  <2> QED  BY <1>1, <2>2, <2>3
<1> QED  BY <1>2, <1>6, <1>7, <1>8, <1>9 DEF SetInv

(* setattrs_cb() succeeds.                                                 *)
LEMMA SetEntryStep ==
  ASSUME SetInv, SetEntry
  PROVE  SetInv'
<1>1. /\ doing = "walking" /\ UNCHANGED <<recursive, doing, failed, error>>
      /\ changed' = changed \cup {entry}
      /\ pc = "call" /\ pc' = "read" /\ visited' = visited \cup {entry} /\ failures' = failures
  BY DEF SetEntry, Callback
<1>2. IInv /\ IInv'
  BY <1>1, NextInv DEF SetInv, SetEntry, Next, IterStep
<1>3. entry \in Entry \ visited /\ entry # Root
  BY <1>1, <1>2, NamesAssumption DEF IInv, FlightInv, InFlight
<1>4. UNCHANGED <<tree, cb>>
  BY WalkFrame DEF SetEntry
<1>5. ~failed /\ visited = changed \ {Root} /\ Root \in changed
  BY <1>1 DEF SetInv, SetTypeOK, ChangeInv, Done
<1>6. SetTypeOK' /\ PhaseInv'
  BY <1>1, <1>3, <1>4 DEF SetInv, SetTypeOK, PhaseInv, InWalk, Done
<1>7. ChangeInv'
  <2>1. visited' = changed' \ {Root}
    BY <1>1, <1>3, <1>5
  <2>2. \A e \in visited' : (Ancestors(e) \subseteq visited)'
    BY <1>2 DEF IInv, PreOrder
  <2> QED  BY <1>1, <1>5, <2>1, <2>2 DEF ChangeInv
<1>8. FailureIsReported' /\ QuietIsDone'
  BY <1>1 DEF FailureIsReported, QuietIsDone
<1>9. ReadInv'
  BY <1>1 DEF SetInv, ReadInv
<1> QED  BY <1>2, <1>6, <1>7, <1>8, <1>9 DEF SetInv

(* It fails, and the walk breaks.                                          *)
LEMMA SetEntryFailsStep ==
  ASSUME SetInv, SetEntryFails
  PROVE  SetInv'
<1>1. /\ doing = "walking" /\ doing' \in {"walking", "crashed"}
      /\ UNCHANGED <<recursive, error, changed>> /\ failed' = TRUE
  BY DEF SetEntryFails
<1>2. IInv /\ IInv'
  BY <1>1, NextInv DEF SetInv, SetEntryFails, Next, IterStep
<1>3. /\ pc = "call" /\ pc' = "idle" /\ rv' = -2
      /\ entry \in Entry \ visited /\ visited' = visited \cup {entry}
  BY <1>2, CallbackBreaks DEF SetEntryFails
<1>4. UNCHANGED <<tree, cb>>
  BY WalkFrame DEF SetEntryFails
<1>5. ~failed /\ visited = changed \ {Root}
  BY <1>3 DEF SetInv, ChangeInv
<1>6. SetTypeOK' /\ PhaseInv'
  BY <1>1, <1>3, <1>4 DEF SetInv, SetTypeOK, PhaseInv, Done
<1>7. ChangeInv'
  BY <1>1, <1>3, <1>4, <1>5, TreeFrame DEF SetInv, ChangeInv
<1>8. FailureIsReported' /\ QuietIsDone'
  BY <1>1 DEF FailureIsReported, QuietIsDone
<1>9. ReadInv'
  <2>1. failures' = failures
    BY DEF SetEntryFails, Callback
  <2> QED  BY <1>3, <2>1 DEF SetInv, ReadInv
<1> QED  BY <1>2, <1>6, <1>7, <1>8, <1>9 DEF SetInv

(* The walk is unlimited, so what is due is all that is not below a        *)
(* directory that was given up.                                            *)
LEMMA DueOfUnlimited ==
  ASSUME TypeOK, cb = [recurse |-> TRUE, max_depth |-> -1]
  PROVE  Due = {e \in Entry : Ancestors(e) \cap lost = {}}
<1>1. ASSUME NEW e \in Entry
      PROVE  (\A a \in Ancestors(e) : Descended(a)) <=> Ancestors(e) \cap lost = {}
  <2>1. Ancestors(e) \subseteq tree.dirs /\ tree.dirs \subseteq Entry
    BY AncestorsAreDirs, TreeFacts DEF TypeOK
  <2>2. \A a \in Ancestors(e) : Descended(a) <=> a \notin lost
    BY <2>1, NamesAssumption DEF Descended
  <2> QED  BY <2>2
<1> QED  BY <1>1 DEF Due

LEMMA ReturnStep ==
  ASSUME SetInv, Return
  PROVE  SetInv'
<1>1. /\ doing = "walking" /\ doing' = "none" /\ pc = "idle" /\ rv \in {-2, -1, 0}
      /\ error' = (rv < 0) /\ fds' = fds \ {Root} /\ recursive /\ IInv
      /\ cb = [recurse |-> TRUE, max_depth |-> -1]
      /\ UNCHANGED <<tree, cb, root, children, sz, entry, rv, objs, pc, visited, lost, failures,
                     recursive, failed, changed>>
  BY DEF Return, SetInv, PhaseInv, cbvars, locals, history
<1>2. \A d : Ancestors(d)' = Ancestors(d)
  BY <1>1, TreeFrame
<1>a. error' <=> rv # 0
  <2>1. (rv < 0) <=> (rv # 0)
    BY <1>1
  <2> QED  BY <1>1, <2>1, Zenon
<1>3. SetTypeOK' /\ PhaseInv'
  BY <1>1 DEF SetInv, SetTypeOK, PhaseInv, Done
<1>4. ChangeInv'
  BY <1>1, <1>2 DEF SetInv, ChangeInv
<1>5. FailureIsReported' /\ ReadInv'
  BY <1>1, <1>a DEF FailureIsReported, ReadInv, SetInv, ChangeInv
<1>6. QuietIsDone'
  <2>1. SUFFICES ASSUME ~error', ~ReadLost
                 PROVE  /\ fds' = {} /\ objs' = {}
                        /\ changed = {Root} \cup {e \in Entry : Ancestors(e) \cap lost = {}}
    BY <1>1, <1>2 DEF QuietIsDone, ReadLost
  <2>2. Exhausted /\ ~failed
    BY <1>1, <1>a, <2>1 DEF Exhausted, ReadLost, SetInv, ChangeInv, ReadInv
  <2>3. visited = {e \in Entry : Ancestors(e) \cap lost = {}}
    BY <1>1, <2>2, EndIsComplete, DueOfUnlimited DEF Complete, IInv
  <2>4. visited = changed \ {Root} /\ Root \in changed
    BY <1>1, <2>2 DEF SetInv, SetTypeOK, ChangeInv, Done
  <2>5. children = <<>> /\ Len(children) = 0
    BY <1>1, <2>2, EmptySeq DEF IInv, ReturnInv, Exhausted
  <2>6. OnList = {}
    BY <2>5 DEF OnList
  <2>7. fds' = {} /\ objs' = {}
    BY <1>1, <2>6 DEF IInv, HeldExactly
  <2> QED  BY <2>3, <2>4, <2>7
<1> QED  BY <1>1, <1>3, <1>4, <1>5, <1>6 DEF SetInv

LEMMA SetStutterStep ==
  ASSUME SetInv, UNCHANGED setvars
  PROVE  SetInv'
<1>1. UNCHANGED vars /\ UNCHANGED svars
  BY DEF setvars
<1>2. UNCHANGED <<tree, cb, entry, rv, fds, objs, pc, visited, lost, failures>>
  BY <1>1 DEF vars, cbvars, locals, history
<1>3. doing' # "none" => IInv'
  BY <1>1, StutterStep DEF SetInv, svars
<1>4. SetTypeOK' /\ PhaseInv'
  BY <1>1, <1>2 DEF SetInv, SetTypeOK, PhaseInv, InWalk, svars
<1>5. ChangeInv' /\ ReadInv' /\ QuietIsDone'
  BY <1>1, <1>2, TreeFrame DEF SetInv, ChangeInv, ReadInv, QuietIsDone, ReadLost, svars
<1>6. FailureIsReported'
  BY <1>1, <1>2 DEF SetInv, FailureIsReported, Exhausted, svars
<1> QED  BY <1>3, <1>4, <1>5, <1>6 DEF SetInv

LEMMA SetInvariance == SetSpec => []SetInv
<1>1. SetInv /\ [SetNext]_setvars => SetInv'
  BY SetSelfStep, OpenSelfStep, SetWalksStep, SetEntryStep, SetEntryFailsStep, ReturnStep,
     SetStutterStep DEF SetNext
<1> QED  BY SetInitInv, <1>1, PTL DEF SetSpec
-----------------------------------------------------------------------------
(* The variables keep their types.                                         *)
THEOREM SetTypeCorrect == SetSpec => []SetTypeOK
BY SetInvariance, PTL DEF SetInv

(* A partial change is a change from the top: whatever has failed, what    *)
(* was changed is closed upwards, and at most one entry is not changed of  *)
(* those that the walk delivered.                                          *)
THEOREM ChangesGoDown == SetSpec => []ChangedFromTop
<1>1. ASSUME SetInv PROVE ChangedFromTop
  <2>1. Pending = {} \/ \E e : Pending = {e}
    <3>1. CASE ~failed
      BY <1>1, <3>1 DEF SetInv, ChangeInv, Pending
    <3>2. CASE failed
      <4>1. PICK e \in Entry : visited = (changed \ {Root}) \cup {e}
        BY <1>1, <3>2 DEF SetInv, ChangeInv
      <4>2. Pending = {} \/ Pending = {e}
        BY <4>1 DEF Pending
      <4> QED  BY <4>2
    <3> QED  BY <3>1, <3>2
  <2>2. Cardinality(Pending) \in {0, 1}
    BY <2>1, FS_EmptySet, FS_Singleton
  <2> QED  BY <1>1, <2>2 DEF SetInv, ChangeInv, ChangedFromTop
<1> QED  BY SetInvariance, <1>1, PTL

(* A setattrs() that returns has reported its callback's failure, and that *)
(* of a read with an entry in hand.                                        *)
THEOREM ReturnReportsFailure == SetSpec => []FailureIsReported
BY SetInvariance, PTL DEF SetInv

(* setattrs() that ends without an error has changed all it is to change.  *)
THEOREM QuietMeansAllChanged == SetSpec => []QuietIsDone
BY SetInvariance, PTL DEF SetInv

(* A directory below the handle is opened, then changed, then read.        *)
THEOREM ChangedBetween == SetSpec => []OpenChangeRead
<1>1. ASSUME SetInv, pc \in {"copy", "opendir", "push"} PROVE entry \notin changed
  <2>1. doing # "none" /\ InFlight
    BY <1>1 DEF SetInv, PhaseInv, InFlight
  <2>2. entry \in Entry \ visited /\ entry # Root
    BY <1>1, <2>1, NamesAssumption DEF SetInv, IInv, FlightInv
  <2> QED  BY <1>1, <2>2 DEF SetInv, ChangeInv
<1>2. ASSUME SetInv, doing = "walking", pc = "read" PROVE OnList \subseteq changed
  <2>1. \A i \in 1..Len(children) : children[i].dir \in visited
    BY <1>2 DEF SetInv, IInv, ListInv
  <2>2. visited \subseteq changed
    BY <1>2 DEF SetInv, ChangeInv
  <2> QED  BY <2>1, <2>2 DEF OnList
<1>3. SetInv => OpenChangeRead
  BY <1>1, <1>2 DEF OpenChangeRead
<1> QED  BY SetInvariance, <1>3, PTL

(* What setattrs() changes it changes in an order that TreeWalk allows: up *)
(* to and over its return it is a walk of the tree without a limit.        *)
THEOREM SetWalkRefinement == SetSpec => ImplementsTreeWalk
<1>1. SetInit => Walk!Init
  BY WalkInit DEF SetInit
<1>2. ASSUME SetInv, SetInv', [SetNext]_setvars
      PROVE  [Walk!Next]_Walk!wvars
  <2>1. CASE Return
    BY <2>1 DEF Return, cbvars, locals, history, Walk!wvars, Exhausted
  <2>2. CASE OpenSelfFails \/ UNCHANGED setvars
    BY <2>2 DEF OpenSelfFails, setvars, vars, cbvars, locals, history, Walk!wvars, Exhausted
  <2>3. CASE SetSelf \/ SetSelfFails
    BY <2>3 DEF SetSelf, SetSelfFails, vars, cbvars, locals, history, Walk!wvars, Exhausted
  <2>4. CASE OpenSelf \/ StartWalk \/ Walks \/ SetEntry \/ SetEntryFails
    <3>1. Next
      BY <2>4, UnlimitedAssumption DEF OpenSelf, StartWalk, Walks, SetEntry, SetEntryFails,
         Next, IterStep
    <3>2. IInv /\ IInv'
      BY <1>2, <2>4 DEF SetInv, OpenSelf, StartWalk, Walks, SetEntry, SetEntryFails, svars
    <3> QED  BY <3>1, <3>2, WalkStep
  <2> QED  BY <1>2, <2>1, <2>2, <2>3, <2>4 DEF SetNext
<1> QED  BY SetInvariance, <1>1, <1>2, PTL DEF SetSpec, Walk!Spec, ImplementsTreeWalk
=============================================================================
