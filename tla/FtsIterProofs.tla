----------------------------- MODULE FtsIterProofs -----------------------------
(***************************************************************************)
(* Proofs about FtsIter: the iterator keeps the specification of the walk  *)
(* below it, so what ObjectIterProofs says holds for it, too, and between  *)
(* the walk and Python nothing is skipped, mixed up or closed wrongly.     *)
(***************************************************************************)
EXTENDS FtsIter, ObjectIterProofs, FiniteSetTheorems

-----------------------------------------------------------------------------
(* The walk below.                                                         *)

LEMMA FtsInitIsInit == FtsInit => Init
BY DEF FtsInit

LEMMA FtsStepIsStep ==
  ASSUME [FtsNext]_ftsvars
  PROVE  [Next]_vars
<1>1. CASE \E r \in BOOLEAN, d \in MaxDepths : Iter(r, d)
  BY <1>1 DEF Iter, Next
<1>2. CASE \E garbage \in BOOLEAN : IterFails(garbage)
  BY <1>2 DEF IterFails
<1>3. CASE NextBegins
  BY <1>3 DEF NextBegins, Next
<1>4. CASE Walks
  BY <1>4 DEF Walks, Next, IterStep
<1>5. CASE CopyEntry
  BY <1>5 DEF CopyEntry
<1>6. CASE CopyEntryFails \/ BuildEntry \/ \E owned \in BOOLEAN : BuildFails(owned)
  <2>1. Callback(FALSE)
    BY <1>6 DEF CopyEntryFails, BuildEntry, BuildFails
  <2> QED  BY <2>1 DEF Next, IterStep
<1>7. CASE NextReturns
  BY <1>7 DEF NextReturns
<1>8. CASE \E e \in Entry : DropEntry(e)
  BY <1>8 DEF DropEntry
<1>9. CASE DropIterator
  BY <1>9 DEF DropIterator, Next
<1>10. CASE UNCHANGED ftsvars
  BY <1>10 DEF ftsvars
<1> QED  BY <1>1, <1>2, <1>3, <1>4, <1>5, <1>6, <1>7, <1>8, <1>9, <1>10 DEF FtsNext, NextStep

(* What ObjectIterProofs says of the walk holds under the iterator.        *)
LEMMA WalkKept == FtsSpec => Spec
BY FtsInitIsInit, FtsStepIsStep, PTL DEF FtsSpec, Spec
-----------------------------------------------------------------------------
(* The inductive invariant.                                                *)

(* A next() starts clean, and holds a copy only while its entry is in the  *)
(* callback.                                                               *)
CallInv ==
  /\ InWalk => running
  /\ running => InWalk \/ pc = "idle"
  /\ newobj # NULL => pc = "call" /\ newobj = entry
  /\ InWalk => out = NULL /\ ~copy_failed
  /\ ~running \/ InWalk => error = "none"
  /\ ~running => out \in yielded \cup {NULL}

(* The outcomes of a callback: an entry, no copy, or no FTSEntry.          *)
Outcome ==
  \/ out = entry /\ error = "none" /\ ~copy_failed
  \/ out = NULL /\ error = "none" /\ copy_failed
  \/ out = NULL /\ error = "error" /\ ~copy_failed

(* What the walk delivered is accounted for, but for the one entry a       *)
(* next() that is about to return has in hand.                             *)
AccountInv ==
  /\ yielded \cap refused = {}
  /\ held \subseteq yielded
  /\ ~running \/ InWalk => visited = yielded \cup refused
  /\ running /\ pc = "idle" =>
       \/ /\ rv = -2 /\ Outcome
          /\ entry \in Entry \ (yielded \cup refused)
          /\ visited = yielded \cup refused \cup {entry}
       \/ /\ rv \in {-1, 0}
          /\ out = NULL /\ error = "none" /\ ~copy_failed
          /\ visited = yielded \cup refused

(* An entry that is handed to Python was built.                            *)
BuiltInv == out \notin stranded

(* Before the walk nothing was answered; a call of the walk returns 0 just *)
(* when it has no entry in hand.                                           *)
EndInv ==
  /\ pc = "new" => answer = "none"
  /\ pc = "idle" /\ rv = 0 => entry = NULL
  /\ running /\ pc = "idle" => rv = 0 \/ entry # NULL

FtsInv ==
  /\ IInv /\ FtsTypeOK
  /\ CallInv /\ AccountInv /\ BuiltInv /\ CopiesOwned /\ NeverBoth

LEMMA FtsInitInv == FtsInit => FtsInv
<1> SUFFICES ASSUME FtsInit PROVE FtsInv
  OBVIOUS
<1>1. IInv
  BY InitInv, FtsInitIsInit
<1>2. FtsTypeOK /\ CallInv /\ AccountInv /\ BuiltInv /\ CopiesOwned /\ NeverBoth
  BY DEF FtsInit, Init, FtsTypeOK, CallInv, AccountInv, BuiltInv, CopiesOwned, NeverBoth, InWalk
<1> QED  BY <1>1, <1>2 DEF FtsInv

LEMMA WalksStep ==
  ASSUME FtsInv, IInv', Walks
  PROVE  FtsInv'
<1>1. /\ InWalk /\ pc # "call"
      /\ visited' = visited
      /\ \/ InWalk'
         \/ pc' = "idle" /\ rv' \in {-1, 0}
  BY WalksOn DEF Walks, FtsInv
<1>2. UNCHANGED fvars /\ running
  BY DEF Walks
<1>3. newobj = NULL
  BY <1>1 DEF FtsInv, CallInv
<1>4. FtsTypeOK' /\ NeverBoth' /\ BuiltInv' /\ CopiesOwned'
  BY <1>1, <1>2 DEF FtsInv, FtsTypeOK, NeverBoth, BuiltInv, CopiesOwned, fvars, state, python
<1>5. CallInv'
  BY <1>1, <1>2, <1>3 DEF FtsInv, CallInv, InWalk, fvars, state, python
<1>6. AccountInv'
  BY <1>1, <1>2 DEF FtsInv, CallInv, AccountInv, InWalk, fvars, state, python
<1> QED  BY <1>4, <1>5, <1>6 DEF FtsInv

(* iter(), and the deallocation of the iterator.                           *)
LEMMA OutsideStep ==
  ASSUME FtsInv, IInv',
         \/ \E r \in BOOLEAN, d \in MaxDepths : Iter(r, d)
         \/ DropIterator
  PROVE  FtsInv'
<1>1. /\ UNCHANGED fvars /\ UNCHANGED visited
      /\ ~InWalk /\ ~InWalk' /\ pc' \in {"idle", "freed"} /\ ~running
  BY DEF Iter, OpenRoot, DropIterator, Cleanup, history, InWalk, FtsInv, CallInv
<1>2. newobj = NULL
  BY <1>1 DEF FtsInv, CallInv, InWalk
<1>3. FtsTypeOK' /\ NeverBoth' /\ BuiltInv' /\ CopiesOwned'
  BY <1>1 DEF FtsInv, FtsTypeOK, NeverBoth, BuiltInv, CopiesOwned, fvars, state, python
<1>4. CallInv' /\ AccountInv'
  BY <1>1, <1>2 DEF FtsInv, CallInv, AccountInv, fvars, state, python
<1> QED  BY <1>3, <1>4 DEF FtsInv

LEMMA NextBeginsStep ==
  ASSUME FtsInv, IInv', NextBegins
  PROVE  FtsInv'
<1>1. /\ UNCHANGED visited /\ pc' = "read" /\ pc = "idle"
      /\ ~running /\ running' = TRUE /\ out' = NULL /\ copy_failed' = FALSE
      /\ UNCHANGED <<newobj, error, answer, held, wild, yielded, refused, copies, stranded>>
  BY DEF NextBegins, Start
<1>2. newobj = NULL /\ out \in yielded \cup {NULL} /\ error = "none"
  BY <1>1 DEF FtsInv, CallInv
<1>3. FtsTypeOK' /\ NeverBoth'
  BY <1>1 DEF FtsInv, FtsTypeOK, NeverBoth
<1>4. BuiltInv' /\ CopiesOwned'
  BY <1>1, <1>2, NamesAssumption DEF FtsInv, FtsTypeOK, BuiltInv, CopiesOwned
<1>5. CallInv' /\ AccountInv'
  BY <1>1, <1>2 DEF FtsInv, CallInv, AccountInv, InWalk
<1> QED  BY <1>3, <1>4, <1>5 DEF FtsInv

LEMMA CopyEntryStep ==
  ASSUME FtsInv, IInv', CopyEntry
  PROVE  FtsInv'
<1>1. /\ UNCHANGED <<vars, out, copy_failed, error, python, stranded>>
      /\ pc = "call" /\ newobj = NULL /\ newobj' = entry
      /\ copies' = copies \cup {entry}
  BY DEF CopyEntry
<1>2. /\ UNCHANGED <<pc, entry, rv, visited, running, answer, held, wild, yielded, refused>>
      /\ entry \in Entry \ visited /\ InWalk /\ out = NULL
  BY <1>1 DEF vars, locals, history, python, FtsInv, IInv, FlightInv, InFlight, CallInv, InWalk
<1>3. FtsTypeOK' /\ NeverBoth'
  BY <1>1, <1>2 DEF FtsInv, FtsTypeOK, NeverBoth
<1>4. entry \notin yielded /\ entry # NULL
  BY <1>2, NamesAssumption DEF FtsInv, AccountInv
<1>5. BuiltInv' /\ CopiesOwned'
  BY <1>1, <1>2, <1>4 DEF FtsInv, BuiltInv, CopiesOwned
<1>6. CallInv' /\ AccountInv'
  BY <1>1, <1>2 DEF FtsInv, CallInv, AccountInv, InWalk
<1> QED  BY <1>3, <1>5, <1>6 DEF FtsInv

(* The three ways a callback ends.                                         *)
LEMMA CallbackEnds ==
  ASSUME FtsInv, Callback(FALSE), newobj' = NULL,
         UNCHANGED <<running, answer, held, wild, yielded, refused>>,
         Outcome'
  PROVE  CallInv' /\ AccountInv' /\ NeverBoth'
<1>1. /\ pc = "call" /\ pc' = "idle" /\ rv' = -2
      /\ entry \in Entry \ visited /\ entry' = entry
      /\ visited' = visited \cup {entry}
  BY CallbackBreaks DEF FtsInv
<1>2. InWalk /\ running /\ visited = yielded \cup refused
  BY <1>1 DEF InWalk, FtsInv, CallInv, AccountInv
<1>3. CallInv'
  BY <1>1, <1>2 DEF CallInv, InWalk
<1>4. AccountInv'
  BY <1>1, <1>2 DEF FtsInv, AccountInv, InWalk
<1> QED  BY <1>3, <1>4 DEF FtsInv, NeverBoth

LEMMA CopyEntryFailsStep ==
  ASSUME FtsInv, IInv', CopyEntryFails
  PROVE  FtsInv'
<1>1. /\ Callback(FALSE) /\ newobj = NULL /\ copy_failed' = TRUE
      /\ UNCHANGED <<newobj, out, error, python, copies, stranded>>
  BY DEF CopyEntryFails
<1>2. UNCHANGED <<running, answer, held, wild, yielded, refused>>
  BY <1>1 DEF python
<1>3. InWalk /\ visited \subseteq visited'
  BY <1>1, CallbackBreaks DEF InWalk, FtsInv
<1>4. Outcome'
  BY <1>1, <1>3 DEF Outcome, FtsInv, CallInv
<1>5. CallInv' /\ AccountInv' /\ NeverBoth'
  BY <1>1, <1>2, <1>4, CallbackEnds
<1>6. FtsTypeOK'
  BY <1>1, <1>2 DEF FtsInv, FtsTypeOK
<1>7. BuiltInv' /\ CopiesOwned'
  BY <1>1, <1>2, <1>3 DEF FtsInv, BuiltInv, CopiesOwned
<1> QED  BY <1>5, <1>6, <1>7 DEF FtsInv

LEMMA BuildEntryStep ==
  ASSUME FtsInv, IInv', BuildEntry
  PROVE  FtsInv'
<1>1. /\ Callback(FALSE) /\ newobj # NULL /\ out' = newobj /\ newobj' = NULL
      /\ UNCHANGED <<copy_failed, error, python, copies, stranded>>
  BY DEF BuildEntry
<1>2. UNCHANGED <<running, answer, held, wild, yielded, refused>>
  BY <1>1 DEF python
<1>3. InWalk /\ visited' = visited \cup {entry} /\ entry' = entry /\ entry \in Entry \ visited
  BY <1>1, CallbackBreaks DEF InWalk, FtsInv
<1>4. newobj = entry /\ out = NULL /\ error = "none" /\ ~copy_failed
  BY <1>1, <1>3 DEF FtsInv, CallInv
<1>5. Outcome'
  BY <1>1, <1>3, <1>4 DEF Outcome
<1>6. CallInv' /\ AccountInv' /\ NeverBoth'
  BY <1>1, <1>2, <1>5, CallbackEnds
<1>7. FtsTypeOK'
  BY <1>1, <1>2 DEF FtsInv, FtsTypeOK
<1>8. BuiltInv' /\ CopiesOwned'
  BY <1>1, <1>2, <1>3, <1>4, NamesAssumption DEF FtsInv, BuiltInv, CopiesOwned
<1> QED  BY <1>6, <1>7, <1>8 DEF FtsInv

LEMMA BuildFailsStep ==
  ASSUME FtsInv, IInv', NEW owned \in BOOLEAN, BuildFails(owned)
  PROVE  FtsInv'
<1>1. /\ Callback(FALSE) /\ newobj # NULL /\ error' = "error" /\ newobj' = NULL
      /\ UNCHANGED <<out, copy_failed, python>>
  BY DEF BuildFails
<1>2. UNCHANGED <<running, answer, held, wild, yielded, refused>>
  BY <1>1 DEF python
<1>3. /\ InWalk /\ visited' = visited \cup {entry} /\ entry' = entry
      /\ entry \in Entry \ visited
  BY <1>1, CallbackBreaks DEF InWalk, FtsInv
<1>4. newobj = entry /\ out = NULL /\ ~copy_failed
  BY <1>1, <1>3 DEF FtsInv, CallInv
<1>5. Outcome'
  BY <1>1, <1>4 DEF Outcome
<1>6. CallInv' /\ AccountInv' /\ NeverBoth'
  BY <1>1, <1>2, <1>5, CallbackEnds
<1>7. entry \notin yielded /\ entry \notin held /\ entry \notin stranded
  BY <1>3 DEF FtsInv, AccountInv, CallInv, BuiltInv, CopiesOwned
<1>8. CASE owned
  <2>1. copies' = copies \ {entry} /\ stranded' = stranded
    BY <1>4, <1>8 DEF BuildFails
  <2>2. FtsTypeOK'
    BY <1>1, <1>2, <2>1 DEF FtsInv, FtsTypeOK
  <2>3. BuiltInv' /\ CopiesOwned'
    BY <1>1, <1>2, <1>3, <1>4, <1>7, <2>1 DEF FtsInv, BuiltInv, CopiesOwned
  <2> QED  BY <1>6, <2>2, <2>3 DEF FtsInv
<1>9. CASE ~owned
  <2>1. copies' = copies /\ stranded' = stranded \cup {entry}
    BY <1>4, <1>9 DEF BuildFails
  <2>2. FtsTypeOK'
    BY <1>1, <1>2, <1>3, <2>1 DEF FtsInv, FtsTypeOK
  <2>3. BuiltInv' /\ CopiesOwned'
    BY <1>1, <1>2, <1>3, <1>4, <1>7, <2>1 DEF FtsInv, BuiltInv, CopiesOwned
  <2> QED  BY <1>6, <2>2, <2>3 DEF FtsInv
<1> QED  BY <1>8, <1>9

LEMMA NextReturnsStep ==
  ASSUME FtsInv, IInv', NextReturns
  PROVE  FtsInv'
<1>1. /\ UNCHANGED vars /\ UNCHANGED <<newobj, out, copy_failed, copies, wild, stranded>>
      /\ running /\ pc = "idle" /\ running' = FALSE /\ answer' = Answer /\ error' = "none"
      /\ refused' = IF Raised = "error" THEN visited \ yielded ELSE refused
  BY DEF NextReturns
<1>2. UNCHANGED <<pc, visited, entry, rv>>
  BY <1>1 DEF vars, locals, history
<1>3. newobj = NULL /\ ~InWalk /\ ~InWalk'
  BY <1>1, <1>2 DEF FtsInv, CallInv, InWalk
<1>4. CASE out # NULL
  <2>1. /\ rv = -2 /\ out = entry /\ error = "none" /\ ~copy_failed
        /\ entry \in Entry \ (yielded \cup refused)
        /\ visited = yielded \cup refused \cup {entry}
    BY <1>1, <1>4 DEF FtsInv, AccountInv, Outcome
  <2>2. Raised = "none" /\ Answer = "item"
    BY <1>4, <2>1 DEF Raised, Answer
  <2>3. held' = held \cup {out} /\ yielded' = yielded \cup {out} /\ refused' = refused
    BY <1>1, <1>4, <2>2 DEF NextReturns
  <2>4. FtsTypeOK' /\ NeverBoth'
    BY <1>1, <2>1, <2>2, <2>3 DEF FtsInv, FtsTypeOK, NeverBoth
  <2>5. CallInv' /\ AccountInv'
    BY <1>1, <1>2, <1>3, <2>1, <2>3 DEF FtsInv, CallInv, AccountInv
  <2>6. stranded \subseteq refused /\ out \notin stranded /\ copies = held \cup stranded \cup {out}
    BY <1>3, <1>4, <2>1, NamesAssumption DEF FtsInv, BuiltInv, CopiesOwned
  <2>7. BuiltInv' /\ CopiesOwned'
    BY <1>1, <1>2, <1>3, <2>1, <2>3, <2>6 DEF FtsInv, AccountInv, BuiltInv, CopiesOwned
  <2> QED  BY <2>4, <2>5, <2>7 DEF FtsInv
<1>5. CASE out = NULL
  <2>1. UNCHANGED <<held, yielded>>
    BY <1>5 DEF NextReturns
  <2>2. Raised \in {"none", "error", "StopIteration"} /\ Answer \in {"null", "error", "StopIteration"}
    BY <1>5 DEF Raised, Answer, FtsInv, FtsTypeOK
  <2>3. visited = yielded \cup refused' /\ yielded \cap refused' = {} /\ refused' \subseteq visited
    <3>1. CASE rv = -2
      <4>1. Raised = "error" /\ yielded \subseteq visited
        BY <1>1, <1>5, <3>1, NamesAssumption DEF Raised, FtsInv, AccountInv, Outcome
      <4> QED  BY <1>1, <4>1
    <3>2. CASE rv # -2
      <4>1. Raised # "error" /\ visited = yielded \cup refused
        BY <1>1, <3>2 DEF Raised, FtsInv, AccountInv
      <4> QED  BY <1>1, <4>1 DEF FtsInv, AccountInv
    <3> QED  BY <3>1, <3>2
  <2>4. visited \subseteq Entry
    BY DEF FtsInv, IInv, TypeOK
  <2>5. FtsTypeOK' /\ NeverBoth'
    BY <1>1, <2>1, <2>2, <2>3, <2>4 DEF FtsInv, FtsTypeOK, NeverBoth
  <2>6. CallInv' /\ AccountInv' /\ BuiltInv' /\ CopiesOwned'
    BY <1>1, <1>2, <1>3, <1>5, <2>1, <2>3 DEF FtsInv, CallInv, AccountInv, BuiltInv, CopiesOwned
  <2> QED  BY <2>5, <2>6 DEF FtsInv
<1> QED  BY <1>4, <1>5

LEMMA DropEntryStep ==
  ASSUME FtsInv, IInv', NEW e \in Entry, DropEntry(e)
  PROVE  FtsInv'
<1>1. /\ e \in held /\ held' = held \ {e} /\ copies' = copies \ {e}
      /\ UNCHANGED <<running, answer, wild, yielded, refused, stranded,
                     newobj, out, copy_failed, error, pc, entry, rv, visited>>
  BY DEF DropEntry, state, vars, locals, history
<1>2. e \in yielded /\ e \notin stranded
  BY <1>1 DEF FtsInv, AccountInv, BuiltInv, CopiesOwned
<1>3. e # newobj
  <2>1. CASE newobj = NULL
    BY <2>1, NamesAssumption
  <2>2. CASE newobj # NULL
    <3>1. pc = "call" /\ newobj \in Entry \ visited /\ visited = yielded \cup refused
      BY <2>2 DEF FtsInv, CallInv, AccountInv, InWalk, IInv, FlightInv, InFlight
    <3> QED  BY <1>2, <3>1
  <2> QED  BY <2>1, <2>2
<1>4. FtsTypeOK' /\ NeverBoth' /\ BuiltInv' /\ CopiesOwned'
  BY <1>1, <1>2, <1>3 DEF FtsInv, FtsTypeOK, NeverBoth, BuiltInv, CopiesOwned
<1>5. CallInv' /\ AccountInv'
  BY <1>1 DEF FtsInv, CallInv, AccountInv, InWalk, Outcome
<1> QED  BY <1>4, <1>5 DEF FtsInv

LEMMA FtsNextInv ==
  ASSUME FtsInv, [FtsNext]_ftsvars
  PROVE  FtsInv'
<1>1. IInv'
  BY FtsStepIsStep, NextInv DEF FtsInv
<1>2. CASE \E garbage \in BOOLEAN : IterFails(garbage)
  <2>1. UNCHANGED <<vars, state, running, answer, held, yielded, refused, copies, stranded>>
        /\ wild' \in BOOLEAN
    BY <1>2 DEF IterFails
  <2> QED  BY <1>1, <2>1 DEF FtsInv, FtsTypeOK, CallInv, AccountInv, BuiltInv, CopiesOwned, NeverBoth,
                             InWalk, Outcome, vars, locals, history, state
<1>3. CASE UNCHANGED ftsvars
  BY <1>1, <1>3 DEF FtsInv, FtsTypeOK, CallInv, AccountInv, BuiltInv, CopiesOwned, NeverBoth,
                    InWalk, Outcome, ftsvars, vars, locals, history, fvars, state, python
<1>4. CASE \E owned \in BOOLEAN : BuildFails(owned)
  BY <1>1, <1>4, BuildFailsStep
<1>5. CASE \E e \in Entry : DropEntry(e)
  BY <1>1, <1>5, DropEntryStep
<1> QED  BY <1>1, <1>2, <1>3, <1>4, <1>5, WalksStep, OutsideStep, NextBeginsStep, CopyEntryStep,
            CopyEntryFailsStep, BuildEntryStep, NextReturnsStep DEF FtsNext, NextStep

THEOREM FtsInvariance == FtsSpec => []FtsInv
BY FtsInitInv, FtsNextInv, PTL DEF FtsSpec

LEMMA ReadEnds ==
  ASSUME Read, pc' = "idle"
  PROVE  IF entry' = NULL THEN rv' = 0 ELSE rv' = -1
<1>1. CASE ReadEndOfRoot
  BY <1>1 DEF ReadEndOfRoot, Break
<1>2. CASE ReadFails
  BY <1>2 DEF ReadFails, Break
<1> QED  BY <1>1, <1>2 DEF Read, ReadEntry, ReadDot, ReadEndOfChild

LEMMA EndStep ==
  ASSUME FtsInv, EndInv, [FtsNext]_ftsvars
  PROVE  EndInv'
<1>1. CASE \E r \in BOOLEAN, d \in MaxDepths : Iter(r, d)
  <2>1. pc = "new" /\ pc' = "idle" /\ rv' = rv /\ ~running' /\ rv = 1
    BY <1>1 DEF Iter, OpenRoot, locals, fvars, python, FtsInv, CallInv, IInv, ReturnInv, InWalk
  <2> QED  BY <2>1 DEF EndInv
<1>2. CASE NextBegins
  BY <1>2 DEF NextBegins, Start, EndInv
<1>3. CASE Walks
  <2>1. pc' # "new" /\ running' = running /\ answer' = answer
    BY <1>3, WalksOn DEF Walks, FtsInv, InWalk, fvars, python
  <2>2. CASE Read
    BY <2>1, <2>2, ReadEnds DEF EndInv
  <2>3. CASE AddChild
    BY <2>1, <2>3 DEF EndInv, AddChild, CopyObject, CopyFails, OpenChild, OpenChildFails,
                      PushChild, PathFails, ChildLost
  <2> QED  BY <1>3, <2>2, <2>3 DEF Walks
<1>4. CASE CopyEntryFails \/ BuildEntry \/ \E owned \in BOOLEAN : BuildFails(owned)
  <2>1. Callback(FALSE)
    BY <1>4 DEF CopyEntryFails, BuildEntry, BuildFails
  <2>2. pc' = "idle" /\ rv' = -2 /\ entry' \in Entry
    BY <2>1, CallbackBreaks DEF FtsInv
  <2> QED  BY <2>2, NamesAssumption DEF EndInv
<1>5. CASE NextReturns
  BY <1>5 DEF NextReturns, EndInv, vars, locals
<1>6. CASE DropIterator
  BY <1>6 DEF DropIterator, Cleanup, EndInv
<1>7. CASE CopyEntry \/ (\E e \in Entry : DropEntry(e))
           \/ (\E garbage \in BOOLEAN : IterFails(garbage)) \/ UNCHANGED ftsvars
  BY <1>7 DEF CopyEntry, DropEntry, IterFails, ftsvars, fvars, vars, locals, python, EndInv
<1> QED  BY <1>1, <1>2, <1>3, <1>4, <1>5, <1>6, <1>7 DEF FtsNext, NextStep
-----------------------------------------------------------------------------
(* The properties of FtsIter that the runs check on a small instance.      *)

(* Every variable of the iterator keeps its type.                          *)
THEOREM FtsTypeCorrect == FtsSpec => []FtsTypeOK
BY FtsInvariance, PTL DEF FtsInv

(* py_fts_iter_next() never returns an entry with an exception set.        *)
THEOREM ItemOrError == FtsSpec => []NeverBoth
BY FtsInvariance, PTL DEF FtsInv

(* Every copy py_fts_do_iter() takes is closed by the entry it went to,    *)
(* unless its entry could not be built.                                    *)
THEOREM CopiesHaveOwners == FtsSpec => []CopiesOwned
BY FtsInvariance, PTL DEF FtsInv

(* What the walk delivers is given to Python or refused with an error, one *)
(* entry for each next(), and never both.                                  *)
THEOREM NoneSkipped == FtsSpec => []NothingSkipped
<1>1. ASSUME FtsInv PROVE NothingSkipped
  <2>1. /\ ~running => visited = yielded \cup refused
        /\ yielded \cap refused = {}
    BY <1>1 DEF FtsInv, AccountInv
  <2>2. \/ visited \ (yielded \cup refused) = {}
        \/ visited \ (yielded \cup refused) = {entry}
    BY <1>1 DEF FtsInv, CallInv, AccountInv
  <2>3. Cardinality(visited \ (yielded \cup refused)) \in {0, 1}
    BY <2>2, FS_EmptySet, FS_Singleton
  <2> QED  BY <2>1, <2>3 DEF NothingSkipped
<1> QED  BY FtsInvariance, <1>1, PTL

(* StopIteration at the end of file comes after every entry due.           *)
THEOREM StopAfterAll == FtsSpec => []StopMeansAll
<1>1. FtsInv => (~running => visited = yielded \cup refused)
  BY DEF FtsInv, AccountInv
<1>2. (FtsInv /\ Complete) => StopMeansAll
  BY <1>1 DEF Complete, StopMeansAll
<1>3. FtsSpec => []Complete
  BY WalkKept, AllDelivered, PTL
<1> QED  BY FtsInvariance, <1>2, <1>3, PTL

(* Once it has told StopIteration at the end of file, the iterator tells   *)
(* nothing else, whatever fails in the walk that every next() begins anew. *)
THEOREM StopStays == FtsSpec => StopIsFinal
<1>1. FtsSpec => []EndInv
  <2>1. FtsInit => EndInv
    BY DEF FtsInit, Init, EndInv
  <2> QED  BY <2>1, EndStep, FtsInvariance, PTL DEF FtsSpec
<1>2. ASSUME FtsInv, EndInv, ~running, answer = "StopIteration", Exhausted
      PROVE  Stopped
  BY <1>2 DEF FtsInv, IInv, ReturnInv, EndInv, Exhausted, Stopped
<1>3. ASSUME FtsInv, EndInv, Stopped, [FtsNext]_ftsvars
      PROVE  Stopped'
  <2>1. /\ answer = "StopIteration" /\ root.rest = {} /\ children = <<>> /\ entry = NULL
        /\ pc # "new" /\ ~InFlight /\ IterDirAt(Target) = root
    BY <1>3, EmptySeq, NamesAssumption DEF Stopped, EndInv, InFlight, FtsInv, IInv, FlightInv, HeldExactly,
       Target, IterDirAt
  <2>2. CASE NextBegins
    BY <2>1, <2>2 DEF NextBegins, Start, cbvars, Stopped
  <2>3. CASE Walks
    <3>1. ReadEndOfRoot \/ ReadFails
      BY <2>1, <2>3 DEF Walks, Read, ReadEntry, ReadDot, ReadEndOfChild, AddChild, CopyObject,
         CopyFails, OpenChild, OpenChildFails, PushChild, PathFails, InFlight
    <3> QED
      BY <2>1, <2>3, <3>1 DEF Walks, fvars, python, ReadEndOfRoot, ReadFails, cbvars, Stopped
  <2>4. CASE NextReturns
    <3>1. running /\ pc = "idle" /\ UNCHANGED <<root, children, entry>>
      BY <2>4 DEF NextReturns, vars, cbvars, locals
    <3>a. out = NULL /\ rv = 0
      BY <1>3, <2>1, <3>1, NamesAssumption DEF FtsInv, AccountInv, EndInv
    <3>2. answer' = "StopIteration"
      BY <2>4, <3>a DEF NextReturns, Answer, Raised
    <3> QED  BY <2>1, <3>1, <3>2 DEF Stopped
  <2>5. CASE DropIterator
    BY <2>1, <2>5 DEF DropIterator, Cleanup, fvars, python, locals, Stopped
  <2>6. CASE (\E e \in Entry : DropEntry(e)) \/ UNCHANGED ftsvars
    BY <2>1, <2>6 DEF DropEntry, ftsvars, fvars, vars, cbvars, locals, python, Stopped
  <2>7. pc # "call"
    BY <2>1 DEF InFlight
  <2>8. ~CopyEntry /\ ~CopyEntryFails /\ ~BuildEntry /\ ~(\E owned \in BOOLEAN : BuildFails(owned))
    BY <2>7 DEF CopyEntry, CopyEntryFails, BuildEntry, BuildFails
  <2>9. ~(\E r \in BOOLEAN, d \in MaxDepths : Iter(r, d)) /\ ~(\E garbage \in BOOLEAN : IterFails(garbage))
    BY <2>1 DEF Iter, OpenRoot, IterFails
  <2> QED  BY <1>3, <2>2, <2>3, <2>4, <2>5, <2>6, <2>8, <2>9 DEF FtsNext, NextStep
<1> QED  BY <1>1, <1>2, <1>3, FtsInvariance, PTL DEF FtsSpec, StopIsFinal
=============================================================================
