------------------------------- MODULE Lifetimes -------------------------------
(***************************************************************************)
(* The order in which libgfapi wants to be called, whoever calls it and    *)
(* however its caller keeps track of what: every other handle is opened    *)
(* and closed between glfs_new() and glfs_fini() of the glfs_t below it,   *)
(* and no handle is closed while a call of another thread uses it.         *)
(***************************************************************************)
EXTENDS TLAPS

CONSTANTS Handle, Thread

VARIABLES
  under,       \* the glfs_t below each handle that is open; its own for a glfs_t
  uses,        \* the handles in use by the libgfapi calls of a thread
  finishing    \* the glfs_t that glfs_fini() runs for

lvars == <<under, uses, finishing>>

Live == DOMAIN under

InUse == UNION {uses[t] : t \in Thread}

Usable(h) == h \in Live /\ {h, under[h]} \subseteq Live \ finishing

(* Nothing else was opened with f.                                         *)
Bare(f) == \A h \in Live \ {f} : under[h] # f

With(h, f) == [x \in Live \cup {h} |-> IF x = h THEN f ELSE under[x]]

Without(h) == [x \in Live \ {h} |-> under[x]]

Init ==
  /\ under = [h \in {} |-> h]
  /\ uses = [t \in Thread |-> {}]
  /\ finishing = {}

(* glfs_new(); glfs_init() follows in the same thread.                     *)
New(t, f) ==
  /\ uses[t] = {} /\ f \notin Live
  /\ under' = With(f, f)
  /\ uses' = [uses EXCEPT ![t] = {f}]
  /\ UNCHANGED finishing

Begin(t, h) ==
  /\ uses[t] = {} /\ Usable(h)
  /\ uses' = [uses EXCEPT ![t] = {h, under[h]}]
  /\ UNCHANGED <<under, finishing>>

(* A call returns a new handle, perhaps for another call to use.           *)
Obtain(t, h, f) ==
  /\ f \in uses[t] /\ under[f] = f /\ h \notin Live
  /\ under' = With(h, f)
  /\ \E more \in BOOLEAN :
       uses' = [uses EXCEPT ![t] = IF more THEN @ \cup {h} ELSE {}]
  /\ UNCHANGED finishing

End(t) ==
  /\ uses' = [uses EXCEPT ![t] = {}]
  /\ UNCHANGED <<under, finishing>>

(* What a thread has obtained it gives up again after a failure: it has    *)
(* closed it, or will never do so and does not count it any more.          *)
GiveUp(t, h) ==
  /\ h \in uses[t] /\ \A u \in Thread \ {t} : h \notin uses[u]
  /\ Bare(h)
  /\ under' = Without(h)
  /\ uses' = [uses EXCEPT ![t] = {}]
  /\ UNCHANGED finishing

Close(h) ==
  /\ h \in Live \ InUse /\ under[h] # h
  /\ under' = Without(h)
  /\ UNCHANGED <<uses, finishing>>

BeginFini(f) ==
  /\ f \in Live \ (InUse \cup finishing) /\ under[f] = f
  /\ Bare(f)
  /\ finishing' = finishing \cup {f}
  /\ UNCHANGED <<under, uses>>

EndFini(f) ==
  /\ f \in finishing
  /\ finishing' = finishing \ {f}
  /\ under' = Without(f)
  /\ UNCHANGED uses

Next ==
  \/ \E t \in Thread :
       \/ End(t)
       \/ \E h \in Handle : New(t, h) \/ Begin(t, h) \/ GiveUp(t, h)
       \/ \E h, f \in Handle : Obtain(t, h, f)
  \/ \E h \in Handle : Close(h) \/ BeginFini(h) \/ EndFini(h)

Spec == Init /\ [][Next]_lvars
-----------------------------------------------------------------------------
(* What a call uses is open and stays so, with the glfs_t below it, and    *)
(* glfs_fini() runs when nothing else is open below.                       *)
WellNested ==
  /\ \A h \in Live : under[h] \in Live /\ under[under[h]] = under[h]
  /\ \A h \in InUse : Usable(h)
  /\ \A f \in finishing : f \in Live /\ under[f] = f /\ Bare(f)
-----------------------------------------------------------------------------
UsesOK == Live \subseteq Handle /\ uses \in [Thread -> SUBSET Handle]

NestInv == UsesOK /\ WellNested

(* A step that neither opens nor closes anything.                          *)
LEMMA NestUses ==
  ASSUME NestInv, UNCHANGED <<under, finishing>>, NEW t \in Thread,
         NEW H \in SUBSET Handle, \A h \in H : Usable(h),
         uses' = [uses EXCEPT ![t] = H]
  PROVE  NestInv'
<1>1. UsesOK'
  BY DEF NestInv, UsesOK, Live
<1>2. InUse' \subseteq InUse \cup H
  BY DEF NestInv, UsesOK, InUse
<1>3. \A h \in InUse' : Usable(h)'
  BY <1>2 DEF NestInv, WellNested, Usable, Live
<1> QED  BY <1>1, <1>3 DEF NestInv, WellNested, Live, Bare

LEMMA NestWith ==
  ASSUME NestInv, UNCHANGED finishing, NEW t \in Thread,
         NEW h \in Handle, NEW f \in Handle, h \notin Live,
         f = h \/ (Usable(f) /\ under[f] = f),
         under' = With(h, f),
         NEW H \in SUBSET Handle, \A g \in H : g = h \/ Usable(g),
         uses' = [uses EXCEPT ![t] = H]
  PROVE  NestInv'
<1>1. InUse' \subseteq InUse \cup H
  BY DEF NestInv, UsesOK, InUse
<1>2. /\ Live' = Live \cup {h} /\ under'[h] = f
      /\ \A g \in Live : under'[g] = under[g] /\ g # h
  BY DEF With, Live
<1>3. UsesOK'
  BY <1>2 DEF NestInv, UsesOK
<1>4. h \notin finishing /\ f \notin finishing /\ finishing \subseteq Live
  BY DEF NestInv, WellNested, Usable
<1>5. \A g \in Live' : under'[g] \in Live' /\ under'[under'[g]] = under'[g]
  BY <1>2 DEF NestInv, WellNested, Usable
<1>6. \A g \in InUse' : Usable(g)'
  <2>1. Usable(h)'
    BY <1>2, <1>4 DEF Usable
  <2>2. ASSUME NEW g, Usable(g) PROVE Usable(g)'
    BY <1>2, <2>2 DEF Usable
  <2>3. \A g \in InUse : Usable(g)
    BY DEF NestInv, WellNested
  <2> QED  BY <1>1, <2>1, <2>2, <2>3
<1>7. \A g \in finishing' : g \in Live' /\ under'[g] = g /\ Bare(g)'
  BY <1>2, <1>4 DEF NestInv, WellNested, Bare
<1> QED  BY <1>3, <1>5, <1>6, <1>7 DEF NestInv, WellNested

LEMMA NestWithout ==
  ASSUME NestInv, NEW h \in Live, Bare(h), h \notin InUse', under' = Without(h),
         UsesOK', InUse' \subseteq InUse, finishing' = finishing \ {h}
  PROVE  NestInv'
<1>1. /\ Live' = Live \ {h}
      /\ \A g \in Live' : under'[g] = under[g] /\ under[g] # h
  BY DEF Without, Live, Bare
<1>2. \A g \in InUse' : Usable(g)'
  BY <1>1 DEF NestInv, WellNested, Usable
<1>3. \A g \in Live' : under'[g] \in Live' /\ under'[under'[g]] = under'[g]
  BY <1>1 DEF NestInv, WellNested
<1>4. \A g \in finishing' : g \in Live' /\ under'[g] = g /\ Bare(g)'
  BY <1>1 DEF NestInv, WellNested, Bare
<1> QED  BY <1>2, <1>3, <1>4 DEF NestInv, WellNested

LEMMA NestStep == NestInv /\ [Next]_lvars => NestInv'
<1> SUFFICES ASSUME NestInv, [Next]_lvars PROVE NestInv'
  OBVIOUS
<1>1. ASSUME NEW t \in Thread, End(t) PROVE NestInv'
  BY <1>1, NestUses DEF End
<1>2. ASSUME NEW t \in Thread, NEW h \in Handle, New(t, h) PROVE NestInv'
  BY <1>2, NestWith DEF New
<1>3. ASSUME NEW t \in Thread, NEW h \in Handle, Begin(t, h) PROVE NestInv'
  <2>1. /\ h \in Live /\ under[h] \in Live /\ under[under[h]] = under[h]
        /\ Usable(h) /\ Usable(under[h])
    BY <1>3 DEF Begin, NestInv, WellNested, Usable
  <2>2. {h, under[h]} \in SUBSET Handle
    BY <2>1 DEF NestInv, UsesOK
  <2> QED  BY <1>3, <2>1, <2>2, NestUses DEF Begin
<1>4. ASSUME NEW t \in Thread, NEW h \in Handle, NEW f \in Handle, Obtain(t, h, f)
      PROVE  NestInv'
  <2>1. PICK more \in BOOLEAN :
          uses' = [uses EXCEPT ![t] = IF more THEN uses[t] \cup {h} ELSE {}]
    BY <1>4 DEF Obtain
  <2>2. PICK H : H = IF more THEN uses[t] \cup {h} ELSE {}
    OBVIOUS
  <2>3. H \in SUBSET Handle /\ \A g \in H : g = h \/ Usable(g)
    BY <2>2 DEF NestInv, UsesOK, WellNested, InUse
  <2>4. Usable(f) /\ under[f] = f
    BY <1>4 DEF Obtain, NestInv, WellNested, InUse
  <2> QED  BY <1>4, <2>1, <2>2, <2>3, <2>4, NestWith DEF Obtain
<1>5. ASSUME NEW t \in Thread, NEW h \in Handle, GiveUp(t, h) PROVE NestInv'
  <2>1. uses' \in [Thread -> SUBSET Handle]
    BY <1>5 DEF GiveUp, NestInv, UsesOK
  <2>2. Live' = Live \ {h} /\ h \in Live /\ h \notin finishing
    BY <1>5 DEF GiveUp, Without, Live, NestInv, WellNested, InUse, Usable
  <2>3. InUse' \subseteq InUse /\ h \notin InUse'
    BY <1>5 DEF GiveUp, NestInv, UsesOK, InUse
  <2> QED  BY <1>5, <2>1, <2>2, <2>3, NestWithout DEF GiveUp, NestInv, UsesOK
<1>6. ASSUME NEW h \in Handle, Close(h) PROVE NestInv'
  <2>1. Live' = Live \ {h} /\ h \in Live /\ InUse' = InUse
    BY <1>6 DEF Close, Without, Live, InUse
  <2>2. Bare(h) /\ h \notin finishing
    BY <1>6 DEF Close, NestInv, WellNested, Bare
  <2> QED  BY <1>6, <2>1, <2>2, NestWithout DEF Close, NestInv, UsesOK
<1>7. ASSUME NEW f \in Handle, BeginFini(f) PROVE NestInv'
  BY <1>7 DEF BeginFini, NestInv, UsesOK, WellNested, Usable, Bare, Live, InUse
<1>8. ASSUME NEW f \in Handle, EndFini(f) PROVE NestInv'
  <2>1. Live' = Live \ {f} /\ f \in Live /\ InUse' = InUse /\ Bare(f)
    BY <1>8 DEF EndFini, Without, Live, InUse, NestInv, WellNested
  <2>2. f \notin InUse
    BY <1>8 DEF EndFini, NestInv, WellNested, Usable
  <2> QED  BY <1>8, <2>1, <2>2, NestWithout DEF EndFini, NestInv, UsesOK
<1>9. CASE UNCHANGED lvars
  BY <1>9 DEF lvars, NestInv, UsesOK, WellNested, Usable, Bare, Live, InUse
<1> QED  BY <1>1, <1>2, <1>3, <1>4, <1>5, <1>6, <1>7, <1>8, <1>9 DEF Next

(* Whoever keeps to Lifetimes uses only what is open, and finishes a       *)
(* glfs_t only when everything else opened with it is closed.              *)
THEOREM NestedCalls == Spec => []WellNested
<1>1. Init => NestInv
  BY DEF Init, NestInv, UsesOK, WellNested, Live, InUse
<1>2. NestInv => WellNested
  BY DEF NestInv
<1> QED  BY <1>1, <1>2, NestStep, PTL DEF Spec
=============================================================================
