----------------------------- MODULE HandlesProofs -----------------------------
(***************************************************************************)
(* Proofs about Handles, for any number of threads and of objects of each  *)
(* type: the counted references are those the code follows, no pointer is  *)
(* left to a freed object, and no libgfapi handle is used or left open     *)
(* after the glfs_t below it is gone.                                      *)
(***************************************************************************)
EXTENDS Handles, SequenceTheorems, TLAPS

-----------------------------------------------------------------------------
(* The inductive invariant.                                                *)

(* Counted, for one holder at a time.                                      *)
RefInv ==
  \A x \in Obj :
    /\ \A o \in Obj : o \in refs[x] <=> x = base[o] \/ x = item[o]
    /\ \A t \in Thread :
         t \in refs[x] <=> x = frame[t].self \/ x = frame[t].new \/ x = frame[t].entry

(* What the fields point to.                                               *)
BaseFits(x, y) ==
  \/ kind[x] = "ObjectHandle" /\ kind[y] = "Volume"
  \/ kind[x] \in {"FD", "FTSHandle"} /\ kind[y] = "ObjectHandle"
  \/ kind[x] \in {"FTSIterator", "FTSEntry"} /\ kind[y] = "FTSHandle"

FieldInv ==
  \A x \in Obj :
    /\ base[x] # NULL => BaseFits(x, base[x])
    /\ item[x] # NULL => kind[x] = "FTSEntry" /\ kind[item[x]] = "ObjectHandle"

(* An object lives as long as it is referred to, and then dies once.       *)
LifeInv ==
  \A x \in Obj :
    /\ Alive(x) <=> refs[x] # {} \/ x \in Dead
    /\ x \in Dead => refs[x] = {}

DyingInv ==
  \A t \in Thread :
    /\ \A i, j \in 1..Len(dying[t]) : dying[t][i] = dying[t][j] => i = j
    /\ \A u \in Thread : u # t => ToSet(dying[t]) \cap ToSet(dying[u]) = {}

BusyInv == \A t \in Thread : dying[t] # <<>> => frame[t].at \in {"python", "return"}

(* The local variables of a thread at each place it can be.                *)
Making == {"glfs_init", "extract", "opendir", "build"}

FrameInv ==
  \A t \in Thread :
    LET at == frame[t].at
        self == frame[t].self
        new == frame[t].new
        entry == frame[t].entry IN
    /\ at \in {"python", "glfs_init"} => self = NULL
    /\ at \notin {"python", "glfs_init", "return"} => self \in Obj
    /\ at \in {"lookup", "extract"} => kind[self] \in {"Volume", "ObjectHandle"}
    /\ at = "open" => kind[self] = "ObjectHandle"
    /\ at = "use" => kind[self] \in {"Volume", "ObjectHandle", "FD"}
    /\ at = "opendir" => kind[self] = "FTSHandle"
    /\ at \in {"next", "build"} => kind[self] = "FTSIterator"
    /\ IF at \in Making THEN new \in Obj ELSE new = NULL
    /\ at = "glfs_init" => kind[new] = "Volume"
    /\ at \in {"extract", "build"} => kind[new] = "ObjectHandle"
    /\ at = "opendir" => kind[new] = "FTSIterator"
    /\ IF at = "build" THEN entry \in Obj /\ kind[entry] = "FTSEntry" ELSE entry = NULL

(* The objects that a method is making are its own and still empty.        *)
BeingMade(x) == \E t \in Thread : x = frame[t].new \/ x = frame[t].entry

MadeInv ==
  \A t \in Thread : \A x \in Obj :
    x = frame[t].new \/ x = frame[t].entry =>
      /\ refs[x] = {t} /\ x # frame[t].self
      /\ base[x] = NULL /\ item[x] = NULL /\ x \notin owns

(* All others are complete until their deallocation has begun.             *)
Owners == {"Volume", "ObjectHandle", "FD", "FTSIterator"}

WholeInv ==
  \A x \in Obj :
    refs[x] # {} /\ ~BeingMade(x) =>
      /\ kind[x] # "Volume" => base[x] # NULL
      /\ kind[x] = "FTSEntry" => item[x] # NULL
      /\ kind[x] \in Owners => x \in owns

(* A handle is closed before the references go.                            *)
OwnsInv == \A x \in owns : kind[x] \in Owners /\ (kind[x] # "Volume" => base[x] # NULL)

StrandedInv == \A x \in Obj : x \in stranded <=> kind[x] = "stranded"

(* The handle an object owns was opened with the glfs_t of the Volume that *)
(* the object keeps alive.                                                 *)
FsInv ==
  /\ \A x \in owns : fs[x] = VolumeOf(x)
  /\ \A t \in Thread :
       /\ frame[t].at = "glfs_init" => fs[frame[t].new] = frame[t].new
       /\ frame[t].at \in {"extract", "build"} => fs[frame[t].new] = VolumeOf(frame[t].self)

(* OneOwner, for one handle at a time.                                     *)
Pending(x) ==
  \E t \in Thread : frame[t].at \in {"glfs_init", "extract", "build"} /\ x = frame[t].new

OwnerInv ==
  /\ \A x : x \in open <=> x \in owns \/ x \in stranded \/ Pending(x)
  /\ \A x \in owns : x \notin stranded /\ Alive(x)

HInv ==
  /\ TypeOK /\ RefInv /\ FieldInv /\ LifeInv /\ DyingInv /\ BusyInv /\ FrameInv
  /\ MadeInv /\ WholeInv /\ OwnsInv /\ StrandedInv /\ OwnerInv /\ FsInv
-----------------------------------------------------------------------------
(* The objects that are in order.                                          *)

(* No one is left to a dead object, or to one that is still being made.    *)
LEMMA ReferredTo ==
  ASSUME HInv, NEW x \in Obj,
         \/ Python \in refs[x]
         \/ \E o \in Obj : x = base[o] \/ x = item[o]
         \/ \E t \in Thread : x = frame[t].self
  PROVE  refs[x] # {} /\ Alive(x) /\ x \notin Dead /\ ~BeingMade(x)
<1>1. refs[x] # {}
  BY DEF HInv, RefInv
<1>2. Alive(x) /\ x \notin Dead
  BY <1>1 DEF HInv, LifeInv
<1>3. ASSUME BeingMade(x) PROVE FALSE
  <2>1. PICK u \in Thread : x = frame[u].new \/ x = frame[u].entry
    BY <1>3 DEF BeingMade
  <2>2. refs[x] = {u} /\ x # frame[u].self
    BY <2>1 DEF HInv, MadeInv
  <2>3. CASE Python \in refs[x]
    BY <2>2, <2>3, HandlesAssumption
  <2>4. CASE \E o \in Obj : x = base[o] \/ x = item[o]
    BY <2>2, <2>4, HandlesAssumption DEF HInv, RefInv
  <2>5. CASE \E t \in Thread : x = frame[t].self
    BY <2>2, <2>5 DEF HInv, RefInv
  <2> QED  BY <2>3, <2>4, <2>5
<1> QED  BY <1>1, <1>2, <1>3

(* An object from which the Volume can be reached.                         *)
Intact(x) ==
  /\ kind[x] \in Kinds \ {"FTSEntry"}
  /\ IF kind[x] = "Volume" THEN x \in owns ELSE base[x] # NULL

LEMMA BaseIntact ==
  ASSUME HInv, NEW x \in Obj, base[x] # NULL
  PROVE  /\ base[x] \in Obj /\ BaseFits(x, base[x])
         /\ refs[base[x]] # {} /\ Alive(base[x]) /\ base[x] \notin Dead
         /\ ~BeingMade(base[x]) /\ Intact(base[x])
<1> DEFINE y == base[x]
<1>1. y \in Obj /\ BaseFits(x, y)
  BY DEF HInv, TypeOK, FieldInv
<1>2. refs[y] # {} /\ Alive(y) /\ y \notin Dead /\ ~BeingMade(y)
  <2> HIDE DEF y
  <2>1. y = base[x]
    BY DEF y
  <2> QED  BY <1>1, <2>1, ReferredTo
<1>3. Intact(y)
  BY <1>1, <1>2 DEF HInv, WholeInv, Intact, BaseFits, Kinds, Owners
<1> QED  BY <1>1, <1>2, <1>3

(* The Volume that an object leads to is open.                             *)
LEMMA VolumeReached ==
  ASSUME HInv, NEW x \in Obj, Intact(x)
  PROVE  /\ VolumeOf(x) \in Obj /\ kind[VolumeOf(x)] = "Volume" /\ VolumeOf(x) \in owns
         /\ kind[x] # "Volume" =>
              /\ VolumeOf(x) # x /\ VolumeOf(x) \notin Dead /\ ~BeingMade(VolumeOf(x))
              /\ refs[VolumeOf(x)] # {}
<1>1. CASE kind[x] = "Volume"
  BY <1>1 DEF Intact, VolumeOf
<1>2. ASSUME NEW y \in Obj, kind[y] = "ObjectHandle", base[y] # NULL
      PROVE  /\ base[y] \in Obj /\ kind[base[y]] = "Volume" /\ base[y] \in owns
             /\ base[y] \notin Dead /\ ~BeingMade(base[y]) /\ refs[base[y]] # {}
  BY <1>2, BaseIntact DEF BaseFits, Intact
<1>3. ASSUME NEW y \in Obj, kind[y] \in {"FD", "FTSHandle"}, base[y] # NULL
      PROVE  base[y] \in Obj /\ kind[base[y]] = "ObjectHandle" /\ base[base[y]] # NULL
  BY <1>3, BaseIntact DEF BaseFits, Intact
<1>4. ASSUME NEW y \in Obj, kind[y] = "FTSIterator", base[y] # NULL
      PROVE  base[y] \in Obj /\ kind[base[y]] = "FTSHandle" /\ base[base[y]] # NULL
  BY <1>4, BaseIntact DEF BaseFits, Intact
<1>5. CASE kind[x] = "ObjectHandle"
  BY <1>2, <1>5 DEF Intact, VolumeOf
<1>6. CASE kind[x] \in {"FD", "FTSHandle"}
  BY <1>2, <1>3, <1>6 DEF Intact, VolumeOf
<1>7. CASE kind[x] = "FTSIterator"
  BY <1>2, <1>3, <1>4, <1>7 DEF Intact, VolumeOf
<1> QED  BY <1>1, <1>5, <1>6, <1>7 DEF Intact, Kinds

(* It stays the same when only objects that no field points to change.     *)
LEMMA VolumeKept ==
  ASSUME HInv, NEW C, \A c \in C \cap Obj : \A o \in Obj : c # base[o],
         \A y \in Obj \ C : base'[y] = base[y] /\ kind'[y] = kind[y],
         NEW x \in Obj \ C, Intact(x)
  PROVE  VolumeOf(x)' = VolumeOf(x)
<1>1. ASSUME NEW y \in Obj, base[y] # NULL
      PROVE  base[y] \in Obj \ C /\ Intact(base[y]) /\ BaseFits(y, base[y])
  BY <1>1, BaseIntact
<1>2. CASE kind[x] \in {"Volume", "ObjectHandle"}
  BY <1>2 DEF VolumeOf
<1>3. CASE kind[x] \in {"FD", "FTSHandle"}
  <2>1. base[x] \in Obj \ C
    BY <1>1, <1>3 DEF Intact
  <2> QED  BY <1>3, <2>1 DEF VolumeOf
<1>4. CASE kind[x] = "FTSIterator"
  <2>1. base[x] \in Obj \ C /\ kind[base[x]] = "FTSHandle" /\ base[base[x]] # NULL
    BY <1>1, <1>4 DEF Intact, BaseFits
  <2>2. base[base[x]] \in Obj \ C
    BY <1>1, <2>1
  <2> QED  BY <1>4, <2>1, <2>2 DEF VolumeOf
<1> QED  BY <1>2, <1>3, <1>4 DEF Intact, Kinds

LEMMA Unmoved ==
  ASSUME UNCHANGED <<kind, base>>
  PROVE  \A x : VolumeOf(x)' = VolumeOf(x)
BY DEF VolumeOf

LEMMA DeadKept ==
  ASSUME UNCHANGED dying
  PROVE  Dead' = Dead /\ (DyingInv => DyingInv') /\ \A t : Dying(t)' = Dying(t)
BY DEF Dead, DyingInv, Dying

LEMMA LeaveFrames ==
  ASSUME TypeOK, NEW t \in Thread, Leave(t)
  PROVE  /\ frame' \in [Thread -> Frames] /\ gil' = t
         /\ \A u \in Thread \ {t} : frame'[u] = frame[u]
         /\ frame'[t].at = "return" /\ frame'[t].self = frame[t].self
         /\ frame'[t].new = NULL /\ frame'[t].entry = NULL
BY DEF Leave, TypeOK, Frames, Native
-----------------------------------------------------------------------------
(* The steps: calls, and returns from libgfapi.                            *)

LEMMA EnterStep ==
  ASSUME HInv, NEW t \in Thread, NEW s \in Obj,
         NEW at \in {"lookup", "open", "use", "next"}, Enter(t, s, at),
         dying[t] = <<>>, frame[t].at = "python", Python \in refs[s],
         at = "lookup" => kind[s] \in {"Volume", "ObjectHandle"},
         at = "open"   => kind[s] = "ObjectHandle",
         at = "use"    => kind[s] \in {"Volume", "ObjectHandle", "FD"},
         at = "next"   => kind[s] = "FTSIterator",
         UNCHANGED <<kind, base, item, owns, native, gil, dying, wild>>
  PROVE  HInv'
<1>1. /\ UNCHANGED <<kind, base, item, owns, open, stranded, fs, gil, dying, wild>>
      /\ \A u \in Thread : u # t => frame'[u] = frame[u]
      /\ frame'[t].at = at /\ frame'[t].self = s
      /\ frame'[t].new = NULL /\ frame'[t].entry = NULL
      /\ frame[t].self = NULL /\ frame[t].new = NULL /\ frame[t].entry = NULL
  BY DEF Enter, InPython, native, HInv, TypeOK, Frames, FrameInv, Making
<1>a. \A x \in Obj : refs'[x] = IF x = s THEN refs[x] \cup {t} ELSE refs[x]
  BY DEF Enter, HInv, TypeOK
<1>2. Dead' = Dead /\ DyingInv' /\ \A x : VolumeOf(x)' = VolumeOf(x)
  BY <1>1, DeadKept, Unmoved DEF HInv
<1>3. \A x \in Obj : BeingMade(x)' <=> BeingMade(x)
  BY <1>1, HandlesAssumption DEF BeingMade
<1>4. ~BeingMade(s) /\ s \notin Dead /\ Alive(s)
  BY ReferredTo
<1>5. TypeOK'
  BY <1>1 DEF Enter, HInv, TypeOK, Frames, InPython, Native, Holders, Finishing, Dying
<1>6. RefInv'
  <2>1. \A x \in Obj : t # x /\ NULL # x
    BY HandlesAssumption
  <2>2. \A x, o \in Obj : o \in refs'[x] <=> o \in refs[x]
    BY <1>a, <2>1
  <2>3. \A x \in Obj : \A u \in Thread : u # t => (u \in refs'[x] <=> u \in refs[x])
    BY <1>a
  <2>4. \A x \in Obj : t \in refs'[x] <=> x = s
    BY <1>1, <1>a, <2>1 DEF HInv, RefInv
  <2> QED  BY <1>1, <2>1, <2>2, <2>3, <2>4 DEF HInv, RefInv
<1>7. FieldInv' /\ LifeInv' /\ StrandedInv' /\ BusyInv'
  <2>1. LifeInv'
    BY <1>1, <1>a, <1>2, <1>4 DEF HInv, LifeInv, Alive
  <2> QED  BY <1>1, <2>1 DEF HInv, FieldInv, BaseFits, StrandedInv, BusyInv
<1>8. FrameInv'
  BY <1>1 DEF HInv, FrameInv, Making
<1>9. MadeInv'
  <2>1. \A u \in Thread : s # frame[u].new /\ s # frame[u].entry
    BY <1>4 DEF BeingMade
  <2>2. \A x \in Obj : NULL # x
    BY HandlesAssumption
  <2>3. \A u \in Thread : \A x \in Obj : x = frame'[u].new \/ x = frame'[u].entry =>
          u # t /\ frame'[u] = frame[u] /\ x # s
    BY <1>1, <2>1, <2>2
  <2>4. MadeInv /\ base' = base /\ item' = item /\ owns' = owns
    BY <1>1 DEF HInv
  <2>5. \A x \in Obj \ {s} : refs'[x] = refs[x]
    BY <1>a
  <2> QED  BY <2>3, <2>4, <2>5 DEF MadeInv
<1>10. WholeInv' /\ OwnsInv'
  BY <1>1, <1>a, <1>3, <1>4 DEF HInv, WholeInv, OwnsInv, LifeInv
<1>11. OwnerInv'
  BY <1>1 DEF HInv, OwnerInv, Pending, Alive
<1>12. FsInv'
  BY <1>1, <1>2 DEF HInv, FsInv
<1> QED  BY <1>2, <1>5, <1>6, <1>7, <1>8, <1>9, <1>10, <1>11, <1>12 DEF HInv

LEMMA LeaveStep ==
  ASSUME HInv, NEW t \in Thread, frame[t].at \in {"lookup", "open", "use", "next"},
         gil = NULL, Leave(t), UNCHANGED <<objects, native, dying, wild>>
  PROVE  HInv'
<1>1. /\ UNCHANGED <<kind, refs, base, item, owns, open, stranded, fs, dying, wild>>
      /\ \A u \in Thread : u # t => frame'[u] = frame[u]
      /\ frame'[t].at = "return" /\ frame'[t].self = frame[t].self
      /\ frame'[t].new = NULL /\ frame'[t].entry = NULL
      /\ frame[t].new = NULL /\ frame[t].entry = NULL
      /\ gil' = t
  BY DEF Leave, objects, native, HInv, TypeOK, Frames, FrameInv, Making
<1>2. Dead' = Dead /\ DyingInv' /\ \A x : VolumeOf(x)' = VolumeOf(x)
  BY <1>1, DeadKept, Unmoved DEF HInv
<1>3. \A x \in Obj : BeingMade(x)' <=> BeingMade(x)
  BY <1>1 DEF BeingMade
<1>5. TypeOK'
  BY <1>1, HandlesAssumption DEF Leave, HInv, TypeOK, Frames, Native, Finishing, Dying
<1>6. RefInv'
  BY <1>1 DEF HInv, RefInv
<1>7. FieldInv' /\ LifeInv' /\ StrandedInv' /\ BusyInv'
  BY <1>1, <1>2 DEF HInv, FieldInv, BaseFits, LifeInv, StrandedInv, BusyInv, Alive
<1>8. FrameInv'
  BY <1>1 DEF HInv, FrameInv, Making
<1>9. MadeInv'
  BY <1>1, HandlesAssumption DEF HInv, MadeInv
<1>10. WholeInv' /\ OwnsInv'
  BY <1>1, <1>3 DEF HInv, WholeInv, OwnsInv
<1>11. OwnerInv'
  BY <1>1 DEF HInv, OwnerInv, Pending, Alive
<1>12. FsInv'
  BY <1>1, <1>2 DEF HInv, FsInv
<1> QED  BY <1>2, <1>5, <1>6, <1>7, <1>8, <1>9, <1>10, <1>11, <1>12 DEF HInv
-----------------------------------------------------------------------------
(* What the steps that make an object, or free one, leave as it was.       *)

(* Nothing refers to a free place.                                         *)
LEMMA FreePlace ==
  ASSUME HInv, NEW x \in Obj, kind[x] = "none"
  PROVE  /\ refs[x] = {} /\ x \notin Dead /\ base[x] = NULL /\ item[x] = NULL
         /\ x \notin owns /\ x \notin stranded /\ x \notin open
         /\ \A o \in Obj : x # base[o] /\ x # item[o]
         /\ \A u \in Thread : x # frame[u].self /\ x # frame[u].new /\ x # frame[u].entry
<1>1. refs[x] = {} /\ x \notin Dead
  BY DEF HInv, LifeInv, Alive, Kinds
<1>2. base[x] = NULL /\ item[x] = NULL
  BY DEF HInv, FieldInv, BaseFits
<1>3. x \notin owns /\ x \notin stranded
  BY DEF HInv, OwnsInv, StrandedInv, Owners
<1>4. /\ \A o \in Obj : x # base[o] /\ x # item[o]
      /\ \A u \in Thread : x # frame[u].self /\ x # frame[u].new /\ x # frame[u].entry
  BY <1>1 DEF HInv, RefInv
<1>5. x \notin open
  BY <1>3, <1>4 DEF HInv, OwnerInv, Pending
<1> QED  BY <1>1, <1>2, <1>3, <1>4, <1>5

(* An object that a method is making is known to that method alone.        *)
LEMMA MadeAlone ==
  ASSUME HInv, NEW t \in Thread, NEW x \in Obj, x = frame[t].new \/ x = frame[t].entry
  PROVE  /\ refs[x] = {t} /\ x \notin Dead /\ Alive(x) /\ base[x] = NULL /\ item[x] = NULL
         /\ x \notin owns /\ x \notin stranded /\ x # frame[t].self
         /\ \A o \in Obj : x # base[o] /\ x # item[o]
         /\ \A u \in Thread : x # frame[u].self
         /\ \A u \in Thread \ {t} : x # frame[u].new /\ x # frame[u].entry
<1>1. /\ refs[x] = {t} /\ base[x] = NULL /\ item[x] = NULL
      /\ x \notin owns /\ x # frame[t].self
  BY DEF HInv, MadeInv
<1>2. x \notin Dead /\ Alive(x)
  BY <1>1 DEF HInv, LifeInv
<1>3. x \notin stranded
  BY <1>2 DEF HInv, StrandedInv, Alive, Kinds
<1>4. \A o \in Obj : o # t
  BY HandlesAssumption
<1>5. /\ \A o \in Obj : x # base[o] /\ x # item[o]
      /\ \A u \in Thread : x # frame[u].self
      /\ \A u \in Thread \ {t} : x # frame[u].new /\ x # frame[u].entry
  BY <1>1, <1>4 DEF HInv, RefInv
<1> QED  BY <1>1, <1>2, <1>3, <1>5

LEMMA LastInside ==
  ASSUME TypeOK, NEW u \in Thread, dying[u] # <<>>
  PROVE  Dying(u) \in Obj /\ Dying(u) \in ToSet(dying[u])
<1>1. dying[u] \in Seq(Obj) /\ Len(dying[u]) \in Nat /\ Len(dying[u]) # 0
  BY EmptySeq, LenProperties DEF TypeOK
<1>2. Len(dying[u]) \in 1..Len(dying[u])
  BY <1>1
<1>3. Dying(u) = dying[u][Len(dying[u])]
  BY DEF Dying, Last
<1>4. Dying(u) \in Obj
  BY <1>1, <1>2, <1>3, ElementOfSeq
<1> QED  BY <1>2, <1>3, <1>4 DEF ToSet

LEMMA DyingIsDead ==
  ASSUME TypeOK, NEW u \in Thread, dying[u] # <<>>
  PROVE  Dying(u) \in Obj /\ Dying(u) \in Dead
BY LastInside DEF Dead

(* A glfs_fini() that a thread is in goes on.                              *)
LEMMA FinishingKept ==
  ASSUME HInv, dying' = dying, gil' = gil \/ gil = NULL,
         \A x \in Dead : kind'[x] = kind[x] /\ (x \in owns => x \in owns')
  PROVE  \A u \in Thread : Finishing(u)' => Dying(u)' \in owns' /\ kind'[Dying(u)'] = "Volume"
<1> SUFFICES ASSUME NEW u \in Thread, Finishing(u)'
             PROVE  Dying(u)' \in owns' /\ kind'[Dying(u)'] = "Volume"
  OBVIOUS
<1>1. dying[u] # <<>> /\ gil # u /\ Dying(u)' = Dying(u)
  BY HandlesAssumption DEF Finishing, Dying
<1>2. Dying(u) \in Dead /\ Dying(u) \in owns /\ kind[Dying(u)] = "Volume"
  BY <1>1, DyingIsDead DEF HInv, TypeOK, Finishing
<1> QED  BY <1>1, <1>2

LEMMA SelfIntact ==
  ASSUME HInv, NEW u \in Thread, frame[u].at \notin {"python", "glfs_init", "return"}
  PROVE  frame[u].self \in Obj /\ Intact(frame[u].self)
         /\ refs[frame[u].self] # {} /\ frame[u].self \notin Dead
<1>1. frame[u].self \in Obj /\ kind[frame[u].self] \in Kinds \ {"FTSEntry"}
  BY DEF HInv, TypeOK, Frames, FrameInv, Native, Kinds
<1> DEFINE s == frame[u].self
<1>2. s \in Obj /\ kind[s] \in Kinds \ {"FTSEntry"}
  BY <1>1
<1>3. refs[s] # {} /\ s \notin Dead /\ ~BeingMade(s)
  BY <1>1, ReferredTo
<1>4. Intact(s)
  <2> HIDE DEF s
  <2> QED  BY <1>2, <1>3 DEF HInv, WholeInv, Intact, Owners
<1> QED  BY <1>2, <1>3, <1>4

(* The glfs_t of the handles that a step does not touch.                   *)
LEMMA FsKept ==
  ASSUME HInv, NEW C \in SUBSET Obj,
         \A c \in C : \A o \in Obj : c # base[o],
         \A x \in Obj \ C : base'[x] = base[x] /\ kind'[x] = kind[x] /\ fs'[x] = fs[x]
  PROVE  /\ \A x \in Obj \ C : Intact(x) => VolumeOf(x)' = VolumeOf(x)
         /\ \A x \in owns \ C : fs'[x] = VolumeOf(x)'
         /\ \A u \in Thread :
              frame'[u] = frame[u] /\ frame[u].self \notin C /\ frame[u].new \notin C =>
                /\ frame'[u].at = "glfs_init" => fs'[frame'[u].new] = frame'[u].new
                /\ frame'[u].at \in {"extract", "build"} =>
                     fs'[frame'[u].new] = VolumeOf(frame[u].self)'
<1>1. \A x \in Obj \ C : Intact(x) => VolumeOf(x)' = VolumeOf(x)
  BY VolumeKept
<1>2. ASSUME NEW x \in owns \ C PROVE fs'[x] = VolumeOf(x)'
  <2>1. x \in Obj /\ Intact(x)
    BY DEF HInv, TypeOK, OwnsInv, Intact, Owners, Kinds
  <2> QED  BY <1>1, <2>1 DEF HInv, FsInv
<1>3. ASSUME NEW u \in Thread, frame'[u] = frame[u],
             frame[u].self \notin C, frame[u].new \notin C, frame[u].at = "glfs_init"
      PROVE  fs'[frame'[u].new] = frame'[u].new
  BY <1>3 DEF HInv, FsInv, FrameInv, Making
<1>4. ASSUME NEW u \in Thread, frame'[u] = frame[u],
             frame[u].self \notin C, frame[u].new \notin C, frame[u].at \in {"extract", "build"}
      PROVE  fs'[frame'[u].new] = VolumeOf(frame[u].self)'
  <2>1. frame[u].self \in Obj \ C /\ Intact(frame[u].self)
    BY <1>4, SelfIntact
  <2>2. frame[u].new \in Obj \ C /\ fs[frame[u].new] = VolumeOf(frame[u].self)
    BY <1>4 DEF HInv, FsInv, FrameInv, Making
  <2> DEFINE s == frame[u].self
  <2>3. VolumeOf(s)' = VolumeOf(s)
    <3>1. frame'[u].self = s
      BY <1>4
    <3> QED  BY <1>1, <2>1, <3>1
  <2> QED  BY <1>4, <2>2, <2>3
<1> QED  BY <1>1, <1>2, <1>3, <1>4
-----------------------------------------------------------------------------
(* The steps: a Volume is made.                                            *)

LEMMA NewVolumeStep ==
  ASSUME HInv, NEW t \in Thread, NEW v \in Obj, NewVolume(t, v)
  PROVE  HInv'
<1>1. /\ kind[v] = "none" /\ dying[t] = <<>>
      /\ base' = base /\ item' = item /\ owns' = owns /\ gil' = gil /\ dying' = dying
      /\ wild' = wild /\ stranded' = stranded
  BY DEF NewVolume, HasGIL, Unused
<1>2. /\ kind'[v] = "Volume" /\ \A x \in Obj \ {v} : kind'[x] = kind[x]
      /\ fs'[v] = v /\ \A x \in Obj \ {v} : fs'[x] = fs[x]
  BY DEF NewVolume, HInv, TypeOK
<1>3. refs'[v] = {t} /\ \A x \in Obj \ {v} : refs'[x] = refs[x]
  BY DEF NewVolume, HInv, TypeOK
<1>4. open' = open \cup {v}
  BY DEF NewVolume
<1>5. /\ frame[t].at = "python" /\ frame[t].self = NULL /\ frame[t].new = NULL /\ frame[t].entry = NULL
      /\ \A u \in Thread \ {t} : frame'[u] = frame[u]
      /\ frame'[t].at = "glfs_init" /\ frame'[t].self = NULL
      /\ frame'[t].new = v /\ frame'[t].entry = NULL
  BY DEF NewVolume, InPython, HInv, TypeOK, FrameInv, Making
<1>6. /\ refs[v] = {} /\ v \notin Dead /\ base[v] = NULL /\ item[v] = NULL
      /\ v \notin owns /\ v \notin stranded /\ v \notin open
      /\ \A o \in Obj : v # base[o] /\ v # item[o]
      /\ \A u \in Thread : v # frame[u].self /\ v # frame[u].new /\ v # frame[u].entry
  BY <1>1, FreePlace
<1>7. Dead' = Dead /\ DyingInv' /\ \A u : Dying(u)' = Dying(u)
  BY <1>1, DeadKept DEF HInv
<1>8. \A x \in Obj : t # x /\ NULL # x /\ Python # x
  BY HandlesAssumption
<1>9. \A x \in Obj : BeingMade(x)' <=> BeingMade(x) \/ x = v
  BY <1>5, <1>8 DEF BeingMade
<1>10. TypeOK'
  <2>1. \A u \in Thread : Finishing(u)' => Dying(u)' \in owns' /\ kind'[Dying(u)'] = "Volume"
    <3>1. \A x \in Dead : kind'[x] = kind[x] /\ (x \in owns => x \in owns')
      BY <1>1, <1>2, <1>6 DEF HInv, TypeOK, Dead, ToSet
    <3> QED  BY <1>1, <3>1, FinishingKept
  <2> QED  BY <2>1, HandlesAssumption
           DEF NewVolume, HInv, TypeOK, Frames, InPython, Native, Holders, Kinds
<1>11. RefInv'
  <2>1. RefInv /\ base' = base /\ item' = item
    BY <1>1 DEF HInv
  <2>2. \A x, o \in Obj : o \in refs'[x] <=> o \in refs[x]
    BY <1>3, <1>6, <1>8
  <2>3. \A x \in Obj : \A u \in Thread \ {t} : u \in refs'[x] <=> u \in refs[x]
    BY <1>3, <1>6
  <2>4. \A x \in Obj : t \in refs'[x] <=> x = v
    BY <1>3, <1>5, <1>8 DEF HInv, RefInv
  <2> QED  BY <1>5, <1>8, <2>1, <2>2, <2>3, <2>4 DEF RefInv
<1>12. FieldInv' /\ StrandedInv' /\ BusyInv'
  <2>1. FieldInv'
    BY <1>1, <1>2, <1>6 DEF HInv, TypeOK, FieldInv, BaseFits
  <2>2. StrandedInv' /\ BusyInv'
    BY <1>1, <1>2, <1>5, <1>6 DEF HInv, StrandedInv, BusyInv
  <2> QED  BY <2>1, <2>2
<1>13. LifeInv'
  BY <1>2, <1>3, <1>6, <1>7 DEF HInv, LifeInv, Alive, Kinds
<1>14. FrameInv'
  BY <1>2, <1>5, <1>6 DEF HInv, FrameInv, Making
<1>15. MadeInv'
  <2>1. MadeInv /\ base' = base /\ item' = item /\ owns' = owns
    BY <1>1 DEF HInv
  <2> QED  BY <1>3, <1>5, <1>6, <1>8, <2>1 DEF MadeInv
<1>16. WholeInv' /\ OwnsInv'
  <2>1. WholeInv'
    BY <1>1, <1>2, <1>3, <1>9 DEF HInv, WholeInv
  <2>2. OwnsInv'
    BY <1>1, <1>2, <1>6 DEF HInv, TypeOK, OwnsInv
  <2> QED  BY <2>1, <2>2
<1>17. OwnerInv'
  <2>1. \A x : Pending(x)' <=> Pending(x) \/ x = v
    BY <1>5 DEF Pending
  <2>2. \A x \in owns : Alive(x)'
    BY <1>2, <1>6 DEF HInv, TypeOK, OwnerInv, Alive
  <2>3. OwnerInv /\ owns' = owns /\ stranded' = stranded
    BY <1>1 DEF HInv
  <2> QED  BY <1>4, <2>1, <2>2, <2>3 DEF OwnerInv
<1>18. FsInv'
  <2> DEFINE C == {v}
  <2>1. /\ \A x \in owns \ C : fs'[x] = VolumeOf(x)'
        /\ \A u \in Thread :
              frame'[u] = frame[u] /\ frame[u].self \notin C /\ frame[u].new \notin C =>
                /\ frame'[u].at = "glfs_init" => fs'[frame'[u].new] = frame'[u].new
                /\ frame'[u].at \in {"extract", "build"} =>
                     fs'[frame'[u].new] = VolumeOf(frame[u].self)'
    <3>1. C \in SUBSET Obj
      OBVIOUS
    <3>2. \A c \in C : \A o \in Obj : c # base[o]
      BY <1>6
    <3>3. \A x \in Obj \ C : base'[x] = base[x] /\ kind'[x] = kind[x] /\ fs'[x] = fs[x]
      BY <1>1, <1>2
    <3> HIDE DEF C
    <3> QED  BY <3>1, <3>2, <3>3, FsKept
  <2> QED  BY <1>1, <1>2, <1>5, <1>6, <2>1 DEF FsInv
<1> QED  BY <1>7, <1>10, <1>11, <1>12, <1>13, <1>14, <1>15, <1>16, <1>17, <1>18 DEF HInv

LEMMA VolumeReadyStep ==
  ASSUME HInv, NEW t \in Thread, VolumeReady(t)
  PROVE  HInv'
<1> DEFINE v == frame[t].new
<1>1. /\ v \in Obj /\ kind[v] = "Volume" /\ gil = NULL /\ gil' = t
      /\ kind' = kind /\ base' = base /\ item' = item /\ open' = open /\ dying' = dying
      /\ wild' = wild /\ stranded' = stranded /\ fs' = fs /\ owns' = owns \cup {v}
  BY DEF VolumeReady, Back, Leave, native, HInv, FrameInv, Making
<1>2. refs'[v] = {Python} /\ \A x \in Obj \ {v} : refs'[x] = refs[x]
  BY <1>1 DEF VolumeReady, HInv, TypeOK
<1>3. /\ frame[t].at = "glfs_init" /\ frame[t].self = NULL /\ frame[t].entry = NULL
      /\ \A u \in Thread \ {t} : frame'[u] = frame[u]
      /\ frame'[t].at = "return" /\ frame'[t].self = NULL
      /\ frame'[t].new = NULL /\ frame'[t].entry = NULL
  BY DEF VolumeReady, Back, Leave, HInv, TypeOK, Frames, FrameInv, Making
<1>4. /\ refs[v] = {t} /\ v \notin Dead /\ Alive(v) /\ base[v] = NULL /\ item[v] = NULL
      /\ v \notin owns /\ v \notin stranded
      /\ \A o \in Obj : v # base[o] /\ v # item[o]
      /\ \A u \in Thread : v # frame[u].self
      /\ \A u \in Thread \ {t} : v # frame[u].new /\ v # frame[u].entry
  BY <1>1, MadeAlone
<1>5. fs[v] = v
  BY <1>3 DEF HInv, FsInv
<1>6. TypeOK'
  <2>1. \A u \in Thread : Finishing(u)' => Dying(u)' \in owns' /\ kind'[Dying(u)'] = "Volume"
    BY <1>1, FinishingKept
  <2> QED  BY <1>1, <2>1, HandlesAssumption
           DEF VolumeReady, Leave, HInv, TypeOK, Frames, Native, Holders
<1> HIDE DEF v
<1>7. Dead' = Dead /\ DyingInv' /\ \A x : VolumeOf(x)' = VolumeOf(x)
  BY <1>1, DeadKept, Unmoved DEF HInv
<1>8. \A x \in Obj : t # x /\ NULL # x /\ Python # x
  BY HandlesAssumption
<1>9. v = frame[t].new
  BY DEF v
<1>10. RefInv'
  <2>1. RefInv /\ base' = base /\ item' = item
    BY <1>1 DEF HInv
  <2>2. \A x, o \in Obj : o \in refs'[x] <=> o \in refs[x]
    BY <1>2, <1>4, <1>8
  <2>3. \A x \in Obj : \A u \in Thread \ {t} : u \in refs'[x] <=> u \in refs[x]
    BY <1>2, <1>4, HandlesAssumption
  <2>4. \A x \in Obj : t \notin refs'[x]
    BY <1>2, <1>3, <1>8, <1>9, <2>1, HandlesAssumption DEF RefInv
  <2> QED  BY <1>3, <1>8, <2>1, <2>2, <2>3, <2>4 DEF RefInv
<1>11. FieldInv' /\ StrandedInv' /\ BusyInv' /\ FrameInv'
  <2>1. FieldInv' /\ StrandedInv'
    BY <1>1 DEF HInv, FieldInv, BaseFits, StrandedInv
  <2>2. BusyInv' /\ FrameInv'
    BY <1>1, <1>3 DEF HInv, BusyInv, FrameInv, Making
  <2> QED  BY <2>1, <2>2
<1>12. LifeInv'
  BY <1>1, <1>2, <1>4, <1>7 DEF HInv, LifeInv, Alive
<1>13. MadeInv'
  <2>1. MadeInv /\ base' = base /\ item' = item /\ owns' = owns \cup {v}
    BY <1>1 DEF HInv
  <2>2. \A u \in Thread : \A x \in Obj : x = frame'[u].new \/ x = frame'[u].entry =>
          u # t /\ frame'[u] = frame[u] /\ x # v
    BY <1>3, <1>4, <1>8
  <2> QED  BY <1>2, <2>1, <2>2 DEF MadeInv
<1>14. WholeInv' /\ OwnsInv'
  <2>1. \A x \in Obj \ {v} : BeingMade(x)' <=> BeingMade(x)
    BY <1>3, <1>8, <1>9 DEF BeingMade
  <2>2. WholeInv'
    BY <1>1, <1>2, <2>1 DEF HInv, WholeInv
  <2>3. OwnsInv'
    BY <1>1 DEF HInv, OwnsInv, Owners
  <2> QED  BY <2>2, <2>3
<1>15. OwnerInv'
  <2>1. \A x : Pending(x) <=> Pending(x)' \/ x = v
    BY <1>3, <1>9 DEF Pending
  <2>2. \A x \in owns' : Alive(x)'
    BY <1>1, <1>4 DEF HInv, OwnerInv, Alive
  <2>3. OwnerInv /\ owns' = owns \cup {v} /\ stranded' = stranded /\ open' = open
    BY <1>1 DEF HInv
  <2> QED  BY <1>4, <2>1, <2>2, <2>3 DEF OwnerInv
<1>16. FsInv'
  <2>1. \A x \in owns' : fs'[x] = VolumeOf(x)'
    BY <1>1, <1>5, <1>7 DEF HInv, FsInv, VolumeOf
  <2> QED  BY <1>1, <1>3, <1>7, <2>1 DEF HInv, FsInv
<1> QED  BY <1>6, <1>7, <1>10, <1>11, <1>12, <1>13, <1>14, <1>15, <1>16 DEF HInv
-----------------------------------------------------------------------------
(* The steps: what a method was making is released.                        *)

LEMMA ReleaseStep ==
  ASSUME HInv, NEW t \in Thread, NEW C \in SUBSET Obj,
         frame[t].at \in Making, gil = NULL, Leave(t),
         \A x \in Obj : x \in C <=> x = frame[t].new \/ x = frame[t].entry,
         UNCHANGED <<base, item, owns, dying>>, wild' \in BOOLEAN,
         kind' \in [Obj -> Kinds \cup {"none", "stranded"}],
         refs' \in [Obj -> SUBSET Holders], fs' \in [Obj -> Obj \cup {NULL}],
         open' \subseteq Obj, stranded' \subseteq Obj,
         \A x \in Obj \ C : /\ kind'[x] = kind[x] /\ refs'[x] = refs[x] /\ fs'[x] = fs[x]
                            /\ (x \in open' <=> x \in open)
                            /\ (x \in stranded' <=> x \in stranded),
         \A x \in C : /\ refs'[x] = {} /\ kind'[x] \in {"none", "stranded"}
                      /\ (x \in stranded' <=> kind'[x] = "stranded")
                      /\ (x \in open' <=> x \in stranded')
  PROVE  HInv'
<1>1. base' = base /\ item' = item /\ owns' = owns /\ dying' = dying /\ gil' = t
  BY DEF Leave
<1>2. /\ \A u \in Thread \ {t} : frame'[u] = frame[u]
      /\ frame'[t].at = "return" /\ frame'[t].self = frame[t].self
      /\ frame'[t].new = NULL /\ frame'[t].entry = NULL
  BY LeaveFrames DEF HInv
<1>3. \A x \in C :
        /\ refs[x] = {t} /\ x \notin Dead /\ base[x] = NULL /\ item[x] = NULL
        /\ x \notin owns /\ x # frame[t].self
        /\ \A o \in Obj : x # base[o] /\ x # item[o]
        /\ \A u \in Thread : x # frame[u].self
        /\ \A u \in Thread \ {t} : x # frame[u].new /\ x # frame[u].entry
  BY MadeAlone
<1>4. Dead' = Dead /\ DyingInv' /\ \A u : Dying(u)' = Dying(u)
  BY DeadKept DEF HInv
<1>5. \A x \in Obj : t # x /\ NULL # x /\ Python # x
  BY HandlesAssumption
<1>6. TypeOK'
  <2>1. \A x \in Dead : kind'[x] = kind[x] /\ (x \in owns => x \in owns')
    BY <1>1, <1>3 DEF HInv, TypeOK, Dead, ToSet
  <2>2. \A u \in Thread : Finishing(u)' => Dying(u)' \in owns' /\ kind'[Dying(u)'] = "Volume"
    BY <1>1, <2>1, FinishingKept
  <2>3. frame' \in [Thread -> Frames]
    BY LeaveFrames DEF HInv
  <2> QED  BY <1>1, <2>2, <2>3 DEF HInv, TypeOK
<1>7. RefInv'
  <2>1. RefInv /\ base' = base /\ item' = item
    BY <1>1 DEF HInv
  <2>2. \A x, o \in Obj : o \in refs'[x] <=> o \in refs[x]
    BY <1>3, <1>5
  <2>3. \A x \in Obj : \A u \in Thread \ {t} : u \in refs'[x] <=> u \in refs[x]
    BY <1>3
  <2>4. \A x \in Obj : t \in refs'[x] <=> x = frame[t].self
    BY <1>3, <2>1 DEF RefInv
  <2> QED  BY <1>2, <1>5, <2>1, <2>2, <2>3, <2>4 DEF RefInv
<1>8. FieldInv'
  <2>1. FieldInv /\ base' = base /\ item' = item /\ TypeOK
    BY <1>1 DEF HInv
  <2>2. \A x \in C : base[x] = NULL /\ item[x] = NULL
    BY <1>3
  <2>3. \A o \in Obj : base[o] \notin C /\ item[o] \notin C
    BY <1>3
  <2> QED  BY <2>1, <2>2, <2>3 DEF TypeOK, FieldInv, BaseFits
<1>9. StrandedInv' /\ BusyInv'
  BY <1>1, <1>2 DEF HInv, StrandedInv, BusyInv
<1>10. FrameInv'
  <2>1. FrameInv
    BY DEF HInv
  <2>2. \A u \in Thread \ {t} :
          frame[u].self \notin C /\ frame[u].new \notin C /\ frame[u].entry \notin C
    BY <1>3
  <2> QED  BY <1>2, <2>1, <2>2 DEF FrameInv, Making
<1>11. LifeInv'
  BY <1>3, <1>4 DEF HInv, LifeInv, Alive, Kinds
<1>12. MadeInv'
  <2>1. MadeInv
    BY DEF HInv
  <2>2. \A u \in Thread : \A x \in Obj : x = frame'[u].new \/ x = frame'[u].entry =>
          u # t /\ frame'[u] = frame[u] /\ x \notin C
    BY <1>2, <1>3, <1>5
  <2> QED  BY <1>1, <2>1, <2>2 DEF MadeInv
<1>13. WholeInv' /\ OwnsInv'
  <2>1. \A x \in Obj : BeingMade(x) <=> BeingMade(x)' \/ x \in C
    BY <1>2, <1>5 DEF BeingMade
  <2>2. WholeInv'
    BY <1>1, <2>1 DEF HInv, WholeInv
  <2>3. OwnsInv'
    BY <1>1, <1>3 DEF HInv, TypeOK, OwnsInv
  <2> QED  BY <2>2, <2>3
<1>14. OwnerInv'
  <2>1. \A x \in Obj \ C : Pending(x)' <=> Pending(x)
    BY <1>2, <1>5 DEF Pending
  <2>2. \A x : Pending(x)' => x \in Obj \ C
    BY <1>2, <1>3 DEF Pending, HInv, FrameInv, Making
  <2>3. OwnerInv /\ owns' = owns /\ owns \subseteq Obj /\ open \subseteq Obj
    BY <1>1 DEF HInv, TypeOK
  <2>4. \A x \in owns : x \notin stranded' /\ Alive(x)'
    BY <1>3, <2>3 DEF OwnerInv, Alive
  <2> QED  BY <1>3, <2>1, <2>2, <2>3, <2>4 DEF OwnerInv
<1>15. FsInv'
  <2>1. /\ \A x \in owns \ C : fs'[x] = VolumeOf(x)'
        /\ \A u \in Thread :
              frame'[u] = frame[u] /\ frame[u].self \notin C /\ frame[u].new \notin C =>
                /\ frame'[u].at = "glfs_init" => fs'[frame'[u].new] = frame'[u].new
                /\ frame'[u].at \in {"extract", "build"} =>
                     fs'[frame'[u].new] = VolumeOf(frame[u].self)'
    <3>1. \A c \in C : \A o \in Obj : c # base[o]
      BY <1>3
    <3>2. \A x \in Obj \ C : base'[x] = base[x] /\ kind'[x] = kind[x] /\ fs'[x] = fs[x]
      BY <1>1
    <3> QED  BY <3>1, <3>2, FsKept
  <2>2. \A u \in Thread \ {t} : frame[u].self \notin C /\ frame[u].new \notin C
    BY <1>3
  <2>3. \A x \in owns' : x \in owns \ C
    BY <1>1, <1>3
  <2> QED  BY <1>2, <2>1, <2>2, <2>3 DEF FsInv
<1> QED  BY <1>4, <1>6, <1>7, <1>8, <1>9, <1>10, <1>11, <1>12, <1>13, <1>14, <1>15 DEF HInv

(* The four ways to get there.                                             *)
LEMMA ReleaseSteps ==
  ASSUME HInv, NEW t \in Thread,
         \/ VolumeFails(t) \/ ExtractFails(t) \/ BuildFails(t)
         \/ \E garbage \in BOOLEAN : IterFails(t, garbage)
  PROVE  HInv'
<1>1. TypeOK /\ OwnerInv /\ StrandedInv /\ FrameInv
  BY DEF HInv
<1>2. \A x \in Obj : x = frame[t].new \/ x = frame[t].entry =>
        x \notin owns /\ x \notin stranded /\ \A u \in Thread \ {t} : x # frame[u].new
  BY MadeAlone
<1>3. CASE VolumeFails(t)
  <2> DEFINE C == {frame[t].new}
  <2>1. frame[t].at = "glfs_init" /\ frame[t].new \in Obj /\ frame[t].entry = NULL
    BY <1>1, <1>3 DEF VolumeFails, Back, FrameInv, Making
  <2>2. C \in SUBSET Obj /\ \A x \in Obj : x \in C <=> x = frame[t].new \/ x = frame[t].entry
    BY <2>1, HandlesAssumption
  <2>3. \A x \in Obj \ C : /\ kind'[x] = kind[x] /\ refs'[x] = refs[x] /\ fs'[x] = fs[x]
                           /\ (x \in open' <=> x \in open)
                           /\ (x \in stranded' <=> x \in stranded)
    BY <1>1, <1>3 DEF VolumeFails, TypeOK
  <2>4. \A x \in C : /\ refs'[x] = {} /\ kind'[x] \in {"none", "stranded"}
                     /\ (x \in stranded' <=> kind'[x] = "stranded")
                     /\ (x \in open' <=> x \in stranded')
    BY <1>1, <1>2, <1>3, <2>1 DEF VolumeFails, TypeOK
  <2>5. /\ kind' \in [Obj -> Kinds \cup {"none", "stranded"}]
        /\ refs' \in [Obj -> SUBSET Holders] /\ fs' \in [Obj -> Obj \cup {NULL}]
        /\ open' \subseteq Obj /\ stranded' \subseteq Obj /\ wild' \in BOOLEAN
    BY <1>1, <1>3 DEF VolumeFails, TypeOK, Kinds
  <2>6. /\ frame[t].at \in Making /\ gil = NULL /\ Leave(t)
        /\ UNCHANGED <<base, item, owns, dying>>
    BY <1>3, <2>1 DEF VolumeFails, Back, Making
  <2> HIDE DEF C
  <2> QED  BY <2>2, <2>3, <2>4, <2>5, <2>6, ReleaseStep
<1>4. CASE ExtractFails(t)
  <2> DEFINE C == {frame[t].new}
  <2>1. frame[t].at = "extract" /\ frame[t].new \in Obj /\ frame[t].entry = NULL
    BY <1>1, <1>4 DEF ExtractFails, Back, FrameInv, Making
  <2>2. C \in SUBSET Obj /\ \A x \in Obj : x \in C <=> x = frame[t].new \/ x = frame[t].entry
    BY <2>1, HandlesAssumption
  <2>3. \A x \in Obj \ C : /\ kind'[x] = kind[x] /\ refs'[x] = refs[x] /\ fs'[x] = fs[x]
                           /\ (x \in open' <=> x \in open)
                           /\ (x \in stranded' <=> x \in stranded)
    BY <1>1, <1>4 DEF ExtractFails, TypeOK
  <2>4. frame[t].new \in open
    BY <1>1, <2>1 DEF OwnerInv, Pending
  <2>5. \A x \in C : /\ refs'[x] = {} /\ kind'[x] \in {"none", "stranded"}
                     /\ (x \in stranded' <=> kind'[x] = "stranded")
                     /\ (x \in open' <=> x \in stranded')
    BY <1>1, <1>4, <2>1, <2>4 DEF ExtractFails, TypeOK
  <2>6. /\ kind' \in [Obj -> Kinds \cup {"none", "stranded"}]
        /\ refs' \in [Obj -> SUBSET Holders] /\ fs' \in [Obj -> Obj \cup {NULL}]
        /\ open' \subseteq Obj /\ stranded' \subseteq Obj /\ wild' \in BOOLEAN
    BY <1>1, <1>4, <2>1 DEF ExtractFails, TypeOK, Kinds
  <2>7. /\ frame[t].at \in Making /\ gil = NULL /\ Leave(t)
        /\ UNCHANGED <<base, item, owns, dying>>
    BY <1>4, <2>1 DEF ExtractFails, Back, Making
  <2> HIDE DEF C
  <2> QED  BY <2>2, <2>3, <2>5, <2>6, <2>7, ReleaseStep
<1>5. CASE BuildFails(t)
  <2> DEFINE C == {frame[t].new, frame[t].entry}
  <2>1. /\ frame[t].at = "build" /\ frame[t].new \in Obj /\ frame[t].entry \in Obj
        /\ kind[frame[t].new] = "ObjectHandle" /\ kind[frame[t].entry] = "FTSEntry"
    BY <1>1, <1>5 DEF BuildFails, Back, FrameInv, Making
  <2>2. C \in SUBSET Obj /\ \A x \in Obj : x \in C <=> x = frame[t].new \/ x = frame[t].entry
    BY <2>1
  <2>3. \A x \in Obj \ C : /\ kind'[x] = kind[x] /\ refs'[x] = refs[x] /\ fs'[x] = fs[x]
                           /\ (x \in open' <=> x \in open)
                           /\ (x \in stranded' <=> x \in stranded)
    BY <1>1, <1>5 DEF BuildFails, TypeOK
  <2>4. frame[t].new \in open /\ frame[t].entry \notin open
    BY <1>1, <1>2, <2>1 DEF OwnerInv, Pending
  <2>5. \A x \in C : /\ refs'[x] = {} /\ kind'[x] \in {"none", "stranded"}
                     /\ (x \in stranded' <=> kind'[x] = "stranded")
                     /\ (x \in open' <=> x \in stranded')
    BY <1>1, <1>2, <1>5, <2>1, <2>4 DEF BuildFails, TypeOK
  <2>6. /\ kind' \in [Obj -> Kinds \cup {"none", "stranded"}]
        /\ refs' \in [Obj -> SUBSET Holders] /\ fs' \in [Obj -> Obj \cup {NULL}]
        /\ open' \subseteq Obj /\ stranded' \subseteq Obj /\ wild' \in BOOLEAN
    BY <1>1, <1>5, <2>1 DEF BuildFails, TypeOK, Kinds
  <2>7. /\ frame[t].at \in Making /\ gil = NULL /\ Leave(t)
        /\ UNCHANGED <<base, item, owns, dying>>
    BY <1>5, <2>1 DEF BuildFails, Back, Making
  <2> HIDE DEF C
  <2> QED  BY <2>2, <2>3, <2>5, <2>6, <2>7, ReleaseStep
<1>6. CASE \E garbage \in BOOLEAN : IterFails(t, garbage)
  <2> DEFINE C == {frame[t].new}
  <2> PICK garbage \in BOOLEAN : IterFails(t, garbage)
    BY <1>6
  <2>1. frame[t].at = "opendir" /\ frame[t].new \in Obj /\ frame[t].entry = NULL
    BY <1>1 DEF IterFails, Back, FrameInv, Making
  <2>2. C \in SUBSET Obj /\ \A x \in Obj : x \in C <=> x = frame[t].new \/ x = frame[t].entry
    BY <2>1, HandlesAssumption
  <2>3. open' = open /\ stranded' = stranded /\ fs' = fs /\ wild' = garbage
    BY DEF IterFails, native
  <2>4. \A x \in Obj \ C : /\ kind'[x] = kind[x] /\ refs'[x] = refs[x] /\ fs'[x] = fs[x]
                           /\ (x \in open' <=> x \in open)
                           /\ (x \in stranded' <=> x \in stranded)
    BY <1>1, <2>3 DEF IterFails, TypeOK
  <2>5. frame[t].new \notin open
    BY <1>1, <1>2, <2>1 DEF OwnerInv, Pending
  <2>6. \A x \in C : /\ refs'[x] = {} /\ kind'[x] \in {"none", "stranded"}
                     /\ (x \in stranded' <=> kind'[x] = "stranded")
                     /\ (x \in open' <=> x \in stranded')
    BY <1>1, <1>2, <2>1, <2>3, <2>5 DEF IterFails, TypeOK
  <2>7. /\ kind' \in [Obj -> Kinds \cup {"none", "stranded"}]
        /\ refs' \in [Obj -> SUBSET Holders] /\ fs' \in [Obj -> Obj \cup {NULL}]
        /\ open' \subseteq Obj /\ stranded' \subseteq Obj /\ wild' \in BOOLEAN
    BY <1>1, <2>3 DEF IterFails, TypeOK, Kinds
  <2>8. /\ frame[t].at \in Making /\ gil = NULL /\ Leave(t)
        /\ UNCHANGED <<base, item, owns, dying>>
    BY <2>1 DEF IterFails, Back, Making
  <2> HIDE DEF C
  <2> QED  BY <2>2, <2>4, <2>6, <2>7, <2>8, ReleaseStep
<1> QED  BY <1>3, <1>4, <1>5, <1>6

(* A method ends and nothing will close what it has opened: the object it  *)
(* was about to make cannot be allocated, or setattrs() has failed.        *)
Strands(t, o) == LookedNoMemory(t, o) \/ UsedNoCleanup(t, o) \/ CopiedNoMemory(t, o)

LEMMA StrandStep ==
  ASSUME HInv, NEW t \in Thread, NEW o \in Obj, Strands(t, o)
  PROVE  HInv'
<1>1. /\ kind[o] = "none" /\ frame[t].at \in {"lookup", "use", "next"} /\ gil = NULL /\ Leave(t)
      /\ refs' = refs /\ base' = base /\ item' = item /\ owns' = owns /\ dying' = dying
      /\ wild' = wild /\ fs' = fs
      /\ stranded' = stranded \cup {o} /\ open' = open \cup {o}
      /\ kind' = [kind EXCEPT ![o] = "stranded"]
  BY DEF Strands, LookedNoMemory, UsedNoCleanup, CopiedNoMemory, Back, Unused
<1>2. kind'[o] = "stranded" /\ \A x \in Obj \ {o} : kind'[x] = kind[x]
  BY <1>1 DEF HInv, TypeOK
<1>3. /\ frame' \in [Thread -> Frames] /\ gil' = t
      /\ \A u \in Thread \ {t} : frame'[u] = frame[u]
      /\ frame'[t].at = "return" /\ frame'[t].self = frame[t].self
      /\ frame'[t].new = NULL /\ frame'[t].entry = NULL
  BY <1>1, LeaveFrames DEF HInv
<1>4. frame[t].new = NULL /\ frame[t].entry = NULL
  BY <1>1 DEF HInv, FrameInv, Making
<1>5. /\ refs[o] = {} /\ o \notin Dead /\ base[o] = NULL /\ item[o] = NULL
      /\ o \notin owns /\ o \notin stranded /\ o \notin open
      /\ \A x \in Obj : o # base[x] /\ o # item[x]
      /\ \A u \in Thread : o # frame[u].self /\ o # frame[u].new /\ o # frame[u].entry
  BY <1>1, FreePlace
<1>6. Dead' = Dead /\ DyingInv' /\ \A u : Dying(u)' = Dying(u)
  BY <1>1, DeadKept DEF HInv
<1>7. \A x \in Obj : BeingMade(x)' <=> BeingMade(x)
  BY <1>3, <1>4, HandlesAssumption DEF BeingMade
<1>8. TypeOK'
  <2>1. \A x \in Dead : kind'[x] = kind[x] /\ (x \in owns => x \in owns')
    BY <1>1, <1>2, <1>5 DEF HInv, TypeOK, Dead, ToSet
  <2>2. \A u \in Thread : Finishing(u)' => Dying(u)' \in owns' /\ kind'[Dying(u)'] = "Volume"
    BY <1>1, <1>3, <2>1, FinishingKept
  <2> QED  BY <1>1, <1>3, <2>2 DEF HInv, TypeOK
<1>9. RefInv'
  <2>1. RefInv /\ refs' = refs /\ base' = base /\ item' = item
    BY <1>1 DEF HInv
  <2> QED  BY <1>3, <1>4, <2>1 DEF RefInv
<1>10. FieldInv'
  <2>1. FieldInv /\ base' = base /\ item' = item /\ TypeOK
    BY <1>1 DEF HInv
  <2> QED  BY <1>2, <1>5, <2>1 DEF TypeOK, FieldInv, BaseFits
<1>11. StrandedInv' /\ BusyInv'
  BY <1>1, <1>2, <1>3, <1>5 DEF HInv, StrandedInv, BusyInv
<1>12. FrameInv'
  <2>1. FrameInv
    BY DEF HInv
  <2> QED  BY <1>2, <1>3, <1>5, <2>1 DEF FrameInv, Making
<1>13. LifeInv'
  BY <1>1, <1>2, <1>5, <1>6 DEF HInv, LifeInv, Alive, Kinds
<1>14. MadeInv'
  <2>1. MadeInv /\ refs' = refs /\ base' = base /\ item' = item /\ owns' = owns
    BY <1>1 DEF HInv
  <2> QED  BY <1>3, <1>4, <2>1, HandlesAssumption DEF MadeInv
<1>15. WholeInv' /\ OwnsInv'
  <2>1. WholeInv'
    BY <1>1, <1>2, <1>5, <1>7 DEF HInv, WholeInv
  <2>2. OwnsInv'
    BY <1>1, <1>2, <1>5 DEF HInv, TypeOK, OwnsInv
  <2> QED  BY <2>1, <2>2
<1>16. OwnerInv'
  <2>1. \A x : Pending(x)' <=> Pending(x)
    BY <1>1, <1>3 DEF Pending
  <2>2. \A x \in owns : x # o /\ Alive(x)'
    BY <1>2, <1>5 DEF HInv, TypeOK, OwnerInv, Alive
  <2>3. OwnerInv /\ owns' = owns /\ stranded' = stranded \cup {o} /\ open' = open \cup {o}
    BY <1>1 DEF HInv
  <2> QED  BY <2>1, <2>2, <2>3 DEF OwnerInv
<1>17. FsInv'
  <2> DEFINE C == {o}
  <2>1. /\ \A x \in owns \ C : fs'[x] = VolumeOf(x)'
        /\ \A u \in Thread :
              frame'[u] = frame[u] /\ frame[u].self \notin C /\ frame[u].new \notin C =>
                /\ frame'[u].at = "glfs_init" => fs'[frame'[u].new] = frame'[u].new
                /\ frame'[u].at \in {"extract", "build"} =>
                     fs'[frame'[u].new] = VolumeOf(frame[u].self)'
    <3>1. C \in SUBSET Obj /\ \A c \in C : \A x \in Obj : c # base[x]
      BY <1>5
    <3>2. \A x \in Obj \ C : base'[x] = base[x] /\ kind'[x] = kind[x] /\ fs'[x] = fs[x]
      BY <1>1, <1>2
    <3> HIDE DEF C
    <3> QED  BY <3>1, <3>2, FsKept
  <2> QED  BY <1>1, <1>3, <1>5, <2>1 DEF FsInv
<1> QED  BY <1>6, <1>8, <1>9, <1>10, <1>11, <1>12, <1>13, <1>14, <1>15, <1>16, <1>17 DEF HInv
-----------------------------------------------------------------------------
(* The steps: a method has a new handle and makes an object for it.        *)

LEMMA MakeStep ==
  ASSUME HInv, NEW t \in Thread, NEW C \in SUBSET Obj, NEW h \in C,
         frame[t].at \notin Making \cup {"python", "return"},
         UNCHANGED <<base, item, owns, stranded, gil, dying, wild>>,
         \A x \in C : kind[x] = "none" /\ kind'[x] \in Kinds /\ refs'[x] = {t},
         \A x \in Obj \ C : kind'[x] = kind[x] /\ refs'[x] = refs[x] /\ fs'[x] = fs[x],
         fs'[h] = VolumeOf(frame[t].self), open' = open \cup {h},
         kind' \in [Obj -> Kinds \cup {"none", "stranded"}],
         refs' \in [Obj -> SUBSET Holders], fs' \in [Obj -> Obj \cup {NULL}],
         frame' \in [Thread -> Frames],
         \A u \in Thread \ {t} : frame'[u] = frame[u],
         frame'[t].self = frame[t].self, frame'[t].new = h,
         \A x \in Obj : x \in C <=> x = frame'[t].new \/ x = frame'[t].entry,
         kind'[h] = "ObjectHandle",
         \/ /\ frame'[t].at = "extract" /\ frame[t].at = "lookup"
            /\ frame'[t].entry = NULL
         \/ /\ frame'[t].at = "build" /\ frame[t].at = "next"
            /\ frame'[t].entry \in C /\ kind'[frame'[t].entry] = "FTSEntry"
  PROVE  HInv'
<1>1. /\ base' = base /\ item' = item /\ owns' = owns /\ dying' = dying /\ gil' = gil
      /\ stranded' = stranded /\ wild' = wild
  OBVIOUS
<1>2. frame[t].new = NULL /\ frame[t].entry = NULL /\ dying[t] = <<>>
  BY DEF HInv, FrameInv, BusyInv, Making
<1>3. \A x \in C :
        /\ refs[x] = {} /\ x \notin Dead /\ base[x] = NULL /\ item[x] = NULL
        /\ x \notin owns /\ x \notin stranded /\ x \notin open
        /\ \A o \in Obj : x # base[o] /\ x # item[o]
        /\ \A u \in Thread : x # frame[u].self /\ x # frame[u].new /\ x # frame[u].entry
  BY FreePlace
<1>4. Dead' = Dead /\ DyingInv' /\ \A u : Dying(u)' = Dying(u)
  BY DeadKept DEF HInv
<1>5. \A x \in Obj : t # x /\ NULL # x /\ Python # x
  BY HandlesAssumption
<1>6. TypeOK'
  <2>1. \A x \in Dead : kind'[x] = kind[x] /\ (x \in owns => x \in owns')
    BY <1>1, <1>3 DEF HInv, TypeOK, Dead, ToSet
  <2>2. \A u \in Thread : Finishing(u)' => Dying(u)' \in owns' /\ kind'[Dying(u)'] = "Volume"
    BY <1>1, <2>1, FinishingKept
  <2> QED  BY <1>1, <2>2 DEF HInv, TypeOK
<1>7. RefInv'
  <2>1. RefInv /\ base' = base /\ item' = item
    BY <1>1 DEF HInv
  <2>2. \A x, o \in Obj : o \in refs'[x] <=> o \in refs[x]
    BY <1>3, <1>5
  <2>3. \A x \in Obj : \A u \in Thread \ {t} : u \in refs'[x] <=> u \in refs[x]
    BY <1>3
  <2>4. \A x \in Obj : t \in refs'[x] <=> x \in C \/ x = frame[t].self
    BY <1>2, <1>3, <1>5, <2>1 DEF RefInv
  <2> QED  BY <1>2, <1>5, <2>1, <2>2, <2>3, <2>4 DEF RefInv
<1>8. FieldInv'
  <2>1. FieldInv /\ base' = base /\ item' = item /\ TypeOK
    BY <1>1 DEF HInv
  <2>2. \A x \in C : base[x] = NULL /\ item[x] = NULL
    BY <1>3
  <2>3. \A o \in Obj : base[o] \notin C /\ item[o] \notin C
    BY <1>3
  <2> QED  BY <2>1, <2>2, <2>3 DEF TypeOK, FieldInv, BaseFits
<1>9. StrandedInv' /\ BusyInv'
  <2>1. BusyInv'
    BY <1>1, <1>2 DEF HInv, BusyInv
  <2> QED  BY <1>1, <1>3, <2>1 DEF HInv, StrandedInv, Kinds
<1>10. FrameInv'
  <2>1. FrameInv
    BY DEF HInv
  <2>2. \A u \in Thread \ {t} :
          frame[u].self \notin C /\ frame[u].new \notin C /\ frame[u].entry \notin C
    BY <1>3
  <2>3. frame[t].self \notin C
    BY <1>3
  <2> QED  BY <2>1, <2>2, <2>3 DEF FrameInv, Making
<1>11. LifeInv'
  <2>1. LifeInv
    BY DEF HInv
  <2>2. \A x \in C : refs'[x] = {t} /\ Alive(x)' /\ x \notin Dead'
    BY <1>3, <1>4 DEF Alive
  <2>3. \A x \in Obj \ C : refs'[x] = refs[x] /\ Alive(x)' = Alive(x) /\ (x \in Dead' <=> x \in Dead)
    BY <1>4 DEF Alive
  <2> QED  BY <2>1, <2>2, <2>3 DEF LifeInv
<1>12. MadeInv'
  <2>1. MadeInv
    BY DEF HInv
  <2>2. \A u \in Thread : \A x \in Obj : x = frame'[u].new \/ x = frame'[u].entry =>
          \/ u # t /\ frame'[u] = frame[u] /\ x \notin C
          \/ u = t /\ x \in C /\ x # frame'[u].self
    BY <1>3, <1>5
  <2> QED  BY <1>1, <1>3, <2>1, <2>2 DEF MadeInv
<1>13. WholeInv' /\ OwnsInv'
  <2>1. \A x \in Obj : BeingMade(x)' <=> BeingMade(x) \/ x \in C
    BY <1>2, <1>3, <1>5 DEF BeingMade
  <2>2. WholeInv'
    BY <1>1, <2>1 DEF HInv, WholeInv
  <2>3. OwnsInv'
    BY <1>1, <1>3 DEF HInv, TypeOK, OwnsInv
  <2> QED  BY <2>2, <2>3
<1>14. OwnerInv'
  <2>1. \A x : Pending(x)' <=> Pending(x) \/ x = h
    BY DEF Pending, Making
  <2>2. OwnerInv /\ owns' = owns /\ stranded' = stranded /\ open' = open \cup {h}
    BY <1>1 DEF HInv
  <2>3. \A x \in owns : Alive(x)'
    BY <1>1, <1>3, <2>2 DEF HInv, TypeOK, OwnerInv, Alive
  <2> QED  BY <2>1, <2>2, <2>3 DEF OwnerInv
<1>15. FsInv'
  <2>1. \A x \in Obj \ C : Intact(x) => VolumeOf(x)' = VolumeOf(x)
    BY <1>1, <1>3, VolumeKept
  <2>2. /\ \A x \in owns \ C : fs'[x] = VolumeOf(x)'
        /\ \A u \in Thread :
              frame'[u] = frame[u] /\ frame[u].self \notin C /\ frame[u].new \notin C =>
                /\ frame'[u].at = "glfs_init" => fs'[frame'[u].new] = frame'[u].new
                /\ frame'[u].at \in {"extract", "build"} =>
                     fs'[frame'[u].new] = VolumeOf(frame[u].self)'
    <3>1. \A c \in C : \A o \in Obj : c # base[o]
      BY <1>3
    <3>2. \A x \in Obj \ C : base'[x] = base[x] /\ kind'[x] = kind[x] /\ fs'[x] = fs[x]
      BY <1>1
    <3> QED  BY <3>1, <3>2, FsKept
  <2>3. \A u \in Thread \ {t} : frame[u].self \notin C /\ frame[u].new \notin C
    BY <1>3
  <2>4. \A x \in owns' : x \in owns \ C
    BY <1>1, <1>3
  <2>5. fs'[frame'[t].new] = VolumeOf(frame[t].self)'
    <3>1. PICK s \in Obj \ C : s = frame[t].self /\ Intact(s)
      BY <1>3, SelfIntact DEF Making
    <3>2. VolumeOf(s)' = VolumeOf(s) /\ s = frame'[t].self
      BY <2>1, <3>1
    <3> QED  BY <3>1, <3>2
  <2> QED  BY <2>2, <2>3, <2>4, <2>5 DEF FsInv
<1> QED  BY <1>4, <1>6, <1>7, <1>8, <1>9, <1>10, <1>11, <1>12, <1>13, <1>14, <1>15 DEF HInv

LEMMA LookedStep ==
  ASSUME HInv, NEW t \in Thread, NEW o \in Obj, Looked(t, o)
  PROVE  HInv'
<1> DEFINE C == {o}
<1>1. /\ frame[t].at = "lookup" /\ kind[o] = "none"
      /\ frame' = [frame EXCEPT ![t].at = "extract", ![t].new = o]
      /\ UNCHANGED <<base, item, owns, stranded, gil, dying, wild>>
      /\ open' = open \cup {o}
  BY DEF Looked, Back, Unused
<1>2. frame[t].entry = NULL /\ frame[t].self \in Obj /\ Intact(frame[t].self)
  BY <1>1, SelfIntact DEF HInv, FrameInv
<1>3. VolumeOf(frame[t].self) \in Obj
  BY <1>2, VolumeReached
<1>4. /\ kind' = [kind EXCEPT ![o] = "ObjectHandle"] /\ refs' = [refs EXCEPT ![o] = {t}]
      /\ fs' = [fs EXCEPT ![o] = VolumeOf(frame[t].self)]
  BY DEF Looked
<1>5. /\ kind' \in [Obj -> Kinds \cup {"none", "stranded"}]
      /\ refs' \in [Obj -> SUBSET Holders] /\ fs' \in [Obj -> Obj \cup {NULL}]
  BY <1>3, <1>4 DEF HInv, TypeOK, Kinds, Holders
<1>6. /\ frame' \in [Thread -> Frames] /\ \A u \in Thread \ {t} : frame'[u] = frame[u]
      /\ frame'[t].at = "extract" /\ frame'[t].self = frame[t].self
      /\ frame'[t].new = o /\ frame'[t].entry = NULL
  BY <1>1, <1>2 DEF HInv, TypeOK, Frames, Native
<1>7. /\ \A x \in C : kind[x] = "none" /\ kind'[x] \in Kinds /\ refs'[x] = {t}
      /\ \A x \in Obj \ C : kind'[x] = kind[x] /\ refs'[x] = refs[x] /\ fs'[x] = fs[x]
      /\ fs'[o] = VolumeOf(frame[t].self) /\ kind'[o] = "ObjectHandle"
  BY <1>1, <1>4 DEF HInv, TypeOK, Kinds
<1>8. C \in SUBSET Obj /\ o \in C /\ \A x \in Obj : x \in C <=> x = frame'[t].new \/ x = frame'[t].entry
  BY <1>6, HandlesAssumption
<1>9. frame[t].at \notin Making \cup {"python", "return"}
  BY <1>1 DEF Making
<1>10. UNCHANGED <<base, item, owns, stranded, gil, dying, wild>> /\ open' = open \cup {o}
  BY <1>1
<1>11. frame'[t].at = "extract" /\ frame[t].at = "lookup" /\ frame'[t].entry = NULL
  BY <1>1, <1>6
<1> HIDE DEF C
<1> QED  BY <1>5, <1>6, <1>7, <1>8, <1>9, <1>10, <1>11, MakeStep

LEMMA CopiedStep ==
  ASSUME HInv, NEW t \in Thread, NEW o \in Obj, NEW e \in Obj, Copied(t, o, e)
  PROVE  HInv'
<1> DEFINE C == {o, e}
<1>1. /\ frame[t].at = "next" /\ kind[o] = "none" /\ kind[e] = "none" /\ o # e
      /\ frame' = [frame EXCEPT ![t].at = "build", ![t].new = o, ![t].entry = e]
      /\ UNCHANGED <<base, item, owns, stranded, gil, dying, wild>>
      /\ open' = open \cup {o}
  BY DEF Copied, Back, Unused
<1>2. frame[t].self \in Obj /\ Intact(frame[t].self)
  BY <1>1, SelfIntact DEF HInv, FrameInv
<1>3. VolumeOf(frame[t].self) \in Obj
  BY <1>2, VolumeReached
<1>4. /\ kind' = [kind EXCEPT ![o] = "ObjectHandle", ![e] = "FTSEntry"]
      /\ refs' = [refs EXCEPT ![o] = {t}, ![e] = {t}]
      /\ fs' = [fs EXCEPT ![o] = VolumeOf(frame[t].self)]
  BY DEF Copied
<1>5. /\ kind' \in [Obj -> Kinds \cup {"none", "stranded"}]
      /\ refs' \in [Obj -> SUBSET Holders] /\ fs' \in [Obj -> Obj \cup {NULL}]
  BY <1>3, <1>4 DEF HInv, TypeOK, Kinds, Holders
<1>6. /\ frame' \in [Thread -> Frames] /\ \A u \in Thread \ {t} : frame'[u] = frame[u]
      /\ frame'[t].at = "build" /\ frame'[t].self = frame[t].self
      /\ frame'[t].new = o /\ frame'[t].entry = e
  BY <1>1, <1>2 DEF HInv, TypeOK, Frames, Native
<1>7. /\ \A x \in C : kind[x] = "none" /\ kind'[x] \in Kinds /\ refs'[x] = {t}
      /\ \A x \in Obj \ C : kind'[x] = kind[x] /\ refs'[x] = refs[x] /\ fs'[x] = fs[x]
      /\ fs'[o] = VolumeOf(frame[t].self)
      /\ kind'[o] = "ObjectHandle" /\ kind'[e] = "FTSEntry"
  BY <1>1, <1>4 DEF HInv, TypeOK, Kinds
<1>8. /\ C \in SUBSET Obj /\ o \in C /\ e \in C
      /\ \A x \in Obj : x \in C <=> x = frame'[t].new \/ x = frame'[t].entry
  BY <1>6
<1>9. frame[t].at \notin Making \cup {"python", "return"}
  BY <1>1 DEF Making
<1> HIDE DEF C
<1> QED  BY <1>1, <1>5, <1>6, <1>7, <1>8, <1>9, MakeStep

(* An iterator is made before its directory is opened.                     *)
LEMMA CallIterStep ==
  ASSUME HInv, NEW t \in Thread, NEW s \in Obj, NEW i \in Obj, CallIter(t, s, i)
  PROVE  HInv'
<1>1. /\ base' = base /\ item' = item /\ owns' = owns /\ dying' = dying /\ gil' = gil
      /\ stranded' = stranded /\ wild' = wild /\ open' = open /\ fs' = fs
      /\ dying[t] = <<>> /\ frame[t].at = "python" /\ kind[s] = "FTSHandle"
      /\ kind[i] = "none" /\ Python \in refs[s] /\ s # i
  BY DEF CallIter, Callable, HasGIL, Unused, native
<1>2. kind'[i] = "FTSIterator" /\ \A x \in Obj \ {i} : kind'[x] = kind[x]
  BY DEF CallIter, HInv, TypeOK
<1>3. /\ refs'[i] = {t} /\ refs'[s] = refs[s] \cup {t}
      /\ \A x \in Obj \ {i, s} : refs'[x] = refs[x]
  BY <1>1 DEF CallIter, HInv, TypeOK
<1>4. /\ frame[t].self = NULL /\ frame[t].new = NULL /\ frame[t].entry = NULL
      /\ \A u \in Thread \ {t} : frame'[u] = frame[u]
      /\ frame'[t].at = "opendir" /\ frame'[t].self = s
      /\ frame'[t].new = i /\ frame'[t].entry = NULL
  BY <1>1 DEF CallIter, HInv, TypeOK, Frames, FrameInv, Making
<1>5. /\ refs[i] = {} /\ i \notin Dead /\ base[i] = NULL /\ item[i] = NULL
      /\ i \notin owns /\ i \notin stranded /\ i \notin open
      /\ \A o \in Obj : i # base[o] /\ i # item[o]
      /\ \A u \in Thread : i # frame[u].self /\ i # frame[u].new /\ i # frame[u].entry
  BY <1>1, FreePlace
<1>6. refs[s] # {} /\ s \notin Dead /\ Alive(s) /\ ~BeingMade(s)
  BY <1>1, ReferredTo
<1>7. \A u \in Thread : s # frame[u].new /\ s # frame[u].entry
  BY <1>6 DEF BeingMade
<1>8. Dead' = Dead /\ DyingInv' /\ \A u : Dying(u)' = Dying(u)
  BY <1>1, DeadKept DEF HInv
<1>9. \A x \in Obj : t # x /\ NULL # x /\ Python # x
  BY HandlesAssumption
<1>10. TypeOK'
  <2>1. \A u \in Thread : Finishing(u)' => Dying(u)' \in owns' /\ kind'[Dying(u)'] = "Volume"
    <3>1. \A x \in Dead : kind'[x] = kind[x] /\ (x \in owns => x \in owns')
      BY <1>1, <1>2, <1>5 DEF HInv, TypeOK, Dead, ToSet
    <3> QED  BY <1>1, <3>1, FinishingKept
  <2>2. /\ kind' \in [Obj -> Kinds \cup {"none", "stranded"}]
        /\ refs' \in [Obj -> SUBSET Holders] /\ frame' \in [Thread -> Frames]
    BY DEF CallIter, HInv, TypeOK, Frames, Native, Holders, Kinds
  <2> QED  BY <1>1, <2>1, <2>2 DEF HInv, TypeOK
<1>11. RefInv'
  <2>1. RefInv /\ base' = base /\ item' = item
    BY <1>1 DEF HInv
  <2>2. \A x, o \in Obj : o \in refs'[x] <=> o \in refs[x]
    BY <1>3, <1>5, <1>9
  <2>3. \A x \in Obj : \A u \in Thread \ {t} : u \in refs'[x] <=> u \in refs[x]
    BY <1>3, <1>5
  <2>4. \A x \in Obj : t \in refs'[x] <=> x = i \/ x = s
    BY <1>3, <1>4, <1>9, <2>1 DEF RefInv
  <2> QED  BY <1>4, <1>9, <2>1, <2>2, <2>3, <2>4 DEF RefInv
<1>12. FieldInv' /\ StrandedInv' /\ BusyInv'
  <2>1. FieldInv'
    BY <1>1, <1>2, <1>5 DEF HInv, TypeOK, FieldInv, BaseFits
  <2>2. StrandedInv' /\ BusyInv'
    BY <1>1, <1>2, <1>4, <1>5 DEF HInv, StrandedInv, BusyInv
  <2> QED  BY <2>1, <2>2
<1>13. LifeInv'
  <2>1. LifeInv
    BY DEF HInv
  <2>2. Alive(i)' /\ refs'[i] # {} /\ i \notin Dead'
    BY <1>2, <1>3, <1>5, <1>8 DEF Alive, Kinds
  <2>3. Alive(s)' /\ refs'[s] # {} /\ s \notin Dead'
    BY <1>1, <1>2, <1>3, <1>6, <1>8 DEF Alive
  <2>4. \A x \in Obj \ {i, s} :
          refs'[x] = refs[x] /\ Alive(x)' = Alive(x) /\ (x \in Dead' <=> x \in Dead)
    BY <1>2, <1>3, <1>8 DEF Alive
  <2> QED  BY <2>1, <2>2, <2>3, <2>4 DEF LifeInv
<1>14. FrameInv'
  <2>1. FrameInv
    BY DEF HInv
  <2> QED  BY <1>1, <1>2, <1>4, <1>5, <2>1 DEF FrameInv, Making
<1>15. MadeInv'
  <2>1. MadeInv /\ base' = base /\ item' = item /\ owns' = owns
    BY <1>1 DEF HInv
  <2>2. \A u \in Thread : \A x \in Obj : x = frame'[u].new \/ x = frame'[u].entry =>
          \/ u # t /\ frame'[u] = frame[u] /\ x # i /\ x # s
          \/ u = t /\ x = i /\ x # frame'[u].self
    BY <1>1, <1>4, <1>5, <1>7, <1>9
  <2> QED  BY <1>3, <1>5, <2>1, <2>2 DEF MadeInv
<1>16. WholeInv' /\ OwnsInv'
  <2>1. \A x \in Obj : BeingMade(x)' <=> BeingMade(x) \/ x = i
    BY <1>4, <1>9 DEF BeingMade
  <2>2. WholeInv'
    BY <1>1, <1>2, <1>3, <1>6, <2>1 DEF HInv, WholeInv
  <2>3. OwnsInv'
    BY <1>1, <1>2, <1>5 DEF HInv, TypeOK, OwnsInv
  <2> QED  BY <2>2, <2>3
<1>17. OwnerInv'
  <2>1. \A x : Pending(x)' <=> Pending(x)
    BY <1>1, <1>4 DEF Pending
  <2>2. OwnerInv /\ owns' = owns /\ stranded' = stranded /\ open' = open
    BY <1>1 DEF HInv
  <2>3. \A x \in owns : Alive(x)'
    BY <1>2, <1>5, <2>2 DEF HInv, TypeOK, OwnerInv, Alive
  <2> QED  BY <2>1, <2>2, <2>3 DEF OwnerInv
<1>18. FsInv'
  <2> DEFINE C == {i}
  <2>1. /\ \A x \in owns \ C : fs'[x] = VolumeOf(x)'
        /\ \A u \in Thread :
              frame'[u] = frame[u] /\ frame[u].self \notin C /\ frame[u].new \notin C =>
                /\ frame'[u].at = "glfs_init" => fs'[frame'[u].new] = frame'[u].new
                /\ frame'[u].at \in {"extract", "build"} =>
                     fs'[frame'[u].new] = VolumeOf(frame[u].self)'
    <3>1. C \in SUBSET Obj /\ \A c \in C : \A o \in Obj : c # base[o]
      BY <1>5
    <3>2. \A x \in Obj \ C : base'[x] = base[x] /\ kind'[x] = kind[x] /\ fs'[x] = fs[x]
      BY <1>1, <1>2
    <3> HIDE DEF C
    <3> QED  BY <3>1, <3>2, FsKept
  <2> QED  BY <1>1, <1>4, <1>5, <2>1 DEF FsInv
<1> QED  BY <1>8, <1>10, <1>11, <1>12, <1>13, <1>14, <1>15, <1>16, <1>17, <1>18 DEF HInv
-----------------------------------------------------------------------------
(* The steps: an object is complete and takes its handle and its           *)
(* reference.                                                              *)

(* Method of thread t over: x, made by it before or now, refers to y.       *)
Joins(t, x, y) ==
  /\ frame[t].at \notin {"python", "return"} /\ gil = NULL /\ Leave(t)
  /\ frame[t].entry = NULL
  /\ \/ x = frame[t].new /\ kind' = kind
     \/ frame[t].new = NULL /\ kind[x] = "none" /\ kind' = [kind EXCEPT ![x] = "FD"]
  /\ UNCHANGED <<item, stranded, dying, wild>>
  /\ kind'[x] \in Owners \ {"Volume"} /\ BaseFits(x, y)' /\ Intact(y) /\ refs[y] # {}
  /\ base' = [base EXCEPT ![x] = y]
  /\ refs' = [refs EXCEPT ![x] = {Python}, ![y] = @ \cup {x}]
  /\ owns' = owns \cup {x} /\ open' = open \cup {x}
  /\ fs' \in [Obj -> Obj \cup {NULL}] /\ \A z \in Obj \ {x} : fs'[z] = fs[z]
  /\ fs'[x] = VolumeOf(x)'

LEMMA JoinStep ==
  ASSUME HInv, NEW t \in Thread, NEW x \in Obj, NEW y \in Obj, Joins(t, x, y)
  PROVE  HInv'
<1>a. base'[x] = y /\ item' = item /\ \A z \in Obj \ {x} : base'[z] = base[z]
  BY DEF Joins, HInv, TypeOK
<1>1. /\ item' = item /\ stranded' = stranded /\ dying' = dying /\ wild' = wild
      /\ base'[x] = y /\ \A z \in Obj \ {x} : base'[z] = base[z]
      /\ kind' \in [Obj -> Kinds \cup {"none", "stranded"}]
      /\ \A z \in Obj \ {x} : kind'[z] = kind[z]
      /\ gil = NULL /\ owns' = owns \cup {x} /\ open' = open \cup {x}
      /\ fs' \in [Obj -> Obj \cup {NULL}] /\ fs'[x] = VolumeOf(x)'
      /\ \A z \in Obj \ {x} : fs'[z] = fs[z]
  BY DEF Joins, HInv, TypeOK, Kinds
<1>2. /\ frame' \in [Thread -> Frames] /\ gil' = t
      /\ \A u \in Thread \ {t} : frame'[u] = frame[u]
      /\ frame'[t].at = "return" /\ frame'[t].self = frame[t].self
      /\ frame'[t].new = NULL /\ frame'[t].entry = NULL
  BY LeaveFrames DEF Joins, HInv
<1>3. /\ refs[x] \in {{}, {t}} /\ x \notin Dead /\ base[x] = NULL /\ item[x] = NULL
      /\ x \notin owns /\ x \notin stranded
      /\ \A o \in Obj : x # base[o] /\ x # item[o]
      /\ \A u \in Thread : x # frame[u].self
      /\ \A u \in Thread \ {t} : x # frame[u].new /\ x # frame[u].entry
  <2>1. CASE x = frame[t].new
    BY <2>1, MadeAlone
  <2>2. CASE kind[x] = "none"
    BY <2>2, FreePlace
  <2> QED  BY <2>1, <2>2 DEF Joins
<1>4. \A z \in Obj : t # z /\ NULL # z /\ Python # z
  BY HandlesAssumption
<1>5. frame[t].new \in {x, NULL} /\ frame[t].entry = NULL /\ x # y
  <2>1. frame[t].new \in {x, NULL} /\ frame[t].entry = NULL
    BY DEF Joins
  <2>2. x # y
    BY DEF Joins, BaseFits, Owners
  <2> QED  BY <2>1, <2>2
<1>6. y \notin Dead /\ Alive(y) /\ kind'[y] = kind[y]
  BY <1>1, <1>5 DEF Joins, HInv, LifeInv
<1>7. \A u \in Thread : y # frame[u].new /\ y # frame[u].entry
  <2>1. \A u \in Thread : y = frame[u].new \/ y = frame[u].entry => base[y] = NULL /\ y \notin owns
    BY DEF HInv, MadeInv
  <2> QED  BY <2>1 DEF Joins, Intact
<1>8. /\ refs'[x] = {Python} /\ refs'[y] = refs[y] \cup {x}
      /\ \A z \in Obj \ {x, y} : refs'[z] = refs[z]
  BY <1>5 DEF Joins, HInv, TypeOK
<1>9. Dead' = Dead /\ DyingInv' /\ \A u : Dying(u)' = Dying(u)
  BY <1>1, DeadKept DEF HInv
<1>10. TypeOK'
  <2>1. \A z \in Dead : kind'[z] = kind[z] /\ (z \in owns => z \in owns')
    BY <1>1, <1>3 DEF HInv, TypeOK, Dead, ToSet
  <2>2. \A u \in Thread : Finishing(u)' => Dying(u)' \in owns' /\ kind'[Dying(u)'] = "Volume"
    BY <1>1, <1>2, <2>1, FinishingKept
  <2>3. refs' \in [Obj -> SUBSET Holders] /\ base' \in [Obj -> Obj \cup {NULL}]
    BY DEF Joins, HInv, TypeOK, Holders
  <2>4. owns' \subseteq Obj /\ open' \subseteq Obj
    BY <1>1 DEF HInv, TypeOK
  <2> QED  BY <1>1, <1>2, <2>2, <2>3, <2>4 DEF HInv, TypeOK
<1>11. RefInv'
  <2>1. RefInv /\ item' = item
    BY <1>1 DEF HInv
  <2>2. \A z, o \in Obj : o \in refs'[z] <=> o \in refs[z] \/ (z = y /\ o = x)
    <3>1. \A o \in Obj : o \notin refs[x] /\ o \notin refs'[x]
      BY <1>3, <1>4, <1>8
    <3>2. \A o \in Obj : o \in refs'[y] <=> o \in refs[y] \/ o = x
      BY <1>8
    <3>3. \A z \in Obj \ {x, y} : refs'[z] = refs[z]
      BY <1>8
    <3> QED  BY <1>5, <3>1, <3>2, <3>3
  <2>3. \A z, o \in Obj : z = base'[o] <=> z = base[o] \/ (z = y /\ o = x)
    <3>1. base[x] = NULL /\ \A z \in Obj : z # NULL
      BY <1>3, <1>4
    <3> QED  BY <1>a, <3>1
  <2>4. \A z \in Obj : \A u \in Thread \ {t} : u \in refs'[z] <=> u \in refs[z]
    BY <1>3, <1>8, HandlesAssumption
  <2>5. \A z \in Obj \ {x} : t \in refs'[z] <=> t \in refs[z]
    BY <1>4, <1>8
  <2>6. t \notin refs'[x]
    BY <1>8, HandlesAssumption
  <2>7. \A z \in Obj : t \in refs'[z] <=> z = frame'[t].self \/ z = frame'[t].new \/ z = frame'[t].entry
    BY <1>2, <1>3, <1>4, <1>5, <2>1, <2>5, <2>6 DEF RefInv
  <2>8. \A z \in Obj, u \in Thread \ {t} :
          u \in refs'[z] <=> z = frame'[u].self \/ z = frame'[u].new \/ z = frame'[u].entry
    BY <1>2, <2>1, <2>4 DEF RefInv
  <2>9. \A z, o \in Obj : o \in refs'[z] <=> z = base'[o] \/ z = item'[o]
    <3>1. \A z, o \in Obj : o \in refs[z] <=> z = base[o] \/ z = item[o]
      BY <2>1 DEF RefInv
    <3> QED  BY <2>1, <2>2, <2>3, <3>1
  <2> QED  BY <2>7, <2>8, <2>9 DEF RefInv
<1>12. FieldInv'
  <2>1. FieldInv /\ item' = item /\ TypeOK
    BY <1>1 DEF HInv
  <2>2. \A o \in Obj \ {x} : base'[o] # NULL => BaseFits(o, base[o])'
    <3>1. \A o \in Obj \ {x} : base'[o] # NULL =>
            BaseFits(o, base[o]) /\ base'[o] = base[o] /\ base[o] \in Obj \ {x}
      BY <1>a, <1>3, <2>1 DEF TypeOK, FieldInv
    <3>2. \A z \in Obj \ {x} : kind'[z] = kind[z]
      BY <1>1
    <3> QED  BY <3>1, <3>2 DEF BaseFits
  <2>3. BaseFits(x, base[x])'
    <3>1. BaseFits(x, y)'
      BY DEF Joins
    <3> QED  BY <1>a, <3>1
  <2>4. \A o \in Obj : item[o] # NULL => o # x /\ item[o] # x
    BY <1>3
  <2>5. \A o \in Obj : item'[o] # NULL => kind'[o] = "FTSEntry" /\ kind'[item'[o]] = "ObjectHandle"
    <3>1. \A z \in Obj \ {x} : kind'[z] = kind[z]
      BY <1>1
    <3> QED  BY <2>1, <2>4, <3>1 DEF TypeOK, FieldInv
  <2> QED  BY <2>2, <2>3, <2>5 DEF FieldInv
<1>13. StrandedInv' /\ BusyInv'
  <2>1. BusyInv /\ StrandedInv
    BY DEF HInv
  <2>2. BusyInv'
    BY <1>1, <1>2, <2>1 DEF BusyInv
  <2>3. kind'[x] # "stranded"
    BY DEF Joins, Owners
  <2> QED  BY <1>1, <1>3, <2>1, <2>2, <2>3 DEF StrandedInv
<1>14. FrameInv'
  <2>1. FrameInv
    BY DEF HInv
  <2> QED  BY <1>1, <1>2, <1>3, <2>1 DEF FrameInv, Making
<1>15. LifeInv'
  <2>1. LifeInv
    BY DEF HInv
  <2>2. Alive(x)' /\ refs'[x] # {} /\ x \notin Dead'
    BY <1>3, <1>8, <1>9 DEF Joins, Alive, Owners, Kinds
  <2>3. Alive(y)' /\ refs'[y] # {} /\ y \notin Dead'
    BY <1>6, <1>8, <1>9 DEF Alive
  <2>4. \A z \in Obj \ {x, y} :
          refs'[z] = refs[z] /\ Alive(z)' = Alive(z) /\ (z \in Dead' <=> z \in Dead)
    BY <1>1, <1>8, <1>9 DEF Alive
  <2> QED  BY <2>1, <2>2, <2>3, <2>4 DEF LifeInv
<1>16. MadeInv'
  <2>1. MadeInv /\ item' = item
    BY <1>1 DEF HInv
  <2>2. \A u \in Thread : \A z \in Obj : z = frame'[u].new \/ z = frame'[u].entry =>
          u # t /\ frame'[u] = frame[u] /\ z # x /\ z # y
    BY <1>2, <1>3, <1>4, <1>7
  <2>3. \A z \in Obj \ {x, y} : refs'[z] = refs[z] /\ base'[z] = base[z] /\ (z \in owns' <=> z \in owns)
    BY <1>1, <1>8
  <2> QED  BY <2>1, <2>2, <2>3 DEF MadeInv
<1>17. WholeInv' /\ OwnsInv'
  <2>1. \A z \in Obj \ {x} : BeingMade(z)' <=> BeingMade(z)
    BY <1>2, <1>4, <1>5 DEF BeingMade
  <2>2. WholeInv /\ OwnsInv /\ item' = item /\ owns \subseteq Obj
    BY <1>1 DEF HInv, TypeOK
  <2>3. ~BeingMade(y)
    BY <1>7 DEF BeingMade
  <2>4. \A z \in Obj \ {x} : refs'[z] # {} /\ ~BeingMade(z)' => refs[z] # {} /\ ~BeingMade(z)
    <3>1. \A z \in Obj \ {x} : refs'[z] # {} => z = y \/ refs[z] # {}
      BY <1>8
    <3>2. refs[y] # {}
      BY DEF Joins
    <3> QED  BY <2>1, <3>1, <3>2
  <2>5. x \in owns' /\ kind'[x] \in Owners \ {"Volume"} /\ base'[x] # NULL
    BY <1>1, <1>4 DEF Joins
  <2>6. WholeInv'
    BY <1>1, <2>2, <2>4, <2>5 DEF WholeInv, Owners
  <2>7. OwnsInv'
    BY <1>1, <2>2, <2>5 DEF OwnsInv
  <2> QED  BY <2>6, <2>7
<1>18. OwnerInv'
  <2>1. \A z : Pending(z)' => Pending(z)
    BY <1>2 DEF Pending
  <2>2. \A z : Pending(z) => Pending(z)' \/ z = x
    <3>1. frame[t].at \in {"glfs_init", "extract", "build"} => frame[t].new = x
      BY <1>4, <1>5 DEF HInv, FrameInv, Making
    <3> QED  BY <1>2, <3>1 DEF Pending
  <2>3. OwnerInv /\ owns' = owns \cup {x} /\ stranded' = stranded /\ open' = open \cup {x}
    BY <1>1 DEF HInv
  <2>4. \A z \in owns' : Alive(z)'
    BY <1>1, <2>3 DEF Joins, HInv, TypeOK, OwnerInv, Alive, Owners, Kinds
  <2> QED  BY <1>3, <2>1, <2>2, <2>3, <2>4 DEF OwnerInv
<1>19. FsInv'
  <2> DEFINE C == {x}
  <2>1. /\ \A z \in owns \ C : fs'[z] = VolumeOf(z)'
        /\ \A u \in Thread :
              frame'[u] = frame[u] /\ frame[u].self \notin C /\ frame[u].new \notin C =>
                /\ frame'[u].at = "glfs_init" => fs'[frame'[u].new] = frame'[u].new
                /\ frame'[u].at \in {"extract", "build"} =>
                     fs'[frame'[u].new] = VolumeOf(frame[u].self)'
    <3>1. C \in SUBSET Obj /\ \A c \in C : \A o \in Obj : c # base[o]
      BY <1>3
    <3>2. \A z \in Obj \ C : base'[z] = base[z] /\ kind'[z] = kind[z] /\ fs'[z] = fs[z]
      BY <1>1
    <3> HIDE DEF C
    <3> QED  BY <3>1, <3>2, FsKept
  <2>2. \A z \in owns' : z \in owns \ C \/ z = x
    BY <1>1
  <2>3. \A u \in Thread \ {t} : frame[u].self \notin C /\ frame[u].new \notin C
    BY <1>3
  <2> HIDE DEF C
  <2> QED  BY <1>1, <1>2, <2>1, <2>2, <2>3 DEF FsInv
<1> QED  BY <1>9, <1>10, <1>11, <1>12, <1>13, <1>14, <1>15, <1>16, <1>17, <1>18, <1>19 DEF HInv

LEMMA ExtractedStep ==
  ASSUME HInv, NEW t \in Thread, Extracted(t)
  PROVE  HInv'
<1>a. PICK o \in Obj : o = frame[t].new /\ kind[o] = "ObjectHandle"
  BY DEF Extracted, Back, HInv, FrameInv, Making
<1>b. frame[t].at = "extract"
  BY DEF Extracted, Back
<1>c. frame[t].self \in Obj /\ Intact(frame[t].self) /\ refs[frame[t].self] # {}
      /\ kind[frame[t].self] \in {"Volume", "ObjectHandle"}
  BY <1>b, SelfIntact DEF HInv, FrameInv
<1>d. PICK v \in Obj : /\ v = VolumeOf(frame[t].self)
                       /\ kind[v] = "Volume" /\ v \in owns /\ refs[v] # {}
  BY <1>c, VolumeReached DEF VolumeOf
<1>1. /\ gil = NULL /\ Leave(t) /\ kind' = kind
      /\ item' = item /\ open' = open /\ stranded' = stranded /\ fs' = fs
      /\ dying' = dying /\ wild' = wild
      /\ base' = [base EXCEPT ![o] = v] /\ owns' = owns \cup {o}
      /\ refs' = [refs EXCEPT ![o] = {Python}, ![v] = @ \cup {o}]
  BY <1>a, <1>d DEF Extracted, Back, native
<1>2. o \in Obj /\ kind[o] = "ObjectHandle" /\ frame[t].entry = NULL
  BY <1>a, <1>b DEF HInv, FrameInv
<1>4. v \in Obj /\ kind[v] = "Volume" /\ v \in owns /\ refs[v] # {}
  BY <1>d
<1>5. fs[o] = v /\ o \in open
  BY <1>a, <1>b, <1>d DEF HInv, FsInv, OwnerInv, Pending
<1>6. base'[o] = v /\ VolumeOf(o)' = v
  BY <1>1, <1>2 DEF HInv, TypeOK, VolumeOf
<1>7. Intact(v) /\ BaseFits(o, v)'
  BY <1>1, <1>2, <1>4 DEF Intact, BaseFits, Kinds
<1>8. open' = open \cup {o}
  BY <1>1, <1>5
<1>9. fs' \in [Obj -> Obj \cup {NULL}] /\ fs'[o] = VolumeOf(o)' /\ \A z \in Obj \ {o} : fs'[z] = fs[z]
  BY <1>1, <1>5, <1>6 DEF HInv, TypeOK
<1>10. o = frame[t].new /\ kind'[o] \in Owners \ {"Volume"}
  BY <1>1, <1>2, <1>a DEF Owners
<1>11. Joins(t, o, v)
  BY <1>b, <1>1, <1>2, <1>4, <1>7, <1>8, <1>9, <1>10 DEF Joins
<1> QED  BY <1>2, <1>4, <1>11, JoinStep

LEMMA IterOpenedStep ==
  ASSUME HInv, NEW t \in Thread, IterOpened(t)
  PROVE  HInv'
<1>a. frame[t].at = "opendir"
  BY DEF IterOpened, Back
<1>b. PICK i \in Obj : i = frame[t].new /\ kind[i] = "FTSIterator"
  BY <1>a DEF HInv, FrameInv, Making
<1>c. PICK f \in Obj : f = frame[t].self /\ Intact(f) /\ refs[f] # {} /\ kind[f] = "FTSHandle"
  BY <1>a, SelfIntact DEF HInv, FrameInv
<1>1. /\ gil = NULL /\ Leave(t) /\ kind' = kind
      /\ item' = item /\ stranded' = stranded /\ dying' = dying /\ wild' = wild
      /\ base' = [base EXCEPT ![i] = f] /\ owns' = owns \cup {i} /\ open' = open \cup {i}
      /\ refs' = [refs EXCEPT ![i] = {Python}, ![f] = @ \cup {i}]
      /\ fs' = [fs EXCEPT ![i] = VolumeOf(f)]
  BY <1>b, <1>c DEF IterOpened, Back
<1>2. i \in Obj /\ kind[i] = "FTSIterator" /\ frame[t].entry = NULL
  BY <1>a, <1>b DEF HInv, FrameInv
<1>3. f \in Obj /\ Intact(f) /\ refs[f] # {} /\ kind[f] = "FTSHandle"
  BY <1>c
<1>4. \A z \in Obj : i # base[z]
  BY <1>b, MadeAlone
<1>5. VolumeOf(f) \in Obj
  BY <1>3, VolumeReached
<1>6. base'[i] = f /\ \A z \in Obj \ {i} : base'[z] = base[z]
  BY <1>1, <1>2 DEF HInv, TypeOK
<1>7. VolumeOf(i)' = VolumeOf(f)
  <2>1. base[f] \in Obj \ {i} /\ f # i
    BY <1>2, <1>3, <1>4 DEF HInv, TypeOK, Intact
  <2>2. VolumeOf(i)' = base'[base'[base'[i]]] /\ VolumeOf(f) = base[base[f]]
    BY <1>1, <1>2, <1>3 DEF VolumeOf
  <2> QED  BY <1>3, <1>6, <2>1, <2>2
<1>8. /\ fs' \in [Obj -> Obj \cup {NULL}] /\ fs'[i] = VolumeOf(i)'
      /\ \A z \in Obj \ {i} : fs'[z] = fs[z]
  BY <1>1, <1>2, <1>5, <1>7 DEF HInv, TypeOK
<1>9. BaseFits(i, f)' /\ kind'[i] \in Owners \ {"Volume"}
  BY <1>1, <1>2, <1>3 DEF BaseFits, Owners
<1>10. Joins(t, i, f)
  BY <1>a, <1>b, <1>1, <1>2, <1>3, <1>8, <1>9 DEF Joins
<1> QED  BY <1>10, JoinStep

LEMMA OpenedStep ==
  ASSUME HInv, NEW t \in Thread, NEW d \in Obj, Opened(t, d)
  PROVE  HInv'
<1>a. frame[t].at = "open"
  BY DEF Opened, Back
<1>b. PICK s \in Obj : s = frame[t].self /\ Intact(s) /\ refs[s] # {} /\ kind[s] = "ObjectHandle"
  BY <1>a, SelfIntact DEF HInv, FrameInv
<1>1. /\ gil = NULL /\ Leave(t)
      /\ kind[d] = "none" /\ kind' = [kind EXCEPT ![d] = "FD"]
      /\ item' = item /\ stranded' = stranded /\ dying' = dying /\ wild' = wild
      /\ base' = [base EXCEPT ![d] = s] /\ owns' = owns \cup {d} /\ open' = open \cup {d}
      /\ refs' = [refs EXCEPT ![d] = {Python}, ![s] = @ \cup {d}]
      /\ fs' = [fs EXCEPT ![d] = VolumeOf(s)]
  BY <1>b DEF Opened, Back, Unused
<1>2. kind'[d] = "FD" /\ frame[t].new = NULL /\ frame[t].entry = NULL
  BY <1>a, <1>1 DEF HInv, TypeOK, FrameInv, Making
<1>3. s \in Obj /\ Intact(s) /\ refs[s] # {} /\ kind[s] = "ObjectHandle"
  BY <1>b
<1>4. VolumeOf(s) \in Obj /\ s # d /\ kind'[s] = "ObjectHandle"
  BY <1>1, <1>3, VolumeReached DEF HInv, TypeOK
<1>5. base'[d] = s /\ \A z \in Obj \ {d} : base'[z] = base[z]
  BY <1>1 DEF HInv, TypeOK
<1>6. VolumeOf(d)' = VolumeOf(s)
  <2>1. VolumeOf(d)' = base'[base'[d]] /\ VolumeOf(s) = base[s]
    BY <1>2, <1>3 DEF VolumeOf
  <2> QED  BY <1>3, <1>4, <1>5, <2>1
<1>7. /\ fs' \in [Obj -> Obj \cup {NULL}] /\ fs'[d] = VolumeOf(d)'
      /\ \A z \in Obj \ {d} : fs'[z] = fs[z]
  BY <1>1, <1>4, <1>6 DEF HInv, TypeOK
<1>8. BaseFits(d, s)' /\ kind'[d] \in Owners \ {"Volume"}
  BY <1>2, <1>4 DEF BaseFits, Owners
<1>9. Joins(t, d, s)
  BY <1>a, <1>1, <1>2, <1>3, <1>7, <1>8 DEF Joins
<1> QED  BY <1>9, JoinStep
-----------------------------------------------------------------------------
(* The steps: calls that do without libgfapi.                              *)

LEMMA FtsOpenStep ==
  ASSUME HInv, NEW t \in Thread, NEW s \in Obj, NEW f \in Obj, FtsOpen(t, s, f)
  PROVE  HInv'
<1>1. /\ item' = item /\ owns' = owns /\ dying' = dying /\ gil' = gil /\ frame' = frame
      /\ stranded' = stranded /\ wild' = wild /\ open' = open /\ fs' = fs
      /\ kind[s] = "ObjectHandle" /\ kind[f] = "none" /\ Python \in refs[s] /\ s # f
  BY DEF FtsOpen, Callable, Unused, native
<1>2. /\ kind'[f] = "FTSHandle" /\ \A x \in Obj \ {f} : kind'[x] = kind[x]
      /\ base'[f] = s /\ \A x \in Obj \ {f} : base'[x] = base[x]
  BY DEF FtsOpen, HInv, TypeOK
<1>3. /\ refs'[f] = {Python} /\ refs'[s] = refs[s] \cup {f}
      /\ \A x \in Obj \ {f, s} : refs'[x] = refs[x]
  BY <1>1 DEF FtsOpen, HInv, TypeOK
<1>4. /\ refs[f] = {} /\ f \notin Dead /\ base[f] = NULL /\ item[f] = NULL
      /\ f \notin owns /\ f \notin stranded /\ f \notin open
      /\ \A o \in Obj : f # base[o] /\ f # item[o]
      /\ \A u \in Thread : f # frame[u].self /\ f # frame[u].new /\ f # frame[u].entry
  BY <1>1, FreePlace
<1>5. refs[s] # {} /\ s \notin Dead /\ Alive(s) /\ ~BeingMade(s)
  BY <1>1, ReferredTo
<1>6. \A u \in Thread : s # frame[u].new /\ s # frame[u].entry
  BY <1>5 DEF BeingMade
<1>7. Dead' = Dead /\ DyingInv' /\ \A u : Dying(u)' = Dying(u)
  BY <1>1, DeadKept DEF HInv
<1>8. \A x \in Obj : NULL # x /\ Python # x
  BY HandlesAssumption
<1>9. TypeOK'
  <2>1. \A u \in Thread : Finishing(u)' => Dying(u)' \in owns' /\ kind'[Dying(u)'] = "Volume"
    <3>1. \A x \in Dead : kind'[x] = kind[x] /\ (x \in owns => x \in owns')
      BY <1>1, <1>2, <1>4 DEF HInv, TypeOK, Dead, ToSet
    <3> QED  BY <1>1, <3>1, FinishingKept
  <2>2. /\ kind' \in [Obj -> Kinds \cup {"none", "stranded"}]
        /\ refs' \in [Obj -> SUBSET Holders] /\ base' \in [Obj -> Obj \cup {NULL}]
    BY DEF FtsOpen, HInv, TypeOK, Holders, Kinds
  <2> QED  BY <1>1, <2>1, <2>2 DEF HInv, TypeOK
<1>10. RefInv'
  <2>1. RefInv /\ item' = item /\ frame' = frame
    BY <1>1 DEF HInv
  <2>2. \A z, o \in Obj : o \in refs'[z] <=> o \in refs[z] \/ (z = s /\ o = f)
    <3>1. \A o \in Obj : o \notin refs[f] /\ o \notin refs'[f]
      BY <1>3, <1>4, <1>8
    <3>2. \A o \in Obj : o \in refs'[s] <=> o \in refs[s] \/ o = f
      BY <1>3
    <3>3. \A z \in Obj \ {f, s} : refs'[z] = refs[z]
      BY <1>3
    <3> QED  BY <1>1, <3>1, <3>2, <3>3
  <2>3. \A z, o \in Obj : z = base'[o] <=> z = base[o] \/ (z = s /\ o = f)
    <3>1. base[f] = NULL /\ \A z \in Obj : z # NULL
      BY <1>4, <1>8
    <3> QED  BY <1>2, <3>1
  <2>4. \A x \in Obj : \A u \in Thread : u \in refs'[x] <=> u \in refs[x]
    BY <1>3, <1>4, HandlesAssumption
  <2>5. \A z, o \in Obj : o \in refs'[z] <=> z = base'[o] \/ z = item'[o]
    <3>1. \A z, o \in Obj : o \in refs[z] <=> z = base[o] \/ z = item[o]
      BY <2>1 DEF RefInv
    <3> QED  BY <2>1, <2>2, <2>3, <3>1
  <2> QED  BY <2>1, <2>4, <2>5 DEF RefInv
<1>11. FieldInv'
  <2>1. FieldInv /\ item' = item /\ TypeOK
    BY <1>1 DEF HInv
  <2>2. \A o \in Obj \ {f} : base'[o] # NULL => BaseFits(o, base[o])'
    <3>1. \A o \in Obj \ {f} : base'[o] # NULL =>
            BaseFits(o, base[o]) /\ base'[o] = base[o] /\ base[o] \in Obj \ {f}
      BY <1>2, <1>4, <2>1 DEF TypeOK, FieldInv
    <3> QED  BY <1>2, <3>1 DEF BaseFits
  <2>3. BaseFits(f, base[f])'
    BY <1>1, <1>2 DEF BaseFits
  <2>4. \A o \in Obj : item[o] # NULL => o # f /\ item[o] # f
    BY <1>4
  <2>5. \A o \in Obj : item'[o] # NULL => kind'[o] = "FTSEntry" /\ kind'[item'[o]] = "ObjectHandle"
    BY <1>2, <2>1, <2>4 DEF TypeOK, FieldInv
  <2> QED  BY <2>2, <2>3, <2>5 DEF FieldInv
<1>12. StrandedInv' /\ BusyInv' /\ FrameInv'
  <2>1. StrandedInv' /\ BusyInv'
    BY <1>1, <1>2, <1>4 DEF HInv, StrandedInv, BusyInv
  <2>2. FrameInv /\ frame' = frame
    BY <1>1 DEF HInv
  <2> QED  BY <1>2, <1>4, <2>1, <2>2 DEF FrameInv, Making
<1>13. LifeInv'
  <2>1. LifeInv
    BY DEF HInv
  <2>2. Alive(f)' /\ refs'[f] # {} /\ f \notin Dead'
    BY <1>2, <1>3, <1>4, <1>7 DEF Alive, Kinds
  <2>3. Alive(s)' /\ refs'[s] # {} /\ s \notin Dead'
    BY <1>1, <1>2, <1>3, <1>5, <1>7 DEF Alive
  <2>4. \A x \in Obj \ {f, s} :
          refs'[x] = refs[x] /\ Alive(x)' = Alive(x) /\ (x \in Dead' <=> x \in Dead)
    BY <1>2, <1>3, <1>7 DEF Alive
  <2> QED  BY <2>1, <2>2, <2>3, <2>4 DEF LifeInv
<1>14. MadeInv'
  <2>1. MadeInv /\ item' = item /\ owns' = owns /\ frame' = frame
    BY <1>1 DEF HInv
  <2>2. \A u \in Thread : \A x \in Obj : x = frame[u].new \/ x = frame[u].entry => x # f /\ x # s
    BY <1>4, <1>6
  <2> QED  BY <1>2, <1>3, <2>1, <2>2 DEF MadeInv
<1>15. WholeInv' /\ OwnsInv'
  <2>1. \A x \in Obj : BeingMade(x)' <=> BeingMade(x)
    BY <1>1 DEF BeingMade
  <2>2. WholeInv /\ OwnsInv /\ item' = item /\ owns' = owns /\ owns \subseteq Obj
    BY <1>1 DEF HInv, TypeOK
  <2>3. WholeInv'
    BY <1>1, <1>2, <1>3, <1>5, <1>8, <2>1, <2>2 DEF WholeInv, Owners
  <2>4. OwnsInv'
    BY <1>2, <1>4, <2>2 DEF OwnsInv
  <2> QED  BY <2>3, <2>4
<1>16. OwnerInv'
  <2>1. \A x : Pending(x)' <=> Pending(x)
    BY <1>1 DEF Pending
  <2>2. OwnerInv /\ owns' = owns /\ stranded' = stranded /\ open' = open
    BY <1>1 DEF HInv
  <2>3. \A x \in owns : Alive(x)'
    BY <1>2, <1>4, <2>2 DEF HInv, TypeOK, OwnerInv, Alive
  <2> QED  BY <2>1, <2>2, <2>3 DEF OwnerInv
<1>17. FsInv'
  <2> DEFINE C == {f}
  <2>1. /\ \A x \in owns \ C : fs'[x] = VolumeOf(x)'
        /\ \A u \in Thread :
              frame'[u] = frame[u] /\ frame[u].self \notin C /\ frame[u].new \notin C =>
                /\ frame'[u].at = "glfs_init" => fs'[frame'[u].new] = frame'[u].new
                /\ frame'[u].at \in {"extract", "build"} =>
                     fs'[frame'[u].new] = VolumeOf(frame[u].self)'
    <3>1. C \in SUBSET Obj /\ \A c \in C : \A o \in Obj : c # base[o]
      BY <1>4
    <3>2. \A x \in Obj \ C : base'[x] = base[x] /\ kind'[x] = kind[x] /\ fs'[x] = fs[x]
      BY <1>1, <1>2
    <3> HIDE DEF C
    <3> QED  BY <3>1, <3>2, FsKept
  <2> QED  BY <1>1, <1>4, <2>1 DEF FsInv
<1> QED  BY <1>7, <1>9, <1>10, <1>11, <1>12, <1>13, <1>14, <1>15, <1>16, <1>17 DEF HInv

LEMMA GetFieldStep ==
  ASSUME HInv, NEW t \in Thread, NEW s \in Obj, NEW x \in Obj, GetField(t, s, x)
  PROVE  HInv'
<1>1. /\ kind' = kind /\ base' = base /\ item' = item /\ owns' = owns /\ dying' = dying
      /\ gil' = gil /\ frame' = frame /\ stranded' = stranded /\ wild' = wild
      /\ open' = open /\ fs' = fs
      /\ x = base[s] \/ x = item[s]
  BY DEF GetField, native
<1>2. refs'[x] = refs[x] \cup {Python} /\ \A z \in Obj \ {x} : refs'[z] = refs[z]
  BY DEF GetField, HInv, TypeOK
<1>3. refs[x] # {} /\ x \notin Dead /\ Alive(x) /\ ~BeingMade(x)
  BY <1>1, ReferredTo
<1>4. Dead' = Dead /\ DyingInv' /\ \A z : VolumeOf(z)' = VolumeOf(z)
  BY <1>1, DeadKept, Unmoved DEF HInv
<1>5. \A z \in Obj : BeingMade(z)' <=> BeingMade(z)
  BY <1>1 DEF BeingMade
<1>6. TypeOK'
  <2>1. \A u \in Thread : Finishing(u)' => Dying(u)' \in owns' /\ kind'[Dying(u)'] = "Volume"
    BY <1>1, FinishingKept
  <2>2. refs' \in [Obj -> SUBSET Holders]
    BY DEF GetField, HInv, TypeOK, Holders
  <2> QED  BY <1>1, <2>1, <2>2 DEF HInv, TypeOK
<1>7. RefInv'
  <2>1. \A z \in Obj : \A h \in Obj \cup Thread : h \in refs'[z] <=> h \in refs[z]
    BY <1>2, HandlesAssumption
  <2> QED  BY <1>1, <2>1 DEF HInv, RefInv
<1>8. FieldInv' /\ StrandedInv' /\ BusyInv' /\ FrameInv'
  <2>1. FieldInv' /\ StrandedInv' /\ BusyInv'
    BY <1>1 DEF HInv, FieldInv, BaseFits, StrandedInv, BusyInv
  <2>2. FrameInv'
    BY <1>1 DEF HInv, FrameInv
  <2> QED  BY <2>1, <2>2
<1>9. LifeInv'
  <2>1. LifeInv /\ kind' = kind
    BY <1>1 DEF HInv
  <2> QED  BY <1>2, <1>3, <1>4, <2>1 DEF LifeInv, Alive
<1>10. MadeInv'
  <2>1. /\ MadeInv /\ base' = base /\ item' = item /\ owns' = owns /\ frame' = frame
    BY <1>1 DEF HInv
  <2>2. \A u \in Thread : x # frame[u].new /\ x # frame[u].entry
    BY <1>3 DEF BeingMade
  <2> QED  BY <1>2, <2>1, <2>2 DEF MadeInv
<1>11. WholeInv' /\ OwnsInv'
  <2>1. WholeInv /\ kind' = kind /\ base' = base /\ item' = item /\ owns' = owns
    BY <1>1 DEF HInv
  <2>2. \A z \in Obj : refs'[z] # {} => refs[z] # {}
    BY <1>2, <1>3
  <2>3. WholeInv'
    BY <1>5, <2>1, <2>2 DEF WholeInv
  <2> QED  BY <1>1, <2>3 DEF HInv, OwnsInv
<1>12. OwnerInv' /\ FsInv'
  BY <1>1, <1>4 DEF HInv, OwnerInv, Pending, Alive, FsInv
<1> QED  BY <1>4, <1>6, <1>7, <1>8, <1>9, <1>10, <1>11, <1>12 DEF HInv
-----------------------------------------------------------------------------
(* The steps: deallocation closes a handle.                                *)

LEMMA ClosedStep ==
  ASSUME HInv, NEW t \in Thread, CloseNative(t) \/ EndFini(t)
  PROVE  HInv'
<1> DEFINE x == Dying(t)
<1>1. /\ dying[t] # <<>> /\ x \in owns
      /\ kind' = kind /\ refs' = refs /\ base' = base /\ item' = item /\ dying' = dying
      /\ frame' = frame /\ stranded' = stranded /\ wild' = wild /\ fs' = fs
      /\ owns' = owns \ {x} /\ open' = open \ {x} /\ gil' = t
      /\ (gil = t /\ kind[x] # "Volume") \/ gil = NULL
  BY DEF CloseNative, EndFini, Finishing, HInv, TypeOK
<1>2. x \in Obj /\ x \in Dead
  BY <1>1, DyingIsDead DEF HInv
<1>3. refs[x] = {} /\ \A u \in Thread : x # frame[u].self /\ x # frame[u].new /\ x # frame[u].entry
  BY <1>2 DEF HInv, LifeInv, RefInv
<1>4. Dead' = Dead /\ DyingInv' /\ (\A z : VolumeOf(z)' = VolumeOf(z)) /\ \A u : Dying(u)' = Dying(u)
  BY <1>1, DeadKept, Unmoved DEF HInv
<1>5. \A u \in Thread : Finishing(u)' => Dying(u)' \in owns' /\ kind'[Dying(u)'] = "Volume"
  <2> SUFFICES ASSUME NEW u \in Thread, Finishing(u)'
               PROVE  Dying(u) \in owns \ {x} /\ kind[Dying(u)] = "Volume"
    BY <1>1, <1>4
  <2>1. dying[u] # <<>> /\ u # t /\ Finishing(u)
    BY <1>1, HandlesAssumption DEF Finishing
  <2>2. Dying(u) \in owns /\ kind[Dying(u)] = "Volume"
    BY <2>1 DEF HInv, TypeOK
  <2>3. CASE kind[x] # "Volume"
    BY <2>2, <2>3
  <2>4. Dying(u) # x
    <3>1. Dying(u) \in ToSet(dying[u]) /\ Dying(t) \in ToSet(dying[t])
      BY <1>1, <2>1, LastInside DEF HInv
    <3> QED  BY <2>1, <3>1 DEF HInv, DyingInv
  <2> QED  BY <2>2, <2>4
<1> HIDE DEF x
<1>6. TypeOK'
  <2>1. TypeOK
    BY DEF HInv
  <2> QED  BY <1>1, <1>5, <2>1 DEF TypeOK
<1>7. RefInv' /\ FieldInv' /\ StrandedInv' /\ BusyInv' /\ FrameInv'
  <2>1. RefInv'
    BY <1>1 DEF HInv, RefInv
  <2>2. FieldInv' /\ StrandedInv' /\ BusyInv'
    BY <1>1 DEF HInv, FieldInv, BaseFits, StrandedInv, BusyInv
  <2>3. FrameInv'
    BY <1>1 DEF HInv, FrameInv
  <2> QED  BY <2>1, <2>2, <2>3
<1>8. LifeInv' /\ MadeInv'
  BY <1>1, <1>4 DEF HInv, LifeInv, Alive, MadeInv
<1>9. WholeInv' /\ OwnsInv'
  <2>1. \A z \in Obj : BeingMade(z)' <=> BeingMade(z)
    BY <1>1 DEF BeingMade
  <2>2. WholeInv /\ OwnsInv
    BY DEF HInv
  <2>3. WholeInv'
    BY <1>1, <1>3, <2>1, <2>2 DEF WholeInv
  <2>4. OwnsInv'
    BY <1>1, <2>2 DEF OwnsInv
  <2> QED  BY <2>3, <2>4
<1>10. OwnerInv'
  <2>1. \A z : Pending(z)' <=> Pending(z)
    BY <1>1 DEF Pending
  <2>2. ~Pending(x)
    BY <1>3 DEF Pending
  <2>3. OwnerInv
    BY DEF HInv
  <2>4. \A z \in owns' : z \notin stranded' /\ Alive(z)'
    BY <1>1, <2>3 DEF OwnerInv, Alive
  <2>5. x \notin stranded
    BY <1>1, <2>3 DEF OwnerInv
  <2> QED  BY <1>1, <2>1, <2>2, <2>3, <2>4, <2>5 DEF OwnerInv
<1>11. FsInv'
  BY <1>1, <1>4 DEF HInv, FsInv
<1> QED  BY <1>4, <1>6, <1>7, <1>8, <1>9, <1>10, <1>11 DEF HInv

LEMMA BeginFiniStep ==
  ASSUME HInv, NEW t \in Thread, BeginFini(t)
  PROVE  HInv'
<1>1. /\ kind' = kind /\ refs' = refs /\ base' = base /\ item' = item /\ dying' = dying
      /\ frame' = frame /\ stranded' = stranded /\ wild' = wild /\ fs' = fs
      /\ owns' = owns /\ open' = open /\ gil = t /\ gil' = NULL
      /\ Dying(t) \in owns /\ kind[Dying(t)] = "Volume"
  BY DEF BeginFini, objects, native
<1>2. Dead' = Dead /\ DyingInv' /\ (\A z : VolumeOf(z)' = VolumeOf(z)) /\ \A u : Dying(u)' = Dying(u)
  BY <1>1, DeadKept, Unmoved DEF HInv
<1>3. TypeOK'
  <2>1. TypeOK
    BY DEF HInv
  <2>2. \A u \in Thread : Finishing(u)' => Dying(u) \in owns /\ kind[Dying(u)] = "Volume"
    BY <1>1, <2>1 DEF TypeOK, Finishing
  <2> QED  BY <1>1, <1>2, <2>1, <2>2 DEF TypeOK
<1>4. RefInv' /\ FieldInv' /\ StrandedInv' /\ BusyInv' /\ FrameInv'
  <2>1. RefInv'
    BY <1>1 DEF HInv, RefInv
  <2>2. FieldInv' /\ StrandedInv' /\ BusyInv'
    BY <1>1 DEF HInv, FieldInv, BaseFits, StrandedInv, BusyInv
  <2>3. FrameInv'
    BY <1>1 DEF HInv, FrameInv
  <2> QED  BY <2>1, <2>2, <2>3
<1>5. LifeInv' /\ MadeInv'
  BY <1>1, <1>2 DEF HInv, LifeInv, Alive, MadeInv
<1>6. WholeInv' /\ OwnsInv'
  <2>1. \A z \in Obj : BeingMade(z)' <=> BeingMade(z)
    BY <1>1 DEF BeingMade
  <2> QED  BY <1>1, <2>1 DEF HInv, WholeInv, OwnsInv
<1>7. OwnerInv' /\ FsInv'
  BY <1>1, <1>2 DEF HInv, OwnerInv, Pending, Alive, FsInv
<1> QED  BY <1>2, <1>3, <1>4, <1>5, <1>6, <1>7 DEF HInv
-----------------------------------------------------------------------------
(* The steps: references are dropped, and objects freed.                   *)

(* Another tp_dealloc is entered ...                                       *)
LEMMA Pushed ==
  ASSUME TypeOK, DyingInv, NEW t \in Thread, NEW x \in Obj, x \notin Dead,
         dying' = [dying EXCEPT ![t] = Append(@, x)]
  PROVE  /\ dying' \in [Thread -> Seq(Obj)] /\ Dead' = Dead \cup {x} /\ DyingInv'
         /\ \A u \in Thread \ {t} : dying'[u] = dying[u] /\ Dying(u)' = Dying(u)
<1> DEFINE s == dying[t]
           n == Len(s)
<1>1. s \in Seq(Obj) /\ n \in Nat /\ dying'[t] = Append(s, x)
  BY LenProperties DEF TypeOK
<1>2. /\ Append(s, x) \in Seq(Obj) /\ Len(Append(s, x)) = n + 1
      /\ \A i \in 1..n : Append(s, x)[i] = s[i]
      /\ Append(s, x)[n + 1] = x
  BY <1>1, AppendProperties
<1>3. 1..(n + 1) = (1..n) \cup {n + 1} /\ n + 1 \notin 1..n
  BY <1>1
<1>4. \A u \in Thread \ {t} : dying'[u] = dying[u]
  BY DEF TypeOK
<1>5. ToSet(s) = {s[i] : i \in 1..n}
  BY DEF ToSet
<1> HIDE DEF s, n
<1>6. {Append(s, x)[i] : i \in 1..(n + 1)} = {s[i] : i \in 1..n} \cup {x}
  BY <1>2, <1>3
<1>7. ToSet(Append(s, x)) = ToSet(s) \cup {x}
  BY <1>2, <1>5, <1>6 DEF ToSet
<1>8. ToSet(dying'[t]) = ToSet(dying[t]) \cup {x}
  BY <1>1, <1>7 DEF s
<1>9. Dead' = Dead \cup {x}
  <2>1. \A u \in Thread \ {t} : ToSet(dying'[u]) = ToSet(dying[u])
    BY <1>4
  <2> QED  BY <1>8, <2>1 DEF Dead
<1>10. x \notin ToSet(s) /\ \A u \in Thread : x \notin ToSet(dying[u])
  BY DEF Dead, s
<1>11. \A i, j \in 1..Len(dying'[t]) : dying'[t][i] = dying'[t][j] => i = j
  <2>1. \A i, j \in 1..n : s[i] = s[j] => i = j
    BY DEF DyingInv, s, n
  <2>2. \A i \in 1..n : s[i] # x
    BY <1>5, <1>10
  <2>3. \A i, j \in 1..(n + 1) : Append(s, x)[i] = Append(s, x)[j] => i = j
    BY <1>2, <1>3, <2>1, <2>2
  <2> QED  BY <1>1, <1>2, <2>3
<1>12. DyingInv'
  <2>1. \A u \in Thread \ {t} : ToSet(dying'[t]) \cap ToSet(dying'[u]) = {}
    BY <1>4, <1>8, <1>10 DEF DyingInv
  <2>2. \A u, w \in Thread \ {t} : u # w => ToSet(dying'[w]) \cap ToSet(dying'[u]) = {}
    BY <1>4 DEF DyingInv
  <2>3. \A w \in Thread \ {t} : \A i, j \in 1..Len(dying'[w]) : dying'[w][i] = dying'[w][j] => i = j
    BY <1>4 DEF DyingInv
  <2> QED  BY <1>11, <2>1, <2>2, <2>3 DEF DyingInv
<1>13. dying' \in [Thread -> Seq(Obj)]
  BY <1>1, <1>2 DEF TypeOK, s
<1> QED  BY <1>4, <1>9, <1>12, <1>13 DEF Dying

(* ... and the innermost is left.                                          *)
LEMMA Popped ==
  ASSUME TypeOK, DyingInv, NEW t \in Thread, dying[t] # <<>>,
         dying' = [dying EXCEPT ![t] = Front(@)]
  PROVE  /\ dying' \in [Thread -> Seq(Obj)] /\ Dead' = Dead \ {Dying(t)} /\ DyingInv'
         /\ (Len(dying[t]) = 1 <=> dying'[t] = <<>>)
         /\ \A u \in Thread \ {t} : dying'[u] = dying[u] /\ Dying(u)' = Dying(u)
<1> DEFINE s == dying[t]
           n == Len(s) - 1
<1>1. s \in Seq(Obj) /\ n \in Nat /\ n + 1 = Len(s) /\ dying'[t] = Front(s)
  BY EmptySeq, LenProperties DEF TypeOK
<1>2. \A i \in 1..n : s[i] \in Obj
  BY <1>1, ElementOfSeq
<1>3. Front(s) = SubSeq(s, 1, n) /\ Dying(t) = s[n + 1]
  BY <1>1 DEF Front, Dying, Last
<1>4. 1..(n + 1) = (1..n) \cup {n + 1} /\ n + 1 \notin 1..n
  BY <1>1
<1>5. \A u \in Thread \ {t} : dying'[u] = dying[u]
  BY DEF TypeOK
<1>6. ToSet(s) = {s[i] : i \in 1..(n + 1)}
  BY <1>1 DEF ToSet
<1> HIDE DEF s, n
<1>7. /\ Front(s) \in Seq(Obj) /\ Len(Front(s)) = n
      /\ \A i \in 1..n : Front(s)[i] = s[i]
  <2>1. /\ SubSeq(s, 1, n) \in Seq(Obj)
        /\ Len(SubSeq(s, 1, n)) = IF 1 <= n THEN n - 1 + 1 ELSE 0
        /\ \A i \in 1..(n - 1 + 1) : SubSeq(s, 1, n)[i] = s[1 + i - 1]
    BY <1>1, <1>2, SubSeqProperties
  <2> QED  BY <1>1, <1>3, <2>1
<1>8. \A i, j \in 1..(n + 1) : s[i] = s[j] => i = j
  BY <1>1 DEF DyingInv, s
<1>9. ToSet(dying'[t]) = ToSet(s) \ {Dying(t)}
  <2>1. ToSet(dying'[t]) = {Front(s)[i] : i \in 1..n}
    BY <1>1, <1>7 DEF ToSet
  <2>2. {Front(s)[i] : i \in 1..n} = {s[i] : i \in 1..n}
    BY <1>7
  <2>3. \A i \in 1..n : s[i] # s[n + 1]
    BY <1>4, <1>8
  <2> QED  BY <1>3, <1>4, <1>6, <2>1, <2>2, <2>3
<1>10. Dying(t) \in ToSet(s)
  BY <1>3, <1>4, <1>6
<1>11. Dead' = Dead \ {Dying(t)}
  <2>1. \A u \in Thread \ {t} : ToSet(dying'[u]) = ToSet(dying[u]) /\ Dying(t) \notin ToSet(dying[u])
    BY <1>5, <1>10 DEF DyingInv, s
  <2> QED  BY <1>9, <2>1 DEF Dead, s
<1>12. DyingInv'
  <2>1. \A i, j \in 1..Len(dying'[t]) : dying'[t][i] = dying'[t][j] => i = j
    BY <1>1, <1>4, <1>7, <1>8
  <2>2. \A u \in Thread \ {t} : ToSet(dying'[t]) \cap ToSet(dying'[u]) = {}
    BY <1>5, <1>9 DEF DyingInv, s
  <2>3. \A u, w \in Thread \ {t} : u # w => ToSet(dying'[w]) \cap ToSet(dying'[u]) = {}
    BY <1>5 DEF DyingInv
  <2>4. \A w \in Thread \ {t} : \A i, j \in 1..Len(dying'[w]) : dying'[w][i] = dying'[w][j] => i = j
    BY <1>5 DEF DyingInv
  <2> QED  BY <2>1, <2>2, <2>3, <2>4 DEF DyingInv
<1>13. dying' \in [Thread -> Seq(Obj)]
  BY <1>1, <1>7 DEF TypeOK, s
<1>14. Len(dying[t]) = 1 <=> dying'[t] = <<>>
  <2>1. Len(dying[t]) = n + 1 /\ Len(dying'[t]) = n /\ dying'[t] \in Seq(Obj)
    BY <1>1, <1>7 DEF s
  <2>2. n = 0 <=> dying'[t] = <<>>
    BY <1>1, <2>1, EmptySeq
  <2> QED  BY <1>1, <2>1, <2>2
<1> QED  BY <1>5, <1>11, <1>12, <1>13, <1>14 DEF Dying

(* A pointer is given up, by the program, by a method that returns or by   *)
(* a deallocation, and the reference it stood for.                         *)
Unrefs(t, x, h) ==
  /\ h \in refs[x] /\ Decref(t, x, h)
  /\ gil \in {NULL, t} /\ (dying[t] = <<>> \/ gil = t)
  /\ gil' = t \/ (gil' = NULL /\ dying[t] = <<>> /\ refs[x] # {h})
  /\ UNCHANGED <<kind, owns, native, wild>>
  /\ \/ h = Python /\ frame[t].at = "python" /\ UNCHANGED <<base, item, frame>>
     \/ /\ h = t /\ x = frame[t].self /\ frame[t].at = "return"
        /\ frame' = [frame EXCEPT ![t] = InPython]
        /\ UNCHANGED <<base, item>>
     \/ /\ h \in Dead \ owns /\ dying[t] # <<>> /\ x = base[h]
        /\ base' = [base EXCEPT ![h] = NULL]
        /\ UNCHANGED <<item, frame>>
     \/ /\ h \in Dead \ owns /\ dying[t] # <<>> /\ base[h] = NULL /\ x = item[h]
        /\ item' = [item EXCEPT ![h] = NULL]
        /\ UNCHANGED <<base, frame>>

LEMMA UnrefStep ==
  ASSUME HInv, NEW t \in Thread, NEW x \in Obj, NEW h, Unrefs(t, x, h)
  PROVE  HInv'
<1>1. /\ kind' = kind /\ owns' = owns /\ open' = open /\ stranded' = stranded /\ fs' = fs
      /\ wild' = wild
  BY DEF Unrefs, native
<1>2. /\ h \in refs[x] /\ refs'[x] = refs[x] \ {h} /\ refs' \in [Obj -> SUBSET Holders]
      /\ \A z \in Obj \ {x} : refs'[z] = refs[z]
  BY DEF Unrefs, Decref, HInv, TypeOK
<1>3. refs[x] # {} /\ x \notin Dead /\ Alive(x)
  BY <1>2 DEF HInv, LifeInv
<1>4. \A z \in Obj : NULL # z /\ Python # z /\ \A u \in Thread : u # z /\ u # Python
  BY HandlesAssumption
<1>6. frame' \in [Thread -> Frames] /\ base' \in [Obj -> Obj \cup {NULL}] /\ item' \in [Obj -> Obj \cup {NULL}]
  <2>1. frame \in [Thread -> Frames] /\ InPython \in Frames
    BY DEF HInv, TypeOK, Frames, InPython
  <2>2. frame' = frame \/ frame' = [frame EXCEPT ![t] = InPython]
    BY DEF Unrefs
  <2>3. frame' \in [Thread -> Frames]
    BY <2>1, <2>2
  <2> QED  BY <2>3 DEF Unrefs, HInv, TypeOK
<1>7. /\ \A u \in Thread \ {t} : frame'[u] = frame[u]
      /\ frame'[t].new = frame[t].new /\ frame'[t].entry = frame[t].entry
      /\ frame'[t] = frame[t] \/ (/\ h = t /\ x = frame[t].self /\ frame'[t].self = NULL
                                  /\ frame[t].at = "return" /\ frame'[t].at = "python")
  BY DEF Unrefs, InPython, HInv, TypeOK, Frames, FrameInv, Making
<1>8. \A z \in Obj : BeingMade(z)' <=> BeingMade(z)
  BY <1>7 DEF BeingMade
<1>9. ~BeingMade(x)
  <2>1. \/ Python \in refs[x]
        \/ \E o \in Obj : x = base[o] \/ x = item[o]
        \/ \E u \in Thread : x = frame[u].self
    <3>1. \A o \in Obj : h = o => x = base[o] \/ x = item[o]
      BY <1>2 DEF HInv, RefInv
    <3>2. h = Python \/ h = t \/ h \in Obj
      BY DEF Unrefs, HInv, TypeOK, Dead, ToSet
    <3>3. h = t => x = frame[t].self
      BY HandlesAssumption DEF Unrefs, HInv, TypeOK, Dead, ToSet
    <3> QED  BY <1>2, <3>1, <3>2, <3>3
  <2> QED  BY <2>1, ReferredTo
<1>10. \A u \in Thread : x # frame[u].new /\ x # frame[u].entry
  BY <1>9 DEF BeingMade
<1>11. \A z \in Obj : z = h =>
         /\ z # x /\ z \in Dead /\ z \notin owns /\ refs[z] = {} /\ dying[t] # <<>>
         /\ \A o \in Obj : z # base[o] /\ z # item[o]
         /\ \A u \in Thread : z # frame[u].self /\ z # frame[u].new
  <2> SUFFICES ASSUME h \in Obj
               PROVE  /\ h # x /\ h \in Dead /\ h \notin owns /\ refs[h] = {} /\ dying[t] # <<>>
                      /\ \A o \in Obj : h # base[o] /\ h # item[o]
                      /\ \A u \in Thread : h # frame[u].self /\ h # frame[u].new
    OBVIOUS
  <2>1. h \in Dead /\ h \notin owns /\ dying[t] # <<>>
    BY <1>4 DEF Unrefs
  <2>2. refs[h] = {}
    BY <2>1 DEF HInv, LifeInv
  <2> QED  BY <1>3, <2>1, <2>2 DEF HInv, RefInv
<1>12. /\ \A z \in Obj : z # h => base'[z] = base[z] /\ item'[z] = item[z]
       /\ \A z \in Obj : base'[z] \in {base[z], NULL} /\ item'[z] \in {item[z], NULL}
  BY DEF Unrefs, HInv, TypeOK
<1>13. \/ dying' = dying /\ Dead' = Dead /\ DyingInv' /\ refs[x] # {h}
       \/ /\ dying' \in [Thread -> Seq(Obj)] /\ Dead' = Dead \cup {x} /\ DyingInv'
          /\ \A u \in Thread \ {t} : dying'[u] = dying[u]
          /\ refs[x] = {h} /\ gil' = t
  <2>1. TypeOK /\ DyingInv
    BY DEF HInv
  <2>2. CASE refs[x] = {h}
    <3>1. dying' = [dying EXCEPT ![t] = Append(@, x)] /\ gil' = t
      BY <2>2 DEF Unrefs, Decref
    <3> QED  BY <1>3, <2>1, <2>2, <3>1, Pushed
  <2>3. CASE refs[x] # {h}
    <3>1. dying' = dying
      BY <2>1, <2>3 DEF Unrefs, Decref, TypeOK
    <3> QED  BY <2>1, <2>3, <3>1, DeadKept
  <2> QED  BY <2>2, <2>3
<1>14. TypeOK'
  <2>1. \A u \in Thread : Finishing(u)' => Dying(u)' \in owns' /\ kind'[Dying(u)'] = "Volume"
    <3> SUFFICES ASSUME NEW u \in Thread, Finishing(u)'
                 PROVE  Dying(u)' \in owns' /\ kind'[Dying(u)'] = "Volume"
      OBVIOUS
    <3>1. u # t
      <4>1. gil' = NULL => dying'[t] = <<>>
        BY <1>13, <1>4, HandlesAssumption DEF Unrefs
      <4>2. gil' = t \/ gil' = NULL
        BY DEF Unrefs
      <4> QED  BY <4>1, <4>2 DEF Finishing
    <3>2. dying'[u] = dying[u] /\ Finishing(u)
      BY <1>13, <3>1, HandlesAssumption DEF Unrefs, Finishing
    <3>3. Dying(u)' = Dying(u)
      BY <3>2 DEF Dying
    <3> QED  BY <1>1, <3>2, <3>3 DEF HInv, TypeOK
  <2>2. gil' \in Thread \cup {NULL}
    BY DEF Unrefs
  <2>3. dying' \in [Thread -> Seq(Obj)]
    BY <1>13 DEF HInv, TypeOK
  <2> QED  BY <1>1, <1>2, <1>6, <2>1, <2>2, <2>3 DEF HInv, TypeOK
<1>15. RefInv'
  <2>1. RefInv
    BY DEF HInv
  <2>2. \A z \in Obj : \A g : g \in refs'[z] <=> g \in refs[z] /\ ~(g = h /\ z = x)
    BY <1>2
  <2>3. \A z, o \in Obj :
          z = base'[o] \/ z = item'[o] <=> (z = base[o] \/ z = item[o]) /\ ~(o = h /\ z = x)
    <3>1. \A z, o \in Obj : o # h =>
            (z = base'[o] \/ z = item'[o] <=> (z = base[o] \/ z = item[o]) /\ ~(o = h /\ z = x))
      BY <1>12
    <3>2. ASSUME h \in Obj
          PROVE  \A z \in Obj : z = base'[h] \/ z = item'[h] <=> (z = base[h] \/ z = item[h]) /\ z # x
      <4>1. \/ x = base[h] /\ base'[h] = NULL /\ item'[h] = item[h]
            \/ base[h] = NULL /\ x = item[h] /\ item'[h] = NULL /\ base'[h] = NULL
        BY <1>4, <3>2 DEF Unrefs, HInv, TypeOK
      <4>2. ~(x = base[h] /\ x = item[h])
        BY <1>4, <3>2 DEF HInv, FieldInv, BaseFits
      <4> QED  BY <1>4, <4>1, <4>2
    <3> QED  BY <3>1, <3>2
  <2>4. \A z \in Obj, u \in Thread :
          z = frame'[u].self \/ z = frame'[u].new \/ z = frame'[u].entry <=>
            (z = frame[u].self \/ z = frame[u].new \/ z = frame[u].entry) /\ ~(u = h /\ z = x)
    <3>1. h \in Thread => /\ h = t /\ x = frame[t].self /\ frame'[t].self = NULL
                          /\ frame[t].new = NULL /\ frame[t].entry = NULL
      <4>1. h \in Thread => h = t /\ x = frame[t].self /\ frame[t].at = "return" /\ frame' = [frame EXCEPT ![t] = InPython]
        BY HandlesAssumption DEF Unrefs, HInv, TypeOK, Dead, ToSet
      <4> QED  BY <4>1 DEF InPython, HInv, TypeOK, FrameInv, Making
    <3>2. h \notin Thread => frame'[t] = frame[t]
      BY <1>7
    <3>3. \A u \in Thread \ {t} : u # h
      BY <3>1
    <3> QED  BY <1>4, <1>7, <3>1, <3>2, <3>3
  <2>5. \A z, o \in Obj : o \in refs'[z] <=> z = base'[o] \/ z = item'[o]
    <3>1. \A z, o \in Obj : o \in refs[z] <=> z = base[o] \/ z = item[o]
      BY <2>1 DEF RefInv
    <3> QED  BY <2>2, <2>3, <3>1
  <2>6. \A z \in Obj, u \in Thread :
          u \in refs'[z] <=> z = frame'[u].self \/ z = frame'[u].new \/ z = frame'[u].entry
    <3>1. \A z \in Obj, u \in Thread :
            u \in refs[z] <=> z = frame[u].self \/ z = frame[u].new \/ z = frame[u].entry
      BY <2>1 DEF RefInv
    <3> QED  BY <2>2, <2>4, <3>1
  <2> QED  BY <2>5, <2>6 DEF RefInv
<1>16. FieldInv' /\ StrandedInv'
  <2>1. FieldInv /\ StrandedInv
    BY DEF HInv
  <2>2. FieldInv'
    <3>1. \A z \in Obj : base'[z] # NULL => BaseFits(z, base[z]) /\ base'[z] = base[z]
      BY <1>12, <2>1 DEF FieldInv
    <3>2. \A z \in Obj : item'[z] # NULL =>
            item'[z] = item[z] /\ kind[z] = "FTSEntry" /\ kind[item[z]] = "ObjectHandle"
      BY <1>12, <2>1 DEF FieldInv
    <3> QED  BY <1>1, <3>1, <3>2 DEF FieldInv, BaseFits
  <2>3. StrandedInv'
    BY <1>1, <2>1 DEF StrandedInv
  <2> QED  BY <2>2, <2>3
<1>17. BusyInv'
  <2>1. frame'[t].at \in {"python", "return"}
    BY <1>7 DEF Unrefs, HInv, BusyInv
  <2>2. \A u \in Thread \ {t} : dying'[u] = dying[u]
    BY <1>13
  <2>3. BusyInv
    BY DEF HInv
  <2> QED  BY <1>7, <2>1, <2>2, <2>3 DEF BusyInv
<1>18. FrameInv'
  <2>1. FrameInv /\ kind' = kind
    BY <1>1 DEF HInv
  <2> QED  BY <1>7, <2>1 DEF FrameInv, Making
<1>19. LifeInv'
  <2>1. LifeInv /\ kind' = kind
    BY <1>1 DEF HInv
  <2>2. \A z \in Obj \ {x} : z \in Dead' <=> z \in Dead
    BY <1>13
  <2>3. \A z \in Obj \ {x} : refs'[z] = refs[z]
    BY <1>2
  <2>4. x \in Dead' <=> refs'[x] = {}
    BY <1>2, <1>3, <1>13
  <2> QED  BY <1>3, <2>1, <2>2, <2>3, <2>4 DEF LifeInv, Alive
<1>20. MadeInv'
  <2>1. MadeInv /\ owns' = owns
    BY <1>1 DEF HInv
  <2>2. \A u \in Thread : frame'[u].self \in {frame[u].self, NULL}
    BY <1>7
  <2>3. \A u \in Thread : frame'[u].new = frame[u].new /\ frame'[u].entry = frame[u].entry
    BY <1>7
  <2>4. \A z \in Obj : base[z] = NULL /\ item[z] = NULL => base'[z] = NULL /\ item'[z] = NULL
    BY <1>12
  <2>5. \A z \in Obj : NULL # z
    BY <1>4
  <2> QED  BY <1>2, <1>10, <2>1, <2>2, <2>3, <2>4, <2>5 DEF MadeInv
<1>21. WholeInv' /\ OwnsInv'
  <2>1. WholeInv /\ OwnsInv /\ owns' = owns /\ owns \subseteq Obj /\ kind' = kind
    BY <1>1 DEF HInv, TypeOK
  <2>2. \A z \in Obj : refs'[z] # {} => refs[z] # {} /\ z # h
    BY <1>2, <1>11
  <2>3. WholeInv'
    BY <1>8, <1>12, <2>1, <2>2 DEF WholeInv
  <2>4. \A z \in owns : z # h
    BY <1>11, <2>1
  <2>5. OwnsInv'
    BY <1>12, <2>1, <2>4 DEF OwnsInv
  <2> QED  BY <2>3, <2>5
<1>22. OwnerInv'
  <2>1. \A z : Pending(z)' <=> Pending(z)
    BY <1>7 DEF Pending
  <2> QED  BY <1>1, <2>1 DEF HInv, OwnerInv, Alive
<1>23. FsInv'
  <2>1. PICK C \in SUBSET Obj : \A z \in Obj : z \in C <=> z = h
    <3>1. {z \in Obj : z = h} \in SUBSET Obj
      OBVIOUS
    <3> QED  BY <3>1
  <2>2. /\ \A z \in owns \ C : fs'[z] = VolumeOf(z)'
        /\ \A u \in Thread :
              frame'[u] = frame[u] /\ frame[u].self \notin C /\ frame[u].new \notin C =>
                /\ frame'[u].at = "glfs_init" => fs'[frame'[u].new] = frame'[u].new
                /\ frame'[u].at \in {"extract", "build"} =>
                     fs'[frame'[u].new] = VolumeOf(frame[u].self)'
    <3>1. \A c \in C : \A o \in Obj : c # base[o]
      BY <1>11, <2>1
    <3>2. \A z \in Obj \ C : base'[z] = base[z] /\ kind'[z] = kind[z] /\ fs'[z] = fs[z]
      BY <1>1, <1>12, <2>1
    <3> QED  BY <3>1, <3>2, FsKept
  <2>3. \A u \in Thread : frame[u].self \notin C /\ frame[u].new \notin C
    BY <1>11, <2>1
  <2>4. owns' = owns /\ \A z \in owns : z \notin C
    BY <1>1, <1>11, <2>1
  <2>5. \A u \in Thread : frame'[u] = frame[u] \/ frame'[u].at = "python"
    BY <1>7
  <2> QED  BY <2>2, <2>3, <2>4, <2>5 DEF FsInv
<1> QED  BY <1>13, <1>14, <1>15, <1>16, <1>17, <1>18, <1>19, <1>20, <1>21, <1>22, <1>23 DEF HInv

LEMMA UnrefSteps ==
  ASSUME HInv, NEW t \in Thread,
         (\E x \in Obj : Drop(t, x)) \/ Return(t) \/ ClearBase(t) \/ ClearItem(t)
  PROVE  HInv'
<1>1. ASSUME NEW x \in Obj, Drop(t, x) PROVE HInv'
  <2>1. Unrefs(t, x, Python)
    BY <1>1 DEF Drop, HasGIL, Unrefs
  <2> QED  BY <2>1, UnrefStep
<1>2. CASE Return(t) /\ frame[t].self # NULL
  <2>1. PICK x \in Obj : x = frame[t].self
    BY <1>2 DEF HInv, TypeOK, Frames
  <2>2. t \in refs[x]
    BY <2>1 DEF HInv, RefInv
  <2>3. Unrefs(t, x, t)
    BY <1>2, <2>1, <2>2 DEF Return, HasGIL, Unrefs
  <2> QED  BY <2>3, UnrefStep
<1>3. CASE Return(t) /\ frame[t].self = NULL
  <2>1. /\ kind' = kind /\ refs' = refs /\ base' = base /\ item' = item /\ dying' = dying
        /\ stranded' = stranded /\ wild' = wild /\ fs' = fs /\ owns' = owns /\ open' = open
        /\ dying[t] = <<>> /\ gil \in {NULL, t} /\ gil' = NULL /\ frame[t].at = "return"
    BY <1>3 DEF Return, HasGIL, native
  <2>2. frame' \in [Thread -> Frames]
    BY <1>3 DEF Return, InPython, HInv, TypeOK, Frames
  <2>3. /\ \A u \in Thread \ {t} : frame'[u] = frame[u]
        /\ frame'[t].at = "python" /\ frame'[t].self = frame[t].self
        /\ frame'[t].new = frame[t].new /\ frame'[t].entry = frame[t].entry
        /\ frame[t].self = NULL /\ frame[t].new = NULL /\ frame[t].entry = NULL
    BY <1>3 DEF Return, InPython, HInv, TypeOK, FrameInv, Making
  <2>4. Dead' = Dead /\ DyingInv' /\ (\A z : VolumeOf(z)' = VolumeOf(z)) /\ \A u : Dying(u)' = Dying(u)
    BY <2>1, DeadKept, Unmoved DEF HInv
  <2>5. TypeOK'
    <3>1. TypeOK
      BY DEF HInv
    <3>2. \A u \in Thread : Finishing(u)' => Finishing(u)
      BY <2>1, HandlesAssumption DEF Finishing
    <3>3. \A u \in Thread : Finishing(u)' => Dying(u)' \in owns' /\ kind'[Dying(u)'] = "Volume"
      BY <2>1, <2>4, <3>1, <3>2 DEF TypeOK
    <3> QED  BY <2>1, <2>2, <3>1, <3>3 DEF TypeOK
  <2>6. RefInv' /\ FrameInv' /\ BusyInv'
    <3>1. RefInv'
      BY <2>1, <2>3 DEF HInv, RefInv
    <3>2. FrameInv' /\ BusyInv'
      BY <2>1, <2>3 DEF HInv, FrameInv, Making, BusyInv
    <3> QED  BY <3>1, <3>2
  <2>7. FieldInv' /\ StrandedInv' /\ LifeInv' /\ OwnsInv'
    BY <2>1, <2>4 DEF HInv, FieldInv, BaseFits, StrandedInv, LifeInv, Alive, OwnsInv
  <2>8. MadeInv' /\ WholeInv'
    <3>1. MadeInv'
      BY <2>1, <2>3 DEF HInv, MadeInv
    <3>2. \A z \in Obj : BeingMade(z)' <=> BeingMade(z)
      BY <2>3 DEF BeingMade
    <3> QED  BY <2>1, <3>1, <3>2 DEF HInv, WholeInv
  <2>9. OwnerInv' /\ FsInv'
    <3>1. \A z : Pending(z)' <=> Pending(z)
      BY <2>1, <2>3 DEF Pending
    <3>2. FsInv'
      BY <2>1, <2>3, <2>4 DEF HInv, FsInv
    <3> QED  BY <2>1, <3>1, <3>2 DEF HInv, OwnerInv, Alive
  <2> QED  BY <2>4, <2>5, <2>6, <2>7, <2>8, <2>9 DEF HInv
<1>4. ASSUME dying[t] # <<>>
      PROVE  Dying(t) \in Obj /\ Dying(t) \in Dead
  BY <1>4, DyingIsDead DEF HInv
<1>5. CASE ClearBase(t)
  <2>1. PICK h \in Obj : h = Dying(t) /\ h \in Dead
    BY <1>4, <1>5 DEF ClearBase
  <2>2. PICK x \in Obj : x = base[h]
    BY <1>5, <2>1 DEF ClearBase, HInv, TypeOK
  <2>3. h \in refs[x]
    BY <2>2 DEF HInv, RefInv
  <2>4. Unrefs(t, x, h)
    BY <1>5, <2>1, <2>2, <2>3 DEF ClearBase, Unrefs
  <2> QED  BY <2>4, UnrefStep
<1>6. CASE ClearItem(t)
  <2>1. PICK h \in Obj : h = Dying(t) /\ h \in Dead
    BY <1>4, <1>6 DEF ClearItem
  <2>2. PICK x \in Obj : x = item[h] /\ item[h] # NULL
    BY <1>6, <2>1 DEF ClearItem, HInv, TypeOK
  <2>3. h \in refs[x]
    BY <2>2 DEF HInv, RefInv
  <2>4. h \notin owns
    BY <2>2 DEF HInv, FieldInv, OwnsInv, Owners
  <2>5. Unrefs(t, x, h)
    BY <1>6, <2>1, <2>2, <2>3, <2>4 DEF ClearItem, Unrefs
  <2> QED  BY <2>5, UnrefStep
<1> QED  BY <1>1, <1>2, <1>3, <1>5, <1>6

LEMMA FreeStep ==
  ASSUME HInv, NEW t \in Thread, Free(t)
  PROVE  HInv'
<1>1. PICK x \in Obj : x = Dying(t) /\ x \in Dead
  BY DyingIsDead DEF HInv, Free
<1>2. /\ refs' = refs /\ base' = base /\ item' = item /\ owns' = owns /\ open' = open
      /\ stranded' = stranded /\ frame' = frame /\ wild' = wild
      /\ gil = t /\ dying[t] # <<>> /\ x \notin owns /\ base[x] = NULL /\ item[x] = NULL
      /\ dying' = [dying EXCEPT ![t] = Front(@)]
      /\ kind' = [kind EXCEPT ![x] = "none"] /\ fs' = [fs EXCEPT ![x] = NULL]
      /\ gil' = t \/ (gil' = NULL /\ Len(dying[t]) = 1)
  BY <1>1 DEF Free
<1>3. /\ kind'[x] = "none" /\ \A z \in Obj \ {x} : kind'[z] = kind[z] /\ fs'[z] = fs[z]
      /\ kind' \in [Obj -> Kinds \cup {"none", "stranded"}]
      /\ fs' \in [Obj -> Obj \cup {NULL}]
  BY <1>2 DEF HInv, TypeOK
<1>4. /\ dying' \in [Thread -> Seq(Obj)] /\ Dead' = Dead \ {x} /\ DyingInv'
      /\ (Len(dying[t]) = 1 <=> dying'[t] = <<>>)
      /\ \A u \in Thread \ {t} : dying'[u] = dying[u] /\ Dying(u)' = Dying(u)
  BY <1>1, <1>2, Popped DEF HInv
<1>5. refs[x] = {} /\ Alive(x)
  BY <1>1 DEF HInv, LifeInv
<1>6. /\ \A o \in Obj : x # base[o] /\ x # item[o]
      /\ \A u \in Thread : x # frame[u].self /\ x # frame[u].new /\ x # frame[u].entry
  BY <1>5 DEF HInv, RefInv
<1>7. x \notin stranded
  BY <1>5 DEF HInv, StrandedInv, Alive, Kinds
<1>8. TypeOK'
  <2>1. \A u \in Thread : Finishing(u)' => Dying(u)' \in owns' /\ kind'[Dying(u)'] = "Volume"
    <3> SUFFICES ASSUME NEW u \in Thread, Finishing(u)'
                 PROVE  Dying(u)' \in owns' /\ kind'[Dying(u)'] = "Volume"
      OBVIOUS
    <3>1. u # t
      <4>1. gil' = NULL => dying'[t] = <<>>
        BY <1>2, <1>4, HandlesAssumption
      <4> QED  BY <1>2, <4>1 DEF Finishing
    <3>2. dying'[u] = dying[u] /\ Dying(u)' = Dying(u) /\ Finishing(u)
      BY <1>2, <1>4, <3>1 DEF Finishing
    <3>3. Dying(u) \in owns /\ kind[Dying(u)] = "Volume"
      BY <3>2 DEF HInv, TypeOK
    <3>4. Dying(u) \in Obj /\ Dying(u) # x
      BY <1>2, <3>3 DEF HInv, TypeOK
    <3> QED  BY <1>2, <1>3, <3>2, <3>3, <3>4
  <2>2. gil' \in Thread \cup {NULL}
    BY <1>2
  <2> QED  BY <1>2, <1>3, <1>4, <2>1, <2>2 DEF HInv, TypeOK
<1>9. RefInv' /\ StrandedInv' /\ BusyInv'
  <2>1. RefInv'
    BY <1>2 DEF HInv, RefInv
  <2>2. StrandedInv'
    BY <1>2, <1>3, <1>7 DEF HInv, StrandedInv
  <2>3. \A u \in Thread : dying'[u] # <<>> => dying[u] # <<>>
    BY <1>2, <1>4
  <2>4. BusyInv'
    BY <1>2, <2>3 DEF HInv, BusyInv
  <2> QED  BY <2>1, <2>2, <2>4
<1>10. FieldInv'
  <2>1. FieldInv /\ base' = base /\ item' = item /\ TypeOK
    BY <1>2 DEF HInv
  <2> QED  BY <1>2, <1>3, <1>6, <2>1 DEF TypeOK, FieldInv, BaseFits
<1>11. FrameInv'
  <2>1. FrameInv /\ frame' = frame
    BY <1>2 DEF HInv
  <2> QED  BY <1>3, <1>6, <2>1 DEF FrameInv, Making
<1>12. LifeInv'
  <2>1. LifeInv /\ refs' = refs
    BY <1>2 DEF HInv
  <2>2. ~Alive(x)' /\ x \notin Dead'
    BY <1>3, <1>4 DEF Alive, Kinds
  <2>3. \A z \in Obj \ {x} : Alive(z)' = Alive(z) /\ (z \in Dead' <=> z \in Dead)
    BY <1>3, <1>4 DEF Alive
  <2> QED  BY <1>5, <2>1, <2>2, <2>3 DEF LifeInv
<1>13. MadeInv'
  BY <1>2 DEF HInv, MadeInv
<1>14. WholeInv' /\ OwnsInv'
  <2>1. \A z \in Obj : BeingMade(z)' <=> BeingMade(z)
    BY <1>2 DEF BeingMade
  <2>2. /\ WholeInv /\ OwnsInv /\ refs' = refs /\ base' = base /\ item' = item /\ owns' = owns
        /\ owns \subseteq Obj
    BY <1>2 DEF HInv, TypeOK
  <2>3. WholeInv'
    BY <1>3, <1>5, <2>1, <2>2 DEF WholeInv
  <2>4. OwnsInv'
    BY <1>2, <1>3, <2>2 DEF OwnsInv
  <2> QED  BY <2>3, <2>4
<1>15. OwnerInv'
  <2>1. \A z : Pending(z)' <=> Pending(z)
    BY <1>2 DEF Pending
  <2>2. OwnerInv /\ owns' = owns /\ stranded' = stranded /\ open' = open
    BY <1>2 DEF HInv
  <2>3. \A z \in owns : Alive(z)'
    BY <1>2, <1>3, <2>2 DEF HInv, TypeOK, OwnerInv, Alive
  <2> QED  BY <2>1, <2>2, <2>3 DEF OwnerInv
<1>16. FsInv'
  <2> DEFINE C == {x}
  <2>1. /\ \A z \in owns \ C : fs'[z] = VolumeOf(z)'
        /\ \A u \in Thread :
              frame'[u] = frame[u] /\ frame[u].self \notin C /\ frame[u].new \notin C =>
                /\ frame'[u].at = "glfs_init" => fs'[frame'[u].new] = frame'[u].new
                /\ frame'[u].at \in {"extract", "build"} =>
                     fs'[frame'[u].new] = VolumeOf(frame[u].self)'
    <3>1. C \in SUBSET Obj /\ \A c \in C : \A o \in Obj : c # base[o]
      BY <1>6
    <3>2. \A z \in Obj \ C : base'[z] = base[z] /\ kind'[z] = kind[z] /\ fs'[z] = fs[z]
      BY <1>2, <1>3
    <3> HIDE DEF C
    <3> QED  BY <3>1, <3>2, FsKept
  <2> QED  BY <1>2, <1>6, <2>1 DEF FsInv
<1> QED  BY <1>4, <1>8, <1>9, <1>10, <1>11, <1>12, <1>13, <1>14, <1>15, <1>16 DEF HInv
-----------------------------------------------------------------------------
(* The step that completes an entry and its ObjectHandle.                  *)

LEMMA BuiltStep ==
  ASSUME HInv, NEW t \in Thread, NEW complete \in BOOLEAN, Built(t, complete)
  PROVE  HInv'
<1>1. frame[t].at = "build"
  BY DEF Built, Back
<1>2. PICK o, e \in Obj : /\ o = frame[t].new /\ kind[o] = "ObjectHandle"
                          /\ e = frame[t].entry /\ kind[e] = "FTSEntry"
  BY <1>1 DEF HInv, FrameInv, Making
<1>3. PICK i \in Obj : i = frame[t].self /\ kind[i] = "FTSIterator" /\ Intact(i)
  BY <1>1, SelfIntact DEF HInv, FrameInv
<1>4. PICK f \in Obj : /\ f = base[i] /\ kind[f] = "FTSHandle" /\ Intact(f)
                       /\ refs[f] # {} /\ f \notin Dead /\ ~BeingMade(f)
  BY <1>3, BaseIntact DEF Intact, BaseFits
<1>5. PICK v \in Obj : /\ v = VolumeOf(i) /\ kind[v] = "Volume"
                       /\ refs[v] # {} /\ v \notin Dead /\ ~BeingMade(v)
  BY <1>3, VolumeReached
<1>6. o # e /\ o # v /\ o # f /\ e # v /\ e # f /\ v # f
  BY <1>2, <1>4, <1>5
<1>7. /\ kind' = kind /\ open' = open /\ stranded' = stranded /\ fs' = fs /\ wild' = wild
      /\ gil = NULL /\ Leave(t) /\ owns' = owns \cup {o}
  BY <1>2 DEF Built, Back, native
<1>8. /\ base' = [base EXCEPT ![o] = v, ![e] = f] /\ item' = [item EXCEPT ![e] = o]
      /\ refs' = [refs EXCEPT ![o] = {e}, ![v] = @ \cup {o}, ![f] = @ \cup {e},
                              ![e] = IF complete THEN {Python} ELSE {}]
      /\ dying' = [dying EXCEPT ![t] = IF complete THEN <<>> ELSE <<e>>]
  BY <1>2, <1>3, <1>4, <1>5 DEF Built
<1>9. /\ refs'[o] = {e} /\ refs'[v] = refs[v] \cup {o} /\ refs'[f] = refs[f] \cup {e}
      /\ refs'[e] = (IF complete THEN {Python} ELSE {})
      /\ \A z \in Obj \ {o, e, v, f} : refs'[z] = refs[z]
      /\ refs' \in [Obj -> SUBSET Holders]
  BY <1>6, <1>8 DEF HInv, TypeOK, Holders
<1>10. /\ base'[o] = v /\ base'[e] = f /\ \A z \in Obj \ {o, e} : base'[z] = base[z]
       /\ item'[e] = o /\ \A z \in Obj \ {e} : item'[z] = item[z]
       /\ base' \in [Obj -> Obj \cup {NULL}] /\ item' \in [Obj -> Obj \cup {NULL}]
  BY <1>6, <1>8 DEF HInv, TypeOK
<1>11. /\ frame' \in [Thread -> Frames] /\ gil' = t
       /\ \A u \in Thread \ {t} : frame'[u] = frame[u]
       /\ frame'[t].at = "return" /\ frame'[t].self = frame[t].self
       /\ frame'[t].new = NULL /\ frame'[t].entry = NULL
  BY <1>7, LeaveFrames DEF HInv
<1>12. \A z \in {o, e} :
         /\ refs[z] = {t} /\ z \notin Dead /\ Alive(z) /\ base[z] = NULL /\ item[z] = NULL
         /\ z \notin owns /\ z \notin stranded
         /\ \A q \in Obj : z # base[q] /\ z # item[q]
         /\ \A u \in Thread : z # frame[u].self
         /\ \A u \in Thread \ {t} : z # frame[u].new /\ z # frame[u].entry
  BY <1>2, MadeAlone
<1>13. \A z \in Obj : t # z /\ NULL # z /\ Python # z
  BY HandlesAssumption
<1>14. dying[t] = <<>>
  BY <1>1 DEF HInv, BusyInv
<1>15. \/ complete /\ dying' = dying /\ Dead' = Dead /\ DyingInv'
       \/ /\ ~complete /\ dying' \in [Thread -> Seq(Obj)] /\ Dead' = Dead \cup {e} /\ DyingInv'
          /\ \A u \in Thread \ {t} : dying'[u] = dying[u]
  <2>1. TypeOK /\ DyingInv
    BY DEF HInv
  <2>2. CASE complete
    <3>1. dying' = [dying EXCEPT ![t] = <<>>]
      BY <1>8, <2>2
    <3>2. dying' = dying
      BY <1>14, <2>1, <3>1 DEF TypeOK
    <3> QED  BY <2>1, <2>2, <3>2, DeadKept
  <2>3. CASE ~complete
    <3>1. dying' = [dying EXCEPT ![t] = <<e>>]
      BY <1>8, <2>3
    <3>2. dying' = [dying EXCEPT ![t] = Append(@, e)]
      BY <1>14, <3>1
    <3> QED  BY <1>12, <2>1, <2>3, <3>2, Pushed
  <2> QED  BY <2>2, <2>3
<1>16. TypeOK'
  <2>1. \A u \in Thread : Finishing(u)' => Dying(u)' \in owns' /\ kind'[Dying(u)'] = "Volume"
    <3> SUFFICES ASSUME NEW u \in Thread, Finishing(u)'
                 PROVE  Dying(u)' \in owns' /\ kind'[Dying(u)'] = "Volume"
      OBVIOUS
    <3>1. u # t
      BY <1>11 DEF Finishing
    <3>2. dying'[u] = dying[u] /\ Finishing(u)
      BY <1>7, <1>15, <3>1, HandlesAssumption DEF Finishing
    <3>3. Dying(u)' = Dying(u)
      BY <3>2 DEF Dying
    <3> QED  BY <1>7, <3>2, <3>3 DEF HInv, TypeOK
  <2>2. dying' \in [Thread -> Seq(Obj)]
    BY <1>15 DEF HInv, TypeOK
  <2> QED  BY <1>7, <1>9, <1>10, <1>11, <2>1, <2>2 DEF HInv, TypeOK
<1>17. RefInv'
  <2>1. /\ \A z, q \in Obj : q \in refs[z] <=> z = base[q] \/ z = item[q]
        /\ \A z \in Obj, u \in Thread :
             u \in refs[z] <=> z = frame[u].self \/ z = frame[u].new \/ z = frame[u].entry
    BY DEF HInv, RefInv
  <2>2. \A z, q \in Obj : q \in refs'[z] <=>
          q \in refs[z] \/ (z = v /\ q = o) \/ (z = f /\ q = e) \/ (z = o /\ q = e)
    <3>1. \A q \in Obj : q \notin refs[o] /\ q \notin refs[e] /\ q \notin refs'[e]
      BY <1>9, <1>12, <1>13
    <3>2. \A q \in Obj : q \in refs'[o] <=> q = e
      BY <1>9
    <3>3. \A q \in Obj : (q \in refs'[v] <=> q \in refs[v] \/ q = o) /\ (q \in refs'[f] <=> q \in refs[f] \/ q = e)
      BY <1>9
    <3>4. \A z \in Obj \ {o, e, v, f} : refs'[z] = refs[z]
      BY <1>9
    <3> QED  BY <1>6, <3>1, <3>2, <3>3, <3>4
  <2>3. \A z, q \in Obj : z = base'[q] \/ z = item'[q] <=>
          z = base[q] \/ z = item[q] \/ (z = v /\ q = o) \/ (z = f /\ q = e) \/ (z = o /\ q = e)
    <3>1. /\ base[o] = NULL /\ item[o] = NULL /\ base[e] = NULL /\ item[e] = NULL
          /\ \A z \in Obj : z # NULL
      BY <1>12, <1>13
    <3>2. /\ base'[o] = v /\ item'[o] = NULL /\ base'[e] = f /\ item'[e] = o
          /\ \A q \in Obj \ {o, e} : base'[q] = base[q] /\ item'[q] = item[q]
      BY <1>6, <1>10, <3>1
    <3> QED  BY <1>6, <3>1, <3>2
  <2>4. \A z, q \in Obj : q \in refs'[z] <=> z = base'[q] \/ z = item'[q]
    BY <2>1, <2>2, <2>3
  <2>5. \A z \in Obj : \A u \in Thread \ {t} : u \in refs'[z] <=> u \in refs[z]
    BY <1>9, <1>12, HandlesAssumption
  <2>6. \A z \in Obj : t \in refs'[z] <=> t \in refs[z] /\ z # o /\ z # e
    BY <1>9, <1>13, HandlesAssumption
  <2>7. \A z \in Obj : t \in refs'[z] <=> z = frame[t].self
    BY <1>2, <1>12, <2>1, <2>6
  <2>8. \A z \in Obj, u \in Thread :
          u \in refs'[z] <=> z = frame'[u].self \/ z = frame'[u].new \/ z = frame'[u].entry
    BY <1>11, <1>13, <2>1, <2>5, <2>7
  <2> QED  BY <2>4, <2>8 DEF RefInv
<1>18. FieldInv' /\ StrandedInv'
  <2>1. FieldInv /\ StrandedInv
    BY DEF HInv
  <2>2. \A z \in Obj \ {o, e} : base'[z] # NULL => BaseFits(z, base[z]) /\ base'[z] = base[z]
    BY <1>10, <2>1 DEF FieldInv
  <2>3. \A z \in Obj : base'[z] # NULL => BaseFits(z, base[z])'
    BY <1>2, <1>4, <1>5, <1>7, <1>10, <2>2 DEF BaseFits
  <2>4. \A z \in Obj : item'[z] # NULL => kind[z] = "FTSEntry" /\ kind[item'[z]] = "ObjectHandle"
    BY <1>2, <1>10, <2>1 DEF FieldInv
  <2> QED  BY <1>7, <2>1, <2>3, <2>4 DEF FieldInv, StrandedInv
<1>19. BusyInv' /\ FrameInv'
  <2>1. BusyInv'
    <3>1. \A u \in Thread \ {t} : dying'[u] = dying[u]
      BY <1>15
    <3> QED  BY <1>11, <3>1 DEF HInv, BusyInv
  <2>2. FrameInv /\ kind' = kind
    BY <1>7 DEF HInv
  <2> QED  BY <1>11, <2>1, <2>2 DEF FrameInv, Making
<1>20. LifeInv'
  <2>1. LifeInv
    BY DEF HInv
  <2>2. \A z \in Obj : Alive(z)' = Alive(z)
    BY <1>7 DEF Alive
  <2>3. refs'[o] # {} /\ refs'[v] # {} /\ refs'[f] # {}
    BY <1>9
  <2>4. refs'[e] = {} <=> ~complete
    BY <1>9
  <2>5. \A z \in Obj \ {e} : z \in Dead' <=> z \in Dead
    BY <1>15
  <2>6. e \in Dead' <=> ~complete
    BY <1>12, <1>15
  <2>7. Alive(o) /\ Alive(e) /\ Alive(v) /\ Alive(f) /\ o \notin Dead
    BY <1>4, <1>5, <1>12, <2>1 DEF LifeInv
  <2>8. \A z \in Obj \ {o, e, v, f} : refs'[z] = refs[z]
    BY <1>9
  <2> QED  BY <1>4, <1>5, <1>6, <2>1, <2>2, <2>3, <2>4, <2>5, <2>6, <2>7, <2>8 DEF LifeInv
<1>21. \A u \in Thread : v # frame[u].new /\ v # frame[u].entry /\ f # frame[u].new /\ f # frame[u].entry
  BY <1>4, <1>5 DEF BeingMade
<1>22. MadeInv'
  <2>1. MadeInv
    BY DEF HInv
  <2>2. \A u \in Thread : \A z \in Obj : z = frame'[u].new \/ z = frame'[u].entry =>
          u # t /\ frame'[u] = frame[u] /\ z \notin {o, e, v, f}
    BY <1>11, <1>12, <1>13, <1>21
  <2>3. \A z \in Obj \ {o, e, v, f} :
          refs'[z] = refs[z] /\ base'[z] = base[z] /\ item'[z] = item[z] /\ (z \in owns' <=> z \in owns)
    BY <1>7, <1>9, <1>10
  <2> QED  BY <2>1, <2>2, <2>3 DEF MadeInv
<1>23. WholeInv' /\ OwnsInv'
  <2>1. \A z \in Obj \ {o, e} : BeingMade(z)' <=> BeingMade(z)
    BY <1>2, <1>11, <1>13 DEF BeingMade
  <2>2. WholeInv /\ OwnsInv /\ kind' = kind
    BY <1>7 DEF HInv
  <2>3. ~BeingMade(v) /\ ~BeingMade(f) /\ refs[v] # {} /\ refs[f] # {}
    BY <1>4, <1>5
  <2>4. \A z \in Obj \ {o, e} : refs'[z] # {} => refs[z] # {}
    BY <1>9, <2>3
  <2>5. \A z \in Obj \ {o, e} : base'[z] = base[z] /\ item'[z] = item[z] /\ (z \in owns' <=> z \in owns)
    BY <1>7, <1>10
  <2>6. o \in owns' /\ base'[o] # NULL /\ base'[e] # NULL /\ item'[e] # NULL
    BY <1>7, <1>10, <1>13
  <2>7. WholeInv'
    BY <1>2, <2>1, <2>2, <2>4, <2>5, <2>6 DEF WholeInv, Owners
  <2>8. owns' = owns \cup {o} /\ e \notin owns /\ o \notin owns /\ owns \subseteq Obj
    BY <1>7, <1>12 DEF HInv, TypeOK
  <2>9. OwnsInv'
    BY <1>2, <2>2, <2>5, <2>6, <2>8 DEF OwnsInv, Owners
  <2> QED  BY <2>7, <2>9
<1>24. OwnerInv'
  <2>1. \A z : Pending(z) <=> Pending(z)' \/ z = o
    BY <1>1, <1>2, <1>11 DEF Pending
  <2>2. OwnerInv /\ owns' = owns \cup {o} /\ stranded' = stranded /\ open' = open
    BY <1>7 DEF HInv
  <2>3. \A z \in owns' : z \notin stranded' /\ Alive(z)'
    BY <1>7, <1>12, <2>2 DEF OwnerInv, Alive
  <2> QED  BY <2>1, <2>2, <2>3 DEF OwnerInv
<1>25. FsInv'
  <2> DEFINE C == {o, e}
  <2>1. /\ \A z \in owns \ C : fs'[z] = VolumeOf(z)'
        /\ \A u \in Thread :
              frame'[u] = frame[u] /\ frame[u].self \notin C /\ frame[u].new \notin C =>
                /\ frame'[u].at = "glfs_init" => fs'[frame'[u].new] = frame'[u].new
                /\ frame'[u].at \in {"extract", "build"} =>
                     fs'[frame'[u].new] = VolumeOf(frame[u].self)'
    <3>1. C \in SUBSET Obj /\ \A c \in C : \A q \in Obj : c # base[q]
      BY <1>12
    <3>2. \A z \in Obj \ C : base'[z] = base[z] /\ kind'[z] = kind[z] /\ fs'[z] = fs[z]
      BY <1>7, <1>10
    <3> HIDE DEF C
    <3> QED  BY <3>1, <3>2, FsKept
  <2>2. \A z \in owns' : z \in owns \ C \/ z = o
    BY <1>7, <1>12
  <2>3. \A u \in Thread \ {t} : frame[u].self \notin C /\ frame[u].new \notin C
    BY <1>12
  <2>4. fs'[o] = VolumeOf(o)'
    <3>1. fs'[o] = v
      BY <1>1, <1>2, <1>3, <1>5, <1>7 DEF HInv, FsInv
    <3>2. VolumeOf(o)' = v
      BY <1>2, <1>7, <1>10 DEF VolumeOf
    <3> QED  BY <3>1, <3>2
  <2> HIDE DEF C
  <2> QED  BY <1>11, <2>1, <2>2, <2>3, <2>4 DEF FsInv
<1> QED  BY <1>15, <1>16, <1>17, <1>18, <1>19, <1>20, <1>22, <1>23, <1>24, <1>25 DEF HInv
-----------------------------------------------------------------------------
(* HInv holds throughout.                                                  *)

LEMMA OwnerInvIsOneOwner ==
  ASSUME OwnerInv
  PROVE  OneOwner
<1> DEFINE P == {frame[t].new : t \in {u \in Thread : frame[u].at \in {"glfs_init", "extract", "build"}}}
<1>1. \A x : x \in P <=> Pending(x)
  BY DEF Pending
<1> HIDE DEF P
<1>2. open = owns \cup stranded \cup P
  BY <1>1 DEF OwnerInv
<1>3. owns \cap stranded = {} /\ \A x \in owns : Alive(x)
  BY DEF OwnerInv
<1> QED  BY <1>2, <1>3 DEF OneOwner, P

LEMMA HInvInit == Init => HInv
<1> SUFFICES ASSUME Init PROVE HInv
  OBVIOUS
<1>1. /\ kind = [o \in Obj |-> "none"] /\ refs = [o \in Obj |-> {}]
      /\ base = [o \in Obj |-> NULL] /\ item = [o \in Obj |-> NULL]
      /\ owns = {} /\ open = {} /\ stranded = {} /\ fs = [o \in Obj |-> NULL]
      /\ gil = NULL /\ frame = [t \in Thread |-> InPython]
      /\ dying = [t \in Thread |-> <<>>] /\ wild = FALSE
  BY DEF Init
<1>2. \A t \in Thread : /\ frame[t].at = "python" /\ frame[t].self = NULL
                        /\ frame[t].new = NULL /\ frame[t].entry = NULL
                        /\ dying[t] = <<>> /\ frame[t] \in Frames
  BY <1>1 DEF InPython, Frames
<1>3. \A t \in Thread : Len(dying[t]) = 0 /\ ToSet(dying[t]) = {} /\ dying[t] \in Seq(Obj)
  <2>1. <<>> \in Seq(Obj) /\ Len(<<>>) = 0
    BY EmptySeq
  <2>2. ToSet(<<>>) = {}
    BY EmptySeq DEF ToSet
  <2> QED  BY <1>2, <2>1, <2>2
<1>4. Dead = {} /\ DyingInv /\ BusyInv
  <2>1. Dead = {}
    BY <1>3 DEF Dead
  <2>2. DyingInv
    BY <1>3 DEF DyingInv
  <2> QED  BY <1>2, <2>1, <2>2 DEF BusyInv
<1>5. TypeOK
  BY <1>1, <1>2, <1>3 DEF TypeOK, Finishing, Holders
<1>6. RefInv /\ FieldInv
  BY <1>1, <1>2, HandlesAssumption DEF RefInv, FieldInv
<1>7. LifeInv /\ StrandedInv /\ WholeInv
  BY <1>1, <1>4 DEF LifeInv, Alive, Kinds, StrandedInv, WholeInv
<1>8. FrameInv /\ MadeInv
  BY <1>2, HandlesAssumption DEF FrameInv, Making, MadeInv
<1>9. OwnsInv /\ OwnerInv /\ FsInv
  BY <1>1, <1>2 DEF OwnsInv, OwnerInv, Pending, FsInv
<1> QED  BY <1>4, <1>5, <1>6, <1>7, <1>8, <1>9 DEF HInv

LEMMA HInvStep == HInv /\ [Next]_vars => HInv'
<1> SUFFICES ASSUME HInv, [Next]_vars PROVE HInv'
  OBVIOUS
<1>1. ASSUME NEW t \in Thread, Call(t)
      PROVE  HInv'
  <2>1. ASSUME NEW s \in Obj, CallLookup(t, s) PROVE HInv'
    <3>1. Enter(t, s, "lookup")
      BY <2>1 DEF CallLookup
    <3> QED  BY <2>1, <3>1, EnterStep DEF CallLookup, Callable, HasGIL
  <2>2. ASSUME NEW s \in Obj, CallOpen(t, s) PROVE HInv'
    <3>1. Enter(t, s, "open")
      BY <2>2 DEF CallOpen
    <3> QED  BY <2>2, <3>1, EnterStep DEF CallOpen, Callable, HasGIL
  <2>3. ASSUME NEW s \in Obj, CallUse(t, s) PROVE HInv'
    <3>1. Enter(t, s, "use")
      BY <2>3 DEF CallUse
    <3> QED  BY <2>3, <3>1, EnterStep DEF CallUse, Callable, HasGIL
  <2>4. ASSUME NEW s \in Obj, CallNext(t, s) PROVE HInv'
    <3>1. Enter(t, s, "next")
      BY <2>4 DEF CallNext
    <3> QED  BY <2>4, <3>1, EnterStep DEF CallNext, Callable, HasGIL
  <2> QED  BY <1>1, <2>1, <2>2, <2>3, <2>4, NewVolumeStep, FtsOpenStep, CallIterStep,
              GetFieldStep, UnrefSteps DEF Call
<1>2. ASSUME NEW t \in Thread, Continue(t)
      PROVE  HInv'
  <2>1. CASE CallFails(t) \/ Used(t)
    BY <2>1, LeaveStep DEF CallFails, Used, Back
  <2>2. CASE VolumeFails(t) \/ ExtractFails(t) \/ BuildFails(t)
             \/ \E garbage \in BOOLEAN : IterFails(t, garbage)
    BY <2>2, ReleaseSteps
  <2>3. CASE Return(t)
    BY <2>3, UnrefSteps
  <2>4. CASE \E o \in Obj : Looked(t, o) \/ Strands(t, o) \/ Opened(t, o)
    BY <2>4, LookedStep, StrandStep, OpenedStep
  <2>5. CASE \E o, e \in Obj : Copied(t, o, e)
    BY <2>5, CopiedStep
  <2>6. CASE VolumeReady(t) \/ Extracted(t) \/ IterOpened(t)
    BY <2>6, VolumeReadyStep, ExtractedStep, IterOpenedStep
  <2>7. CASE \E complete \in BOOLEAN : Built(t, complete)
    BY <2>7, BuiltStep
  <2> QED  BY <1>2, <2>1, <2>2, <2>3, <2>4, <2>5, <2>6, <2>7 DEF Continue, Strands
<1>3. ASSUME NEW t \in Thread, Dealloc(t)
      PROVE  HInv'
  BY <1>3, ClosedStep, BeginFiniStep, UnrefSteps, FreeStep DEF Dealloc
<1>4. CASE UNCHANGED vars
  <2>1. /\ kind' = kind /\ refs' = refs /\ base' = base /\ item' = item /\ dying' = dying
        /\ frame' = frame /\ stranded' = stranded /\ wild' = wild /\ fs' = fs
        /\ owns' = owns /\ open' = open /\ gil' = gil
    BY <1>4 DEF vars, objects, native
  <2>2. /\ Dead' = Dead /\ DyingInv' /\ (\A z : VolumeOf(z)' = VolumeOf(z))
        /\ \A u : Dying(u)' = Dying(u)
    BY <2>1, DeadKept, Unmoved DEF HInv
  <2>3. TypeOK'
    BY <2>1, <2>2 DEF HInv, TypeOK, Finishing
  <2>4. RefInv' /\ FieldInv' /\ StrandedInv' /\ BusyInv' /\ FrameInv' /\ MadeInv'
    BY <2>1 DEF HInv, RefInv, FieldInv, BaseFits, StrandedInv, BusyInv, FrameInv, MadeInv
  <2>5. LifeInv' /\ OwnsInv' /\ WholeInv' /\ OwnerInv' /\ FsInv'
    BY <2>1, <2>2
       DEF HInv, LifeInv, Alive, OwnsInv, WholeInv, BeingMade, OwnerInv, Pending, FsInv
  <2> QED  BY <2>2, <2>3, <2>4, <2>5 DEF HInv
<1> QED  BY <1>1, <1>2, <1>3, <1>4 DEF Next

LEMMA HandlesInvariance == Spec => []HInv
BY HInvInit, HInvStep, PTL DEF Spec
-----------------------------------------------------------------------------
(* What it says.                                                           *)

(* Every state is of the declared type; in particular a glfs_fini() that   *)
(* py_glfs_dealloc() runs without the GIL is for a Volume whose glfs_t is  *)
(* still its own.                                                          *)
THEOREM HandlesTypeCorrect == Spec => []TypeOK
<1>1. HInv => TypeOK
  BY DEF HInv
<1> QED  BY <1>1, HandlesInvariance, PTL

(* The references the objects count are those the code follows: every      *)
(* Py_INCREF() and Py_DECREF() has a pointer that was stored or given up,  *)
(* through all allocation failures and deallocations.                      *)
THEOREM ReferencesAreCounted == Spec => []Counted
<1>1. ASSUME HInv PROVE Counted
  <2> SUFFICES ASSUME NEW x \in Obj
               PROVE  refs[x] \ {Python} =
                        {o \in Obj : x \in Fields(o)} \cup {t \in Thread : x \in Locals(t)}
    BY DEF Counted
  <2>1. refs[x] \subseteq Obj \cup Thread \cup {Python}
    BY <1>1 DEF HInv, TypeOK, Holders
  <2>2. Python \notin Obj /\ Python \notin Thread /\ x # NULL
    BY HandlesAssumption
  <2>3. \A o \in Obj : o \in refs[x] <=> x \in Fields(o)
    BY <1>1, <2>2 DEF HInv, RefInv, Fields
  <2>4. \A t \in Thread : t \in refs[x] <=> x \in Locals(t)
    BY <1>1, <2>2 DEF HInv, RefInv, Locals
  <2> QED  BY <2>1, <2>2, <2>3, <2>4
<1> QED  BY <1>1, HandlesInvariance, PTL

(* No field and no local variable points to memory that was freed or to an *)
(* object whose tp_dealloc is running, whatever order the threads of the   *)
(* program drop their references in.                                       *)
THEOREM PointersAreAlive == Spec => []NoDangling
<1>1. ASSUME HInv PROVE NoDangling
  <2>1. ASSUME NEW x \in Obj, NEW y \in Fields(x)
        PROVE  Alive(x) /\ Alive(y) /\ y \notin Dead
    <3>1. y \in Obj /\ (y = base[x] \/ y = item[x])
      BY <1>1, <2>1 DEF HInv, TypeOK, Fields
    <3>2. Alive(y) /\ y \notin Dead
      BY <1>1, <3>1, ReferredTo
    <3>3. Alive(x)
      BY <1>1, <2>1, <3>1 DEF HInv, FieldInv, Fields, BaseFits, Alive, Kinds
    <3> QED  BY <3>2, <3>3
  <2>2. ASSUME NEW t \in Thread, NEW y \in Locals(t)
        PROVE  Alive(y) /\ y \notin Dead
    <3>1. y \in Obj /\ (y = frame[t].self \/ y = frame[t].new \/ y = frame[t].entry)
      BY <1>1, <2>2 DEF HInv, TypeOK, Frames, Locals
    <3>2. CASE y = frame[t].self
      BY <1>1, <3>1, <3>2, ReferredTo
    <3>3. CASE y = frame[t].new \/ y = frame[t].entry
      BY <1>1, <3>1, <3>3, MadeAlone
    <3> QED  BY <3>1, <3>2, <3>3
  <2>3. \A x \in Obj : Python \in refs[x] => Alive(x) /\ x \notin Dead
    BY <1>1, ReferredTo
  <2> QED  BY <2>1, <2>2, <2>3 DEF NoDangling
<1> QED  BY <1>1, HandlesInvariance, PTL

(* A method that released the GIL for a libgfapi call keeps its handle and *)
(* the glfs_t below it open until the call is over: no other thread can    *)
(* deallocate the objects that own them in the meantime.                   *)
THEOREM HandlesOutliveCalls == Spec => []NoUseAfterClose
<1>1. ASSUME HInv PROVE NoUseAfterClose
  <2> SUFFICES ASSUME NEW t \in Thread, UseAfterClose(t) PROVE FALSE
    BY DEF NoUseAfterClose
  <2>1. frame[t].at \in {"lookup", "extract", "open", "opendir", "next", "build", "use"}
    BY DEF UseAfterClose
  <2>2. PICK s \in Obj : s = frame[t].self /\ Intact(s) /\ refs[s] # {} /\ s \notin Dead
    BY <1>1, <2>1, SelfIntact
  <2>3. ~BeingMade(s)
    BY <1>1, <2>2, ReferredTo
  <2>4. owns \subseteq open
    BY <1>1 DEF HInv, OwnerInv
  <2>5. VolumeOf(s) \in owns /\ (kind[s] # "Volume" => VolumeOf(s) \notin Dead)
    BY <1>1, <2>2, VolumeReached
  <2>6. VolumeOf(s) \in open \ Dead
    BY <2>2, <2>4, <2>5 DEF VolumeOf
  <2>7. kind[s] # "FTSHandle" => s \in owns
    BY <1>1, <2>2, <2>3 DEF HInv, WholeInv, Intact, Owners, Kinds
  <2> QED  BY <2>2, <2>4, <2>6, <2>7 DEF UseAfterClose
<1> QED  BY <1>1, HandlesInvariance, PTL

(* glfs_fini() comes last: while py_glfs_dealloc() runs it, and after it,  *)
(* no handle that was opened with that glfs_t is open, but for those a     *)
(* failed allocation has stranded.                                         *)
THEOREM FinishedLast == Spec => []FiniLast
<1>1. ASSUME HInv PROVE FiniLast
  <2> SUFFICES ASSUME NEW o \in open \ stranded, o # fs[o]
               PROVE  fs[o] \in open /\ \A t \in Thread : Finishing(t) => Dying(t) # fs[o]
    BY DEF FiniLast
  <2>1. owns \subseteq open
    BY <1>1 DEF HInv, OwnerInv
  <2>2. fs[o] \in owns /\ fs[o] \notin Dead
    <3>1. CASE o \in owns
      <4>1. o \in Obj /\ Intact(o) /\ fs[o] = VolumeOf(o)
        BY <1>1, <3>1 DEF HInv, TypeOK, OwnsInv, FsInv, Intact, Owners, Kinds
      <4>2. kind[o] # "Volume"
        BY <4>1 DEF VolumeOf
      <4> QED  BY <1>1, <4>1, <4>2, VolumeReached
    <3>2. CASE Pending(o)
      <4>1. PICK u \in Thread : /\ frame[u].at \in {"glfs_init", "extract", "build"}
                                /\ o = frame[u].new
        BY <3>2 DEF Pending
      <4>2. frame[u].at \in {"extract", "build"} /\ fs[o] = VolumeOf(frame[u].self)
        BY <1>1, <4>1 DEF HInv, FsInv
      <4>3. PICK s \in Obj : s = frame[u].self /\ Intact(s) /\ s \notin Dead
        BY <1>1, <4>2, SelfIntact
      <4>4. VolumeOf(s) \in owns /\ (kind[s] # "Volume" => VolumeOf(s) \notin Dead)
        BY <1>1, <4>3, VolumeReached
      <4>5. VolumeOf(s) \notin Dead
        BY <4>3, <4>4 DEF VolumeOf
      <4> QED  BY <4>2, <4>3, <4>4, <4>5
    <3> QED  BY <1>1, <3>1, <3>2 DEF HInv, OwnerInv
  <2>3. \A t \in Thread : Finishing(t) => Dying(t) \in Dead
    BY <1>1, DyingIsDead DEF HInv, Finishing
  <2> QED  BY <2>1, <2>2, <2>3
<1> QED  BY <1>1, HandlesInvariance, PTL

(* Every libgfapi handle that is open will be closed by one party: the     *)
(* living object that owns it, or the method that is making that object;   *)
(* the others are exactly those the failure paths give up.                 *)
THEOREM HandlesAreOwned == Spec => []OneOwner
<1>1. HInv => OneOwner
  BY OwnerInvIsOneOwner DEF HInv
<1> QED  BY <1>1, HandlesInvariance, PTL

(* No cycle of references keeps anything alive: once the program has let   *)
(* go of all objects and every thread is back in Python, all is freed, and *)
(* what is still open are the handles that were stranded.                  *)
THEOREM EverythingIsFreed == Spec => []AllClosed
<1>1. ASSUME HInv, AllFreed PROVE open = stranded /\ \A x \in Obj : ~Alive(x)
  <2>1. \A t \in Thread : /\ frame[t].at = "python" /\ frame[t].self = NULL
                          /\ frame[t].new = NULL /\ frame[t].entry = NULL /\ dying[t] = <<>>
    BY <1>1 DEF AllFreed, InPython
  <2>2. Dead = {}
    BY <2>1, EmptySeq DEF Dead, ToSet
  <2>3. ASSUME NEW x \in Obj, Alive(x)
        PROVE  \E o \in Obj : x = base[o] \/ x = item[o]
    <3>1. refs[x] # {}
      BY <1>1, <2>2, <2>3 DEF HInv, LifeInv
    <3>2. PICK h \in refs[x] : h \in Obj \cup Thread
      BY <1>1, <3>1 DEF AllFreed, HInv, TypeOK, Holders
    <3>3. h \in Obj
      BY <1>1, <2>1, <3>2, HandlesAssumption DEF HInv, RefInv
    <3> QED  BY <1>1, <3>2, <3>3 DEF HInv, RefInv
  <2>4. ASSUME NEW x \in Obj, Alive(x)
        PROVE  \E o \in Obj : \/ BaseFits(o, x)
                              \/ kind[o] = "FTSEntry" /\ kind[x] = "ObjectHandle"
    <3>1. PICK o \in Obj : x = base[o] \/ x = item[o]
      BY <2>3, <2>4
    <3>2. x # NULL
      BY HandlesAssumption
    <3> QED  BY <1>1, <3>1, <3>2 DEF HInv, FieldInv
  <2>5. \A x \in Obj : kind[x] \notin {"FTSEntry", "FTSIterator", "FD"}
    BY <2>4 DEF Alive, Kinds, BaseFits
  <2>6. \A x \in Obj : kind[x] # "FTSHandle"
    BY <2>4, <2>5 DEF Alive, Kinds, BaseFits
  <2>7. \A x \in Obj : kind[x] # "ObjectHandle"
    BY <2>4, <2>5, <2>6 DEF Alive, Kinds, BaseFits
  <2>8. \A x \in Obj : ~Alive(x)
    BY <2>4, <2>5, <2>6, <2>7 DEF Alive, Kinds, BaseFits
  <2>9. open = stranded
    <3>1. owns = {}
      BY <1>1, <2>8 DEF HInv, TypeOK, OwnerInv
    <3>2. \A x : ~Pending(x)
      BY <2>1 DEF Pending
    <3> QED  BY <1>1, <3>1, <3>2 DEF HInv, OwnerInv
  <2> QED  BY <2>8, <2>9
<1>2. HInv => AllClosed
  BY <1>1 DEF AllClosed
<1> QED  BY <1>2, HandlesInvariance, PTL
-----------------------------------------------------------------------------
(* The calls of libgfapi, as Lifetimes sees them.                          *)

LEMMA BelowFacts ==
  /\ Life!Live = open \ stranded
  /\ \A h \in open \ stranded : Below[h] = fs[h]
BY DEF Below, Life!Live

LEMMA BelowSame ==
  ASSUME \A h : h \in open' \ stranded' <=> h \in open \ stranded,
         \A h \in open \ stranded : fs'[h] = fs[h]
  PROVE  Below' = Below
BY DEF Below

LEMMA BelowMore ==
  ASSUME NEW x, NEW f, \A h : h \in open' \ stranded' <=> h \in open \ stranded \/ h = x,
         \A h \in open \ stranded : h # x /\ fs'[h] = fs[h], fs'[x] = f
  PROVE  Below' = Life!With(x, f)
<1>1. open' \ stranded' = (open \ stranded) \cup {x}
  OBVIOUS
<1>2. Life!With(x, f) = [h \in (open \ stranded) \cup {x} |-> IF h = x THEN f ELSE Below[h]]
  BY BelowFacts DEF Life!With
<1>3. \A h \in (open \ stranded) \cup {x} : fs'[h] = IF h = x THEN f ELSE Below[h]
  BY BelowFacts
<1>4. Below' = [h \in (open \ stranded) \cup {x} |-> fs'[h]]
  BY <1>1 DEF Below
<1> QED  BY <1>2, <1>3, <1>4

LEMMA BelowLess ==
  ASSUME NEW x, \A h : h \in open' \ stranded' <=> h \in open \ stranded /\ h # x,
         \A h \in open \ stranded : h # x => fs'[h] = fs[h]
  PROVE  Below' = Life!Without(x)
<1>1. open' \ stranded' = (open \ stranded) \ {x}
  OBVIOUS
<1>2. Life!Without(x) = [h \in (open \ stranded) \ {x} |-> Below[h]]
  BY BelowFacts DEF Life!Without
<1>3. \A h \in (open \ stranded) \ {x} : fs'[h] = Below[h]
  BY BelowFacts
<1>4. Below' = [h \in (open \ stranded) \ {x} |-> fs'[h]]
  BY <1>1 DEF Below
<1> QED  BY <1>2, <1>3, <1>4

(* glfs_fini() goes on in the threads that are in it, and in no other.     *)
LEMMA FiniSame ==
  ASSUME HInv, NEW t \in Thread, gil \in {NULL, t}, gil = t \/ dying[t] = <<>>,
         gil' = t \/ (gil' = NULL /\ dying'[t] = <<>>),
         \A u \in Thread \ {t} : dying'[u] = dying[u]
  PROVE  BeingFinished' = BeingFinished
<1>1. ~Finishing(t) /\ ~Finishing(t)'
  BY DEF Finishing
<1>2. \A u \in Thread \ {t} : (Finishing(u)' <=> Finishing(u)) /\ Dying(u)' = Dying(u)
  BY HandlesAssumption DEF Finishing, Dying
<1> QED  BY <1>1, <1>2 DEF BeingFinished

LEMMA FiniIsDead ==
  ASSUME HInv
  PROVE  BeingFinished \subseteq Dead
BY DyingIsDead DEF HInv, BeingFinished, Finishing

(* A step of t leaves alone what the calls of the other threads use.       *)
LEMMA OthersUse ==
  ASSUME HInv, NEW C, \A c \in C \cap Obj : ~Alive(c) \/ c \in Dead \/ BeingMade(c),
         \A y \in Obj \ C : base'[y] = base[y] /\ kind'[y] = kind[y]
  PROVE  /\ \A x \in Obj : Intact(x) /\ x \notin C => VolumeOf(x)' = VolumeOf(x)
         /\ \A u \in Thread :
              /\ frame[u].self \notin C \cap Obj
              /\ frame'[u] = frame[u] => Uses(u)' = Uses(u)
<1>1. \A c \in C \cap Obj : \A o \in Obj : c # base[o]
  BY ReferredTo
<1>2. ASSUME NEW x \in Obj, Intact(x), x \notin C PROVE VolumeOf(x)' = VolumeOf(x)
  BY <1>1, <1>2, VolumeKept
<1>3. ASSUME NEW u \in Thread PROVE frame[u].self \notin C \cap Obj
  BY ReferredTo
<1>4. ASSUME NEW u \in Thread, frame'[u] = frame[u] PROVE Uses(u)' = Uses(u)
  <2>1. CASE frame[u].at \in {"python", "return", "glfs_init"}
    BY <1>4, <2>1 DEF Uses
  <2>2. CASE frame[u].at \notin {"python", "return", "glfs_init"}
    <3>1. PICK s \in Obj : s = frame[u].self /\ Intact(s)
      BY <2>2, SelfIntact
    <3>2. s \notin C
      BY <1>3, <3>1
    <3>3. VolumeOf(s)' = VolumeOf(s) /\ base'[s] = base[s]
      BY <1>2, <3>1, <3>2
    <3> QED  BY <1>4, <2>2, <3>1, <3>3 DEF Uses
  <2> QED  BY <2>1, <2>2
<1> QED  BY <1>2, <1>3, <1>4

LEMMA UsedByOne ==
  ASSUME NEW t \in Thread, NEW H, Uses(t)' = H,
         \A u \in Thread \ {t} : Uses(u)' = Uses(u)
  PROVE  UsedBy' = [UsedBy EXCEPT ![t] = H]
BY DEF UsedBy

LEMMA UsedByAll ==
  ASSUME \A u \in Thread : Uses(u)' = Uses(u)
  PROVE  UsedBy' = UsedBy
BY DEF UsedBy

(* What an object owns can be used, with the glfs_t below it, and closed   *)
(* by nobody until the object dies.                                        *)
LEMMA OwnedUsable ==
  ASSUME HInv, NEW h \in owns, h \notin Dead
  PROVE  /\ h \in Obj /\ h \in open \ stranded /\ ~BeingMade(h)
         /\ fs[h] = VolumeOf(h) /\ fs[h] \in owns \ Dead /\ kind[fs[h]] = "Volume"
         /\ fs[h] \in open \ stranded /\ fs[fs[h]] = fs[h] /\ ~BeingMade(fs[h])
<1>1. ASSUME NEW g \in owns PROVE g \in Obj /\ g \in open \ stranded /\ ~BeingMade(g)
  BY <1>1 DEF HInv, TypeOK, OwnerInv, MadeInv, BeingMade
<1>2. h \in Obj /\ fs[h] = VolumeOf(h) /\ Intact(h)
  BY <1>1 DEF HInv, FsInv, OwnsInv, Intact, Owners, Kinds
<1>3. VolumeOf(h) \in owns \ Dead /\ kind[VolumeOf(h)] = "Volume"
  <2>1. CASE kind[h] = "Volume"
    BY <2>1 DEF VolumeOf
  <2>2. CASE kind[h] # "Volume"
    BY <1>2, <2>2, VolumeReached
  <2> QED  BY <2>1, <2>2
<1>4. fs[VolumeOf(h)] = VolumeOf(h)
  BY <1>3 DEF HInv, FsInv, VolumeOf
<1> QED  BY <1>1, <1>2, <1>3, <1>4

LEMMA OwnedIsUsable ==
  ASSUME HInv, NEW h \in owns, h \notin Dead
  PROVE  Life!Usable(h) /\ h \in Obj /\ Below[h] = VolumeOf(h)
<1>1. h \notin BeingFinished /\ fs[h] \notin BeingFinished
  BY OwnedUsable, FiniIsDead
<1> QED  BY <1>1, OwnedUsable, BelowFacts DEF Life!Usable

(* The object whose handle a call works with, and what else it uses.       *)
LEMMA CallOwns ==
  ASSUME HInv, NEW u \in Thread, frame[u].at \notin {"python", "return", "glfs_init"}
  PROVE  \E h \in owns \ Dead :
           /\ h = IF frame[u].at = "opendir" THEN base[frame[u].self] ELSE frame[u].self
           /\ VolumeOf(frame[u].self) = VolumeOf(h)
           /\ Uses(u) = {h, VolumeOf(h)} \cup
                IF frame[u].at \in {"extract", "build"} THEN {frame[u].new} ELSE {}
<1>1. PICK s \in Obj : s = frame[u].self /\ Intact(s) /\ refs[s] # {} /\ s \notin Dead
  BY SelfIntact
<1>2. ~BeingMade(s)
  BY <1>1, ReferredTo
<1>3. CASE frame[u].at = "opendir"
  <2>1. kind[s] = "FTSHandle" /\ base[s] # NULL
    BY <1>1, <1>3 DEF HInv, FrameInv, Intact
  <2>2. PICK h \in Obj : h = base[s] /\ kind[h] = "ObjectHandle" /\ refs[h] # {}
                         /\ h \notin Dead /\ ~BeingMade(h)
    BY <2>1, BaseIntact DEF BaseFits
  <2>3. h \in owns /\ VolumeOf(s) = VolumeOf(h)
    BY <2>1, <2>2 DEF HInv, WholeInv, Owners, VolumeOf
  <2> QED  BY <1>1, <1>3, <2>2, <2>3 DEF Uses
<1>4. CASE frame[u].at # "opendir"
  <2>1. kind[s] \in Owners
    BY <1>1, <1>4 DEF HInv, TypeOK, Frames, Native, FrameInv, Owners
  <2>2. s \in owns
    BY <1>1, <1>2, <2>1 DEF HInv, WholeInv
  <2>3. Uses(u) = {s, VolumeOf(s)} \cup
                  IF frame[u].at \in {"extract", "build"} THEN {frame[u].new} ELSE {}
    BY <1>1, <1>4 DEF Uses, HInv, TypeOK, Frames, Native
  <2> QED  BY <1>1, <1>4, <2>2, <2>3
<1> QED  BY <1>3, <1>4

LEMMA UsedFacts ==
  ASSUME HInv, NEW u \in Thread, NEW h \in Uses(u)
  PROVE  h \notin Dead /\ ((h \in owns /\ ~BeingMade(h)) \/ h = frame[u].new)
<1>1. CASE frame[u].at \in {"python", "return"}
  BY <1>1 DEF Uses
<1>2. CASE h = frame[u].new /\ frame[u].at \in {"glfs_init", "extract", "build"}
  BY <1>2, MadeAlone DEF HInv, FrameInv, Making
<1>3. CASE frame[u].at \notin {"python", "return"} /\ h # frame[u].new
  <2>1. frame[u].at # "glfs_init"
    BY <1>3 DEF Uses
  <2>2. PICK g \in owns \ Dead : h = g \/ h = VolumeOf(g)
    BY <1>3, <2>1, CallOwns
  <2> QED  BY <2>2, OwnedUsable
<1>4. CASE frame[u].at \in {"lookup", "open", "use", "next", "opendir"}
  <2>1. PICK g \in owns \ Dead : h = g \/ h = VolumeOf(g)
    BY <1>4, CallOwns
  <2> QED  BY <2>1, OwnedUsable
<1> QED  BY <1>1, <1>2, <1>3, <1>4 DEF HInv, TypeOK, Frames, Native


(* The steps that call nothing: the same handles, in the same use.         *)
LEMMA LifeQuiet ==
  ASSUME HInv, NEW t \in Thread,
         \/ \E s \in Obj : \E x \in Obj : FtsOpen(t, s, x) \/ GetField(t, s, x)
         \/ \E s \in Obj : Drop(t, s)
         \/ Return(t) \/ ClearBase(t) \/ ClearItem(t) \/ Free(t)
  PROVE  UNCHANGED Life!lvars
<1>1. /\ open' = open /\ stranded' = stranded /\ gil \in {NULL, t}
      /\ \A u \in Thread \ {t} : frame'[u] = frame[u] /\ dying'[u] = dying[u]
      /\ frame'[t] = frame[t] \/ (frame[t].at = "return" /\ frame'[t].at = "python")
      /\ gil = t \/ dying[t] = <<>>
      /\ gil' = t \/ (gil' = NULL /\ dying'[t] = <<>>)
  <2>1. CASE \E s \in Obj : \E x \in Obj : FtsOpen(t, s, x) \/ GetField(t, s, x)
    BY <2>1 DEF FtsOpen, GetField, Callable, HasGIL, native
  <2>2. CASE \E s \in Obj : Drop(t, s)
    BY <2>2 DEF Drop, Decref, HasGIL, HInv, TypeOK, native
  <2>3. CASE Return(t)
    BY <2>3 DEF Return, Decref, HasGIL, HInv, TypeOK, native, InPython
  <2>4. CASE ClearBase(t) \/ ClearItem(t)
    BY <2>4 DEF ClearBase, ClearItem, Decref, HInv, TypeOK, native
  <2>5. CASE Free(t)
    <3>1. Len(dying[t]) = 1 <=> dying'[t] = <<>>
      BY <2>5, Popped DEF Free, HInv
    <3> QED  BY <2>5, <3>1 DEF Free, HInv, TypeOK
  <2> QED  BY <2>1, <2>2, <2>3, <2>4, <2>5
<1>2. \E C : /\ \A c \in C \cap Obj : ~Alive(c) \/ c \in Dead
             /\ \A y \in Obj \ C : base'[y] = base[y] /\ kind'[y] = kind[y]
             /\ \A y \in Obj \ C : fs'[y] = fs[y]
             /\ \A y \in open \ stranded : fs'[y] = fs[y]
  <2>1. ASSUME NEW s \in Obj, NEW x \in Obj, FtsOpen(t, s, x)
        PROVE  /\ kind[x] = "none" /\ fs' = fs
               /\ \A y \in Obj \ {x} : base'[y] = base[y] /\ kind'[y] = kind[y]
    BY <2>1 DEF FtsOpen, Unused, HInv, TypeOK, native
  <2>2. CASE \E s \in Obj : \E x \in Obj : FtsOpen(t, s, x)
    BY <2>1, <2>2 DEF Alive, Kinds
  <2>3. CASE (\E s \in Obj : Drop(t, s) \/ \E x \in Obj : GetField(t, s, x)) \/ Return(t)
             \/ ClearItem(t)
    <3>1. base' = base /\ kind' = kind /\ fs' = fs
      BY <2>3 DEF Drop, GetField, Return, ClearItem, native
    <3> QED  BY <3>1
  <2>4. CASE ClearBase(t) \/ Free(t)
    <3>1. Dying(t) \in Dead
      BY <2>4, DyingIsDead DEF ClearBase, Free, HInv
    <3>2. ~(Dying(t) \in open \ stranded) \/ fs' = fs
      <4>1. CASE ClearBase(t)
        BY <4>1 DEF ClearBase, native
      <4>2. CASE Free(t)
        <5>1. Dying(t) \notin owns /\ ~Pending(Dying(t))
          BY <3>1, <4>2, MadeAlone, DyingIsDead DEF Free, Pending, HInv, FrameInv, Making
        <5> QED  BY <5>1 DEF HInv, OwnerInv
      <4> QED  BY <2>4, <4>1, <4>2
    <3>3. \A y \in Obj \ {Dying(t)} : base'[y] = base[y] /\ kind'[y] = kind[y] /\ fs'[y] = fs[y]
      BY <2>4 DEF ClearBase, Free, HInv, TypeOK, native
    <3>4. \A y \in open \ stranded : fs'[y] = fs[y]
      BY <3>2, <3>3 DEF HInv, TypeOK
    <3> QED  BY <3>1, <3>3, <3>4
  <2> QED  BY <2>2, <2>3, <2>4
<1>3. Below' = Below
  BY <1>1, <1>2, BelowSame
<1>4. UsedBy' = UsedBy
  <2>1. \A u \in Thread \ {t} : Uses(u)' = Uses(u)
    BY <1>1, <1>2, OthersUse
  <2>2. Uses(t)' = Uses(t)
    <3>1. CASE frame'[t] = frame[t]
      BY <1>2, <3>1, OthersUse
    <3>2. CASE frame[t].at = "return" /\ frame'[t].at = "python"
      BY <3>2 DEF Uses
    <3> QED  BY <1>1, <3>1, <3>2
  <2> QED  BY <2>1, <2>2, UsedByAll
<1>5. BeingFinished' = BeingFinished
  BY <1>1, FiniSame
<1> QED  BY <1>3, <1>4, <1>5 DEF Life!lvars

(* A method begins to use the handle of its object.                        *)
LEMMA LifeBegin ==
  ASSUME HInv, NEW t \in Thread, NEW s \in Obj, NEW h \in Obj,
         frame[t].at = "python", gil = NULL, dying[t] = <<>>,
         UNCHANGED <<base, open, stranded, fs, gil, dying>>,
         NEW C \in SUBSET Obj, \A c \in C : kind[c] = "none",
         \A y \in Obj \ C : kind'[y] = kind[y],
         \A u \in Thread \ {t} : frame'[u] = frame[u],
         frame'[t].self = s, Python \in refs[s],
         \/ /\ frame'[t].at \in {"lookup", "open", "use", "next"} /\ h = s
            /\ kind[s] \in Owners
         \/ frame'[t].at = "opendir" /\ h = base[s] /\ kind[s] = "FTSHandle"
  PROVE  Life!Begin(t, h)
<1>1. \A c \in C \cap Obj : ~Alive(c)
  BY DEF Alive, Kinds
<1>2. refs[s] # {} /\ s \notin Dead /\ ~BeingMade(s) /\ s \notin C
  BY <1>1, ReferredTo
<1>3. /\ h \in owns \ Dead /\ VolumeOf(s) = VolumeOf(h) /\ h \notin C
      /\ Uses(t)' = {h, VolumeOf(s)'} /\ Intact(s) /\ Intact(h)
  <2>1. CASE frame'[t].at = "opendir" /\ h = base[s] /\ kind[s] = "FTSHandle"
    <3>1. base[s] # NULL
      BY <2>1, HandlesAssumption
    <3>2. /\ kind[h] = "ObjectHandle" /\ refs[h] # {} /\ h \notin Dead /\ ~BeingMade(h)
          /\ Alive(h) /\ Intact(h)
      BY <2>1, <3>1, BaseIntact DEF BaseFits
    <3>3. h \in owns
      BY <3>2 DEF HInv, WholeInv, Owners
    <3>4. Uses(t)' = {h, VolumeOf(s)'}
      BY <2>1 DEF Uses
    <3> QED  BY <1>1, <2>1, <3>1, <3>2, <3>3, <3>4 DEF VolumeOf, Intact, Kinds
  <2>2. CASE frame'[t].at \in {"lookup", "open", "use", "next"} /\ h = s /\ kind[s] \in Owners
    <3>1. h \in owns
      BY <1>2, <2>2 DEF HInv, WholeInv
    <3>2. Intact(s)
      BY <2>2, <3>1 DEF HInv, OwnsInv, Intact, Owners, Kinds
    <3>3. Uses(t)' = {h, VolumeOf(s)'}
      BY <2>2 DEF Uses
    <3> QED  BY <1>2, <2>2, <3>1, <3>2, <3>3
  <2> QED  BY <2>1, <2>2
<1>4. /\ VolumeOf(s)' = VolumeOf(s)
      /\ \A u \in Thread \ {t} : Uses(u)' = Uses(u)
  BY <1>1, <1>2, <1>3, OthersUse
<1>5. Life!Usable(h) /\ Below[h] = VolumeOf(h)
  BY <1>3, OwnedIsUsable
<1>6. UsedBy' = [UsedBy EXCEPT ![t] = {h, Below[h]}]
  <2>1. Uses(t)' = {h, Below[h]}
    BY <1>3, <1>4, <1>5
  <2> QED  BY <1>4, <2>1, UsedByOne
<1>7. Below' = Below
  BY BelowSame
<1>8. BeingFinished' = BeingFinished
  BY FiniSame
<1>9. UsedBy[t] = {}
  BY DEF UsedBy, Uses
<1> QED  BY <1>5, <1>6, <1>7, <1>8, <1>9 DEF Life!Begin

LEMMA LifeBegins ==
  ASSUME HInv, NEW t \in Thread, NEW s \in Obj,
         \/ CallLookup(t, s) \/ CallOpen(t, s) \/ CallUse(t, s) \/ CallNext(t, s)
         \/ \E i \in Obj : CallIter(t, s, i)
  PROVE  \E h \in Obj : Life!Begin(t, h)
<1>1. ASSUME NEW at \in {"lookup", "open", "use", "next"}, Enter(t, s, at),
             Callable(t, s, Owners), UNCHANGED <<kind, base, native, gil, dying>>
      PROVE  Life!Begin(t, s)
  <2>1. /\ frame[t].at = "python" /\ gil = NULL /\ dying[t] = <<>> /\ Python \in refs[s]
        /\ kind[s] \in Owners
    BY <1>1 DEF Callable, HasGIL
  <2>2. /\ frame'[t].at = at /\ frame'[t].self = s
        /\ \A u \in Thread \ {t} : frame'[u] = frame[u]
    BY <1>1 DEF Enter, HInv, TypeOK, InPython
  <2>3. {} \in SUBSET Obj
    OBVIOUS
  <2>4. UNCHANGED <<kind, base, open, stranded, fs, gil, dying>>
    BY <1>1 DEF native
  <2> QED
    <3>1. \A y \in Obj \ {} : kind'[y] = kind[y]
      BY <2>4
    <3>2. \A c \in {} : kind[c] = "none"
      OBVIOUS
    <3>3. frame'[t].at \in {"lookup", "open", "use", "next"}
      BY <2>2
    <3> QED  BY <2>1, <2>2, <2>3, <2>4, <3>1, <3>2, <3>3, LifeBegin
<1>2. ASSUME NEW i \in Obj, CallIter(t, s, i)
      PROVE  \E h \in Obj : Life!Begin(t, h)
  <2>1. /\ frame[t].at = "python" /\ gil = NULL /\ dying[t] = <<>> /\ Python \in refs[s]
        /\ kind[s] = "FTSHandle"
    BY <1>2 DEF CallIter, Callable, HasGIL
  <2>2. /\ frame'[t].at = "opendir" /\ frame'[t].self = s
        /\ \A u \in Thread \ {t} : frame'[u] = frame[u]
    BY <1>2 DEF CallIter, HInv, TypeOK
  <2>3. {i} \in SUBSET Obj /\ kind[i] = "none" /\ \A y \in Obj \ {i} : kind'[y] = kind[y]
    BY <1>2 DEF CallIter, Unused, HInv, TypeOK
  <2>4. UNCHANGED <<base, open, stranded, fs, gil, dying>>
    BY <1>2 DEF CallIter, native
  <2>5. base[s] \in Obj
    <3>1. ~BeingMade(s) /\ refs[s] # {}
      BY <2>1, ReferredTo
    <3> QED  BY <2>1, <3>1 DEF HInv, WholeInv, TypeOK
  <2>6. PICK C \in SUBSET Obj : C = {i}
    BY <2>3
  <2>7. (\A c \in C : kind[c] = "none") /\ \A y \in Obj \ C : kind'[y] = kind[y]
    BY <2>3, <2>6
  <2> QED  BY <2>1, <2>2, <2>4, <2>5, <2>7, LifeBegin
<1>3. ASSUME NEW K, K \subseteq Owners, Callable(t, s, K) PROVE Callable(t, s, Owners)
  BY <1>3 DEF Callable
<1>4. CASE CallLookup(t, s)
  BY <1>1, <1>3, <1>4 DEF CallLookup, Owners
<1>5. CASE CallOpen(t, s)
  BY <1>1, <1>3, <1>5 DEF CallOpen, Owners
<1>6. CASE CallUse(t, s)
  BY <1>1, <1>3, <1>6 DEF CallUse, Owners
<1>7. CASE CallNext(t, s)
  BY <1>1, <1>3, <1>7 DEF CallNext, Owners
<1> QED  BY <1>2, <1>4, <1>5, <1>6, <1>7


(* What is open, but for what is stranded, was opened with the glfs_t of a *)
(* Volume that lives and owns it.                                          *)
LEMMA NothingOver ==
  ASSUME HInv, NEW v, v \notin owns \ Dead
  PROVE  Life!Bare(v)
<1>1. \A h \in (open \ stranded) \ {v} : fs[h] # v
  <2> SUFFICES ASSUME NEW h \in open \ stranded, h # v PROVE fs[h] # v
    OBVIOUS
  <2>1. CASE h \in owns
    <3>1. h \in Obj /\ Intact(h) /\ fs[h] = VolumeOf(h)
      BY <2>1 DEF HInv, TypeOK, OwnsInv, FsInv, Intact, Owners, Kinds
    <3>2. CASE kind[h] = "Volume"
      BY <3>1, <3>2 DEF VolumeOf
    <3>3. CASE kind[h] # "Volume"
      BY <3>1, <3>3, VolumeReached
    <3> QED  BY <3>2, <3>3
  <2>2. CASE Pending(h)
    <3>1. PICK u \in Thread : /\ frame[u].at \in {"glfs_init", "extract", "build"}
                              /\ h = frame[u].new
      BY <2>2 DEF Pending
    <3>2. CASE frame[u].at = "glfs_init"
      BY <3>1, <3>2 DEF HInv, FsInv
    <3>3. CASE frame[u].at \in {"extract", "build"}
      <4>1. PICK g \in owns \ Dead : VolumeOf(frame[u].self) = VolumeOf(g)
        BY <3>3, CallOwns
      <4>2. VolumeOf(g) \in owns \ Dead
        BY <4>1, OwnedUsable
      <4> QED  BY <3>1, <3>3, <4>1, <4>2 DEF HInv, FsInv
    <3> QED  BY <3>1, <3>2, <3>3
  <2> QED  BY <2>1, <2>2 DEF HInv, OwnerInv
<1> QED  BY <1>1, BelowFacts DEF Life!Bare

(* A method is over.                                                       *)
LEMMA LeaveUses ==
  ASSUME HInv, NEW t \in Thread, frame[t].at \notin {"python", "return"}, gil = NULL,
         Leave(t), \A u \in Thread \ {t} : dying'[u] = dying[u],
         NEW C, \A c \in C \cap Obj : ~Alive(c) \/ BeingMade(c),
         \A y \in Obj \ C : base'[y] = base[y] /\ kind'[y] = kind[y]
  PROVE  UsedBy' = [UsedBy EXCEPT ![t] = {}] /\ BeingFinished' = BeingFinished
<1>1. /\ gil' = t /\ frame'[t].at = "return"
      /\ \A u \in Thread \ {t} : frame'[u] = frame[u]
  BY LeaveFrames DEF HInv
<1>2. dying[t] = <<>>
  BY DEF HInv, BusyInv
<1>3. Uses(t)' = {}
  BY <1>1 DEF Uses
<1>4. \A u \in Thread \ {t} : Uses(u)' = Uses(u)
  BY <1>1, OthersUse
<1> QED  BY <1>1, <1>2, <1>3, <1>4, UsedByOne, FiniSame

LEMMA LifeEnd ==
  ASSUME HInv, NEW t \in Thread,
         \/ VolumeReady(t) \/ CallFails(t) \/ Used(t) \/ Extracted(t)
         \/ \E o \in Obj : Strands(t, o)
         \/ \E garbage \in BOOLEAN : IterFails(t, garbage)
         \/ \E complete \in BOOLEAN : Built(t, complete)
  PROVE  Life!End(t)
<1>1. /\ frame[t].at \notin {"python", "return"} /\ gil = NULL /\ Leave(t)
      /\ \A u \in Thread \ {t} : dying'[u] = dying[u]
  BY DEF VolumeReady, CallFails, Used, Extracted, Strands, LookedNoMemory, UsedNoCleanup,
     CopiedNoMemory, IterFails, Built, Back, HInv, TypeOK
<1>2. Below' = Below
  <2>1. CASE VolumeReady(t) \/ CallFails(t) \/ Used(t) \/ Extracted(t)
             \/ (\E garbage \in BOOLEAN : IterFails(t, garbage))
             \/ \E complete \in BOOLEAN : Built(t, complete)
    BY <2>1, BelowSame DEF VolumeReady, CallFails, Used, Extracted, IterFails, Built, native
  <2>2. ASSUME NEW o \in Obj, Strands(t, o)
        PROVE  Below' = Below
    <3>1. o \notin open
      BY <2>2, FreePlace DEF Strands, LookedNoMemory, UsedNoCleanup, CopiedNoMemory, Unused
    <3> QED  BY <2>2, <3>1, BelowSame DEF Strands, LookedNoMemory, UsedNoCleanup, CopiedNoMemory
  <2> QED  BY <2>1, <2>2
<1>3. \E C : /\ \A c \in C \cap Obj : ~Alive(c) \/ BeingMade(c)
             /\ \A y \in Obj \ C : base'[y] = base[y] /\ kind'[y] = kind[y]
  <2>1. CASE VolumeReady(t) \/ CallFails(t) \/ Used(t)
    <3>1. base' = base /\ kind' = kind
      BY <2>1 DEF VolumeReady, CallFails, Used, objects
    <3>2. PICK C : C = {}
      OBVIOUS
    <3> QED  BY <3>1, <3>2
  <2>2. ASSUME NEW o \in Obj, Strands(t, o)
        PROVE  ~Alive(o) /\ \A y \in Obj \ {o} : base'[y] = base[y] /\ kind'[y] = kind[y]
    BY <2>2 DEF Strands, LookedNoMemory, UsedNoCleanup, CopiedNoMemory, Unused, Alive, Kinds,
                HInv, TypeOK
  <2>3. CASE Extracted(t) \/ (\E garbage \in BOOLEAN : IterFails(t, garbage))
             \/ \E complete \in BOOLEAN : Built(t, complete)
    <3> DEFINE C == {frame[t].new, frame[t].entry}
    <3>1. \A c \in C \cap Obj : BeingMade(c)
      BY DEF BeingMade
    <3>2. \A y \in Obj \ C : base'[y] = base[y] /\ kind'[y] = kind[y]
      BY <2>3 DEF Extracted, IterFails, Built, HInv, TypeOK
    <3> HIDE DEF C
    <3> QED  BY <3>1, <3>2
  <2>4. CASE \E o \in Obj : Strands(t, o)
    BY <2>2, <2>4
  <2> QED  BY <2>1, <2>3, <2>4
<1> QED  BY <1>1, <1>2, <1>3, LeaveUses DEF Life!End

LEMMA LifeGiveUp ==
  ASSUME HInv, NEW t \in Thread, VolumeFails(t) \/ ExtractFails(t) \/ BuildFails(t)
  PROVE  Life!GiveUp(t, frame[t].new) /\ frame[t].new \in Obj
<1> DEFINE C == {frame[t].new, frame[t].entry}
<1>1. /\ frame[t].at \in {"glfs_init", "extract", "build"} /\ gil = NULL /\ Leave(t)
      /\ dying' = dying /\ base' = base
      /\ \A y \in Obj \ C : kind'[y] = kind[y]
  BY DEF VolumeFails, ExtractFails, BuildFails, Back, HInv, TypeOK
<1>2. PICK o \in Obj : o = frame[t].new
  BY <1>1 DEF HInv, FrameInv, Making
<1>3. /\ o \in open /\ o \notin stranded /\ o \notin owns /\ o \notin Dead
      /\ \A u \in Thread \ {t} : o # frame[u].new
  <2>1. o \in open
    BY <1>1, <1>2 DEF HInv, OwnerInv, Pending
  <2> QED  BY <1>2, <2>1, MadeAlone
<1>4. o \in Uses(t)
  BY <1>1, <1>2 DEF Uses
<1>5. \A u \in Thread \ {t} : o \notin Uses(u)
  BY <1>3, UsedFacts
<1>6. Below' = Life!Without(o)
  <2>1. CASE VolumeFails(t)
    BY <1>2, <2>1, BelowLess DEF VolumeFails, HInv, TypeOK
  <2>2. CASE ExtractFails(t) \/ BuildFails(t)
    BY <1>2, <2>2, BelowLess DEF ExtractFails, BuildFails, HInv, TypeOK
  <2> QED  BY <2>1, <2>2
<1>7. UsedBy' = [UsedBy EXCEPT ![t] = {}] /\ BeingFinished' = BeingFinished
  <2>1. \A c \in C \cap Obj : BeingMade(c)
    BY DEF BeingMade
  <2> HIDE DEF C
  <2> QED  BY <1>1, <2>1, LeaveUses
<1>8. Life!Bare(o)
  BY <1>3, NothingOver
<1> QED
  BY <1>2, <1>4, <1>5, <1>6, <1>7, <1>8 DEF Life!GiveUp, UsedBy

(* A method opens a handle.                                                *)
LEMMA LifeObtain ==
  ASSUME HInv, NEW t \in Thread, frame[t].at \in {"lookup", "open", "opendir", "next"},
         NEW h \in Obj, h \notin open, NEW more \in BOOLEAN,
         open' = open \cup {h}, stranded' = stranded,
         fs' = [fs EXCEPT ![h] = VolumeOf(frame[t].self)],
         UsedBy' = [UsedBy EXCEPT ![t] = IF more THEN Uses(t) \cup {h} ELSE {}],
         BeingFinished' = BeingFinished
  PROVE  \E f \in Obj : Life!Obtain(t, h, f)
<1>1. PICK g \in owns \ Dead : /\ VolumeOf(frame[t].self) = VolumeOf(g)
                               /\ VolumeOf(g) \in Uses(t)
  BY CallOwns
<1>2. PICK f : f = VolumeOf(g)
  OBVIOUS
<1>3. f \in Obj /\ f \in open \ stranded /\ fs[f] = f
  BY <1>1, <1>2, OwnedUsable DEF HInv, TypeOK
<1>4. h \notin stranded
  BY DEF HInv, OwnerInv
<1>5. Below' = Life!With(h, f)
  BY <1>1, <1>2, <1>4, BelowMore DEF HInv, TypeOK
<1>6. UsedBy[t] = Uses(t)
  BY DEF UsedBy
<1> QED  BY <1>1, <1>2, <1>3, <1>5, <1>6, BelowFacts DEF Life!Obtain

LEMMA LifeObtains ==
  ASSUME HInv, NEW t \in Thread, NEW o \in Obj,
         Looked(t, o) \/ Opened(t, o) \/ \E e \in Obj : Copied(t, o, e)
  PROVE  \E f \in Obj : Life!Obtain(t, o, f)
<1>1. /\ frame[t].at \in {"lookup", "open", "next"} /\ kind[o] = "none"
      /\ open' = open \cup {o} /\ stranded' = stranded /\ dying' = dying
      /\ fs' = [fs EXCEPT ![o] = VolumeOf(frame[t].self)] /\ gil = NULL
  BY DEF Looked, Opened, Copied, Back, Unused
<1>2. o \notin open /\ dying[t] = <<>>
  BY <1>1, FreePlace DEF HInv, BusyInv
<1>3. CASE Opened(t, o)
  <2> DEFINE C == {o}
  <2>1. /\ \A c \in C \cap Obj : ~Alive(c)
        /\ \A y \in Obj \ C : base'[y] = base[y] /\ kind'[y] = kind[y]
        /\ Leave(t)
    BY <1>1, <1>3 DEF Opened, Alive, Kinds, HInv, TypeOK
  <2>2. UsedBy' = [UsedBy EXCEPT ![t] = {}] /\ BeingFinished' = BeingFinished
    <3> HIDE DEF C
    <3> QED  BY <1>1, <2>1, LeaveUses
  <2> QED  BY <1>1, <1>2, <2>2, LifeObtain
<1>4. CASE Looked(t, o) \/ \E e \in Obj : Copied(t, o, e)
  <2>1. \E C : /\ \A c \in C \cap Obj : ~Alive(c)
               /\ \A y \in Obj \ C : base'[y] = base[y] /\ kind'[y] = kind[y]
    <3>1. CASE Looked(t, o)
      <4>1. /\ \A c \in {o} : ~Alive(c)
            /\ \A y \in Obj \ {o} : base'[y] = base[y] /\ kind'[y] = kind[y]
        BY <1>1, <3>1 DEF Looked, Alive, Kinds, HInv, TypeOK
      <4> QED  BY <4>1
    <3>2. CASE \E e \in Obj : Copied(t, o, e)
      <4>1. PICK e \in Obj : Copied(t, o, e)
        BY <3>2
      <4>2. /\ \A c \in {o, e} : ~Alive(c)
            /\ \A y \in Obj \ {o, e} : base'[y] = base[y] /\ kind'[y] = kind[y]
        BY <1>1, <4>1 DEF Copied, Unused, Alive, Kinds, HInv, TypeOK
      <4> QED  BY <4>2
    <3> QED  BY <1>4, <3>1, <3>2
  <2>2. /\ frame'[t].at \in {"extract", "build"} /\ frame'[t].new = o
        /\ frame'[t].self = frame[t].self /\ gil' = gil
        /\ \A u \in Thread \ {t} : frame'[u] = frame[u]
    BY <1>4 DEF Looked, Copied, HInv, TypeOK, Frames
  <2>3. PICK s \in Obj : s = frame[t].self /\ Intact(s)
    BY <1>1, SelfIntact
  <2>4. /\ VolumeOf(s)' = VolumeOf(s)
        /\ \A u \in Thread \ {t} : Uses(u)' = Uses(u)
    BY <2>1, <2>2, <2>3, OthersUse
  <2>5. Uses(t) = {s, VolumeOf(s)}
    BY <1>1, <1>4, <2>3 DEF Uses, Looked, Copied, Back
  <2>6. Uses(t)' = Uses(t) \cup {o}
    BY <2>2, <2>3, <2>4, <2>5 DEF Uses
  <2>7. UsedBy' = [UsedBy EXCEPT ![t] = Uses(t) \cup {o}]
    BY <2>4, <2>6, UsedByOne
  <2>8. BeingFinished' = BeingFinished
    BY <1>1, <1>2, <2>2, FiniSame
  <2> QED  BY <1>1, <1>2, <2>7, <2>8, LifeObtain
<1> QED  BY <1>3, <1>4

LEMMA LifeIter ==
  ASSUME HInv, NEW t \in Thread, IterOpened(t)
  PROVE  \E h, f \in Obj : Life!Obtain(t, h, f)
<1>1. /\ frame[t].at = "opendir" /\ gil = NULL /\ Leave(t) /\ dying' = dying
      /\ stranded' = stranded /\ kind' = kind
  BY DEF IterOpened, Back
<1>2. PICK i \in Obj : i = frame[t].new
  BY <1>1 DEF HInv, FrameInv, Making
<1>3. /\ open' = open \cup {i} /\ fs' = [fs EXCEPT ![i] = VolumeOf(frame[t].self)]
      /\ \A y \in Obj \ {i} : base'[y] = base[y]
  BY <1>2 DEF IterOpened, HInv, TypeOK
<1>4. i \notin open /\ BeingMade(i)
  <2>1. i \notin owns /\ i \notin stranded /\ \A u \in Thread \ {t} : i # frame[u].new
    BY <1>2, MadeAlone
  <2>2. ~Pending(i)
    BY <1>1, <2>1 DEF Pending
  <2> QED  BY <1>2, <2>1, <2>2 DEF HInv, OwnerInv, BeingMade
<1>5. UsedBy' = [UsedBy EXCEPT ![t] = {}] /\ BeingFinished' = BeingFinished
  <2>1. PICK C : C = {i}
    OBVIOUS
  <2>2. /\ \A c \in C \cap Obj : BeingMade(c)
        /\ \A y \in Obj \ C : base'[y] = base[y] /\ kind'[y] = kind[y]
    BY <1>1, <1>3, <1>4, <2>1
  <2> QED  BY <1>1, <2>2, LeaveUses
<1> QED  BY <1>1, <1>3, <1>4, <1>5, LifeObtain


LEMMA LifeNew ==
  ASSUME HInv, NEW t \in Thread, NEW v \in Obj, NewVolume(t, v)
  PROVE  Life!New(t, v)
<1>1. /\ kind[v] = "none" /\ frame[t].at = "python" /\ gil = NULL /\ dying[t] = <<>>
      /\ open' = open \cup {v} /\ stranded' = stranded /\ fs' = [fs EXCEPT ![v] = v]
      /\ gil' = gil /\ dying' = dying /\ base' = base
      /\ \A y \in Obj \ {v} : kind'[y] = kind[y]
      /\ frame'[t].at = "glfs_init" /\ frame'[t].new = v
      /\ \A u \in Thread \ {t} : frame'[u] = frame[u]
  BY DEF NewVolume, HasGIL, Unused, HInv, TypeOK, InPython
<1>2. v \notin open /\ v \notin stranded /\ ~Alive(v)
  BY <1>1, FreePlace DEF Alive, Kinds
<1>3. Below' = Life!With(v, v)
  <2>1. fs'[v] = v /\ \A h \in open \ stranded : h # v /\ fs'[h] = fs[h]
    BY <1>1, <1>2 DEF HInv, TypeOK
  <2>2. \A h : h \in open' \ stranded' <=> h \in open \ stranded \/ h = v
    BY <1>1, <1>2
  <2> QED  BY <2>1, <2>2, BelowMore
<1>4. UsedBy' = [UsedBy EXCEPT ![t] = {v}]
  <2>1. Uses(t)' = {v}
    BY <1>1 DEF Uses
  <2>2. PICK C : C = {v}
    OBVIOUS
  <2>3. /\ \A c \in C \cap Obj : ~Alive(c)
        /\ \A y \in Obj \ C : base'[y] = base[y] /\ kind'[y] = kind[y]
    BY <1>1, <1>2, <2>2
  <2>4. \A u \in Thread \ {t} : Uses(u)' = Uses(u)
    BY <1>1, <2>3, OthersUse
  <2> QED  BY <2>1, <2>4, UsedByOne
<1>5. BeingFinished' = BeingFinished
  BY <1>1, FiniSame
<1>6. UsedBy[t] = {}
  BY <1>1 DEF UsedBy, Uses
<1> QED  BY <1>2, <1>3, <1>4, <1>5, <1>6, BelowFacts DEF Life!New

(* tp_dealloc.  Nobody uses the handle of an object that dies.              *)
LEMMA DyingUnused ==
  ASSUME HInv, NEW x \in Dead, UNCHANGED <<kind, base, frame>>
  PROVE  /\ UsedBy' = UsedBy
         /\ \A u \in Thread : x \notin Uses(u)
         /\ x \notin Life!InUse
<1>1. \A u \in Thread : x \notin Uses(u)
  BY UsedFacts
<1>2. \A y \in Obj \ {} : base'[y] = base[y] /\ kind'[y] = kind[y]
  OBVIOUS
<1>3. \A u \in Thread : Uses(u)' = Uses(u)
  <2>1. \A z : VolumeOf(z)' = VolumeOf(z)
    BY Unmoved
  <2> QED  BY <2>1 DEF Uses
<1> QED  BY <1>1, <1>3, UsedByAll DEF Life!InUse, UsedBy

LEMMA LifeClose ==
  ASSUME HInv, NEW t \in Thread, CloseNative(t)
  PROVE  \E h \in Obj : Life!Close(h)
<1>1. PICK x \in Obj : x = Dying(t) /\ x \in Dead
  BY DyingIsDead DEF CloseNative, HInv
<1>2. /\ x \in owns /\ kind[x] # "Volume" /\ open' = open \ {x} /\ gil = t /\ dying[t] # <<>>
      /\ UNCHANGED <<kind, base, frame, stranded, fs, gil, dying>>
  BY <1>1 DEF CloseNative
<1>3. /\ x \in open \ stranded /\ fs[x] # x
  <2>1. Intact(x) /\ fs[x] = VolumeOf(x)
    BY <1>2 DEF HInv, OwnsInv, FsInv, Intact, Owners, Kinds
  <2> QED  BY <1>2, <2>1, VolumeReached DEF HInv, OwnerInv
<1>4. Below' = Life!Without(x)
  BY <1>2, BelowLess
<1>5. UsedBy' = UsedBy /\ x \notin Life!InUse
  BY <1>1, <1>2, DyingUnused
<1>6. BeingFinished' = BeingFinished
  BY <1>2, FiniSame
<1> QED  BY <1>3, <1>4, <1>5, <1>6, BelowFacts DEF Life!Close

LEMMA LifeBeginFini ==
  ASSUME HInv, NEW t \in Thread, BeginFini(t)
  PROVE  \E f \in Obj : Life!BeginFini(f)
<1>1. PICK x \in Obj : x = Dying(t) /\ x \in Dead
  BY DyingIsDead DEF BeginFini, HInv
<1>2. /\ x \in owns /\ kind[x] = "Volume" /\ gil = t /\ gil' = NULL /\ dying[t] # <<>>
      /\ UNCHANGED <<kind, base, frame, open, stranded, fs, dying>>
  BY <1>1 DEF BeginFini, objects, native
<1>3. x \in open \ stranded /\ fs[x] = x
  BY <1>2 DEF HInv, OwnerInv, FsInv, VolumeOf
<1>4. Below' = Below
  BY <1>2, BelowSame
<1>5. UsedBy' = UsedBy /\ x \notin Life!InUse /\ Life!Bare(x)
  BY <1>1, <1>2, DyingUnused, NothingOver
<1>6. BeingFinished' = BeingFinished \cup {x} /\ x \notin BeingFinished
  <2>1. ~Finishing(t) /\ Finishing(t)' /\ Dying(t)' = x
    BY <1>1, <1>2, HandlesAssumption DEF Finishing, Dying
  <2>2. \A u \in Thread \ {t} : /\ Finishing(u) <=> dying[u] # <<>>
                                /\ Finishing(u)' <=> dying[u] # <<>>
                                /\ Dying(u)' = Dying(u)
    BY <1>2, HandlesAssumption DEF Finishing, Dying
  <2>3. ASSUME NEW u \in Thread \ {t}, dying[u] # <<>> PROVE Dying(u) # x
    <3>1. x \in ToSet(dying[t]) /\ Dying(u) \in ToSet(dying[u])
      BY <1>1, <1>2, <2>3, LastInside DEF HInv
    <3> QED  BY <2>3, <3>1 DEF HInv, DyingInv
  <2> QED  BY <2>1, <2>2, <2>3 DEF BeingFinished
<1> QED  BY <1>3, <1>4, <1>5, <1>6, BelowFacts DEF Life!BeginFini

LEMMA LifeEndFini ==
  ASSUME HInv, NEW t \in Thread, EndFini(t)
  PROVE  \E f \in Obj : Life!EndFini(f)
<1>1. PICK x \in Obj : x = Dying(t) /\ x \in Dead
  BY DyingIsDead DEF EndFini, Finishing, HInv
<1>2. /\ Finishing(t) /\ gil = NULL /\ gil' = t /\ dying[t] # <<>> /\ open' = open \ {x}
      /\ UNCHANGED <<kind, base, frame, stranded, fs, dying>>
  BY <1>1 DEF EndFini, Finishing
<1>3. Below' = Life!Without(x)
  BY <1>2, BelowLess
<1>4. UsedBy' = UsedBy
  BY <1>1, <1>2, DyingUnused
<1>5. BeingFinished' = BeingFinished \ {x} /\ x \in BeingFinished
  <2>1. ~Finishing(t)'
    BY <1>2 DEF Finishing
  <2>2. \A u \in Thread \ {t} : /\ Finishing(u) <=> dying[u] # <<>>
                                /\ Finishing(u)' <=> dying[u] # <<>>
                                /\ Dying(u)' = Dying(u)
    BY <1>2, HandlesAssumption DEF Finishing, Dying
  <2>3. ASSUME NEW u \in Thread \ {t}, dying[u] # <<>> PROVE Dying(u) # x
    <3>1. x \in ToSet(dying[t]) /\ Dying(u) \in ToSet(dying[u])
      BY <1>1, <1>2, <2>3, LastInside DEF HInv
    <3> QED  BY <2>3, <3>1 DEF HInv, DyingInv
  <2> QED  BY <1>1, <1>2, <2>1, <2>2, <2>3 DEF BeingFinished
<1> QED  BY <1>3, <1>4, <1>5 DEF Life!EndFini

LEMMA LifeInit == Init => Life!Init
<1> SUFFICES ASSUME Init PROVE Life!Init
  OBVIOUS
<1>1. open \ stranded = {} /\ \A t \in Thread : Uses(t) = {} /\ ~Finishing(t)
  BY DEF Init, Uses, Finishing, InPython
<1> QED  BY <1>1 DEF Life!Init, Below, UsedBy, BeingFinished

LEMMA LifeStep ==
  ASSUME HInv, [Next]_vars
  PROVE  [Life!Next]_Life!lvars
<1>1. ASSUME NEW t \in Thread, Call(t)
      PROVE  [Life!Next]_Life!lvars
  <2>1. CASE \E v \in Obj : NewVolume(t, v)
    BY <2>1, LifeNew DEF Life!Next
  <2>2. CASE \E s \in Obj : \/ CallLookup(t, s) \/ CallOpen(t, s) \/ CallUse(t, s)
                            \/ CallNext(t, s) \/ \E i \in Obj : CallIter(t, s, i)
    BY <2>2, LifeBegins DEF Life!Next
  <2>3. CASE \E s \in Obj : \/ Drop(t, s)
                            \/ \E x \in Obj : FtsOpen(t, s, x) \/ GetField(t, s, x)
    BY <2>3, LifeQuiet
  <2> QED  BY <1>1, <2>1, <2>2, <2>3 DEF Call
<1>2. ASSUME NEW t \in Thread, Continue(t)
      PROVE  [Life!Next]_Life!lvars
  <2>1. CASE \/ VolumeReady(t) \/ CallFails(t) \/ Used(t) \/ Extracted(t)
             \/ \E o \in Obj : Strands(t, o)
             \/ \E garbage \in BOOLEAN : IterFails(t, garbage)
             \/ \E complete \in BOOLEAN : Built(t, complete)
    BY <2>1, LifeEnd DEF Life!Next
  <2>2. CASE VolumeFails(t) \/ ExtractFails(t) \/ BuildFails(t)
    BY <2>2, LifeGiveUp DEF Life!Next
  <2>3. CASE \/ IterOpened(t)
             \/ \E o \in Obj : Looked(t, o) \/ Opened(t, o) \/ \E e \in Obj : Copied(t, o, e)
    BY <2>3, LifeObtains, LifeIter DEF Life!Next
  <2>4. CASE Return(t)
    BY <2>4, LifeQuiet
  <2> QED  BY <1>2, <2>1, <2>2, <2>3, <2>4 DEF Continue, Strands
<1>3. ASSUME NEW t \in Thread, Dealloc(t)
      PROVE  [Life!Next]_Life!lvars
  <2>1. CASE CloseNative(t) \/ BeginFini(t) \/ EndFini(t)
    BY <2>1, LifeClose, LifeBeginFini, LifeEndFini DEF Life!Next
  <2>2. CASE ClearBase(t) \/ ClearItem(t) \/ Free(t)
    BY <2>2, LifeQuiet
  <2> QED  BY <1>3, <2>1, <2>2 DEF Dealloc
<1>4. ASSUME UNCHANGED vars
      PROVE  UNCHANGED Life!lvars
  <2>1. UNCHANGED <<kind, base, dying, frame, stranded, fs, open, gil>>
    BY <1>4 DEF vars, objects, native
  <2>2. \A z : VolumeOf(z)' = VolumeOf(z)
    BY <2>1, Unmoved
  <2>3. \A u \in Thread : Uses(u)' = Uses(u) /\ Finishing(u)' = Finishing(u)
                          /\ Dying(u)' = Dying(u)
    BY <2>1, <2>2 DEF Uses, Finishing, Dying
  <2>4. Below' = Below /\ UsedBy' = UsedBy /\ BeingFinished' = BeingFinished
    BY <2>1, <2>3 DEF Below, UsedBy, BeingFinished
  <2> QED  BY <2>4 DEF Life!lvars
<1> QED  BY <1>1, <1>2, <1>3, <1>4 DEF Next

(* pyglfs keeps to the order that Lifetimes prescribes: what the           *)
(* references between the Python objects are for.                          *)
THEOREM LifetimesRefinement == Spec => ImplementsLifetimes
<1>1. Init => Life!Init
  BY LifeInit
<1>2. HInv /\ [Next]_vars => [Life!Next]_Life!lvars
  BY LifeStep
<1> QED  BY HandlesInvariance, <1>1, <1>2, PTL DEF Spec, Life!Spec, ImplementsLifetimes

(* Hence every call of libgfapi uses what is open, and glfs_fini() runs    *)
(* for a glfs_t below which nothing is open.                               *)
THEOREM CallsAreNested == Spec => []Life!WellNested
BY LifetimesRefinement, Life!NestedCalls, PTL DEF ImplementsLifetimes
=============================================================================
