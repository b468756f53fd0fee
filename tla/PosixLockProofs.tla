---------------------------- MODULE PosixLockProofs ----------------------------
(***************************************************************************)
(* Proofs about PosixLock, for any number of processes, threads and locks: *)
(* what follows from posix_lock() keeping the GIL while it waits.          *)
(***************************************************************************)
EXTENDS PosixLock, TLAPS

-----------------------------------------------------------------------------
(* A lock that one process holds for writing no other holds at all.        *)
Exclusive ==
  \A l \in Lock, p \in Process, q \in Process :
    p # q /\ held[l][p] = "F_WRLCK" => held[l][q] = "F_UNLCK"

(* The GIL is kept by the thread that waits, and by nobody else: at most   *)
(* one thread of a process waits, and then none of its threads runs.       *)
WaiterHasGil ==
  /\ \A t \in Thread : waits[t] # NULL <=> gil[Home[t]] = t
  /\ \A p \in Process : gil[p] # NULL => Home[gil[p]] = p

LockInv == LockTypeOK /\ Exclusive /\ WaiterHasGil

(* Each process of D has a thread that waits for a lock of another one.    *)
Blocks(p, w) ==
  \/ held[w.lock][p] = "F_WRLCK"
  \/ w.type = "F_WRLCK" /\ held[w.lock][p] # "F_UNLCK"

Embraced(D) ==
  \A p \in D :
    /\ Stopped(p)
    /\ \E q \in D \ {p} : Blocks(q, waits[gil[p]])
-----------------------------------------------------------------------------
(* Taking a lock that no other process stands in the way of.               *)
LEMMA TakeKeeps ==
  ASSUME LockInv, NEW t \in Thread, NEW l \in Lock, NEW type \in Types,
         Take(t, l, type), Grantable(Home[t], l, type)
  PROVE  /\ Exclusive'
         /\ held' \in [Lock -> [Process -> Types]] /\ mine' \in [Thread -> Lock \cup {NULL}]
<1> DEFINE h == Home[t]
<1>1. h \in Process /\ held \in [Lock -> [Process -> Types]]
  BY LockAssumption DEF LockInv, LockTypeOK
<1>2. /\ held' \in [Lock -> [Process -> Types]] /\ mine' \in [Thread -> Lock \cup {NULL}]
      /\ \A k \in Lock, p \in Process :
           held'[k][p] = IF k = l /\ p = h THEN type ELSE held[k][p]
  BY <1>1 DEF Take, LockInv, LockTypeOK
<1>3. \A q \in Process \ {h} :
        /\ held[l][q] # "F_WRLCK"
        /\ type = "F_WRLCK" => held[l][q] = "F_UNLCK"
  BY DEF Grantable
<1>4. Exclusive
  BY DEF LockInv
<1> QED  BY <1>1, <1>2, <1>3, <1>4 DEF Exclusive

LEMMA WakeKeeps ==
  ASSUME LockInv, NEW t \in Thread, Wakes(t)
  PROVE  /\ WaiterHasGil'
         /\ gil' \in [Process -> Thread \cup {NULL}]
         /\ waits' \in [Thread -> [lock : Lock, type : Types \ {"F_UNLCK"}] \cup {NULL}]
         /\ waits[t] \in [lock : Lock, type : Types \ {"F_UNLCK"}] /\ gil[Home[t]] = t
<1>1. /\ gil \in [Process -> Thread \cup {NULL}] /\ Home \in [Thread -> Process]
      /\ waits \in [Thread -> [lock : Lock, type : Types \ {"F_UNLCK"}] \cup {NULL}]
      /\ waits[t] # NULL
      /\ gil' = [gil EXCEPT ![Home[t]] = NULL] /\ waits' = [waits EXCEPT ![t] = NULL]
  BY LockAssumption DEF LockInv, LockTypeOK, Wakes
<1>2. /\ \A u \in Thread : waits[u] # NULL <=> gil[Home[u]] = u
      /\ \A p \in Process : gil[p] # NULL => Home[gil[p]] = p
  BY DEF LockInv, WaiterHasGil
<1>3. \A u \in Thread : waits'[u] # NULL <=> gil'[Home[u]] = u
  <2> SUFFICES ASSUME NEW u \in Thread PROVE waits'[u] # NULL <=> gil'[Home[u]] = u
    OBVIOUS
  <2>1. u # NULL
    BY LockAssumption
  <2>2. CASE u = t
    BY <1>1, <2>1, <2>2
  <2>3. CASE u # t /\ Home[u] = Home[t]
    BY <1>1, <1>2, <2>1, <2>3
  <2>4. CASE Home[u] # Home[t]
    BY <1>1, <1>2, <2>4
  <2> QED  BY <2>2, <2>3, <2>4
<1>4. \A p \in Process : gil'[p] # NULL => Home[gil'[p]] = p
  BY <1>1, <1>2
<1> QED  BY <1>1, <1>2, <1>3, <1>4 DEF WaiterHasGil

LEMMA LockInvInit == Init => LockInv
BY LockAssumption DEF Init, LockInv, LockTypeOK, Exclusive, WaiterHasGil, Types

LEMMA LockAtOnceKeeps ==
  ASSUME LockInv, NEW t \in Thread, NEW cmd, NEW type \in Types, NEW l \in Lock,
         LockAtOnce(t, cmd, type, l)
  PROVE  LockInv'
<1>1. Take(t, l, type) /\ Grantable(Home[t], l, type) /\ gil' = gil /\ waits' = waits
  BY DEF LockAtOnce
<1>2. WaiterHasGil'
  BY <1>1 DEF LockInv, WaiterHasGil
<1> QED  BY <1>1, <1>2, TakeKeeps DEF LockInv, LockTypeOK

LEMMA LockLaterKeeps ==
  ASSUME LockInv, NEW t \in Thread, NEW type \in Types, NEW l \in Lock,
         LockLater(t, type, l)
  PROVE  LockInv'
<1>1. PICK w : w = [lock |-> l, type |-> type]
  OBVIOUS
<1>2. /\ gil[Home[t]] = NULL /\ gil' = [gil EXCEPT ![Home[t]] = t]
      /\ waits' = [waits EXCEPT ![t] = w] /\ held' = held /\ mine' = mine
      /\ type \in Types \ {"F_UNLCK"}
  BY <1>1 DEF LockLater, Runs
<1>3. w \in [lock : Lock, type : Types \ {"F_UNLCK"}] /\ w # NULL
  BY <1>1, <1>2, LockAssumption DEF Types
<1>4. /\ gil \in [Process -> Thread \cup {NULL}] /\ Home \in [Thread -> Process]
      /\ waits \in [Thread -> [lock : Lock, type : Types \ {"F_UNLCK"}] \cup {NULL}]
      /\ \A u \in Thread : waits[u] # NULL <=> gil[Home[u]] = u
      /\ \A p \in Process : gil[p] # NULL => Home[gil[p]] = p
  BY LockAssumption DEF LockInv, LockTypeOK, WaiterHasGil
<1>5. \A u \in Thread : waits'[u] # NULL <=> gil'[Home[u]] = u
  <2> SUFFICES ASSUME NEW u \in Thread PROVE waits'[u] # NULL <=> gil'[Home[u]] = u
    OBVIOUS
  <2>1. CASE u = t
    BY <1>2, <1>3, <1>4, <2>1
  <2>2. CASE u # t /\ Home[u] = Home[t]
    <3>1. gil[Home[u]] # u
      BY <1>2, <2>2, LockAssumption
    <3> QED  BY <1>2, <1>4, <2>2, <3>1
  <2>3. CASE Home[u] # Home[t]
    BY <1>2, <1>4, <2>3
  <2> QED  BY <2>1, <2>2, <2>3
<1>6. \A p \in Process : gil'[p] # NULL => Home[gil'[p]] = p
  BY <1>2, <1>4
<1>7. LockTypeOK'
  BY <1>2, <1>3, <1>4 DEF LockInv, LockTypeOK
<1>8. Exclusive'
  BY <1>2 DEF LockInv, Exclusive
<1> QED  BY <1>5, <1>6, <1>7, <1>8 DEF LockInv, WaiterHasGil

LEMMA GrantKeeps ==
  ASSUME LockInv, NEW t \in Thread, Grant(t) \/ LockFails(t)
  PROVE  LockInv'
<1>1. Wakes(t)
  BY DEF Grant, LockFails
<1>2. CASE Grant(t)
  <2>1. waits[t].lock \in Lock /\ waits[t].type \in Types
    BY <1>1, WakeKeeps
  <2> QED  BY <1>1, <1>2, <2>1, WakeKeeps, TakeKeeps DEF Grant, LockInv, LockTypeOK
<1>3. CASE LockFails(t)
  BY <1>1, <1>3, WakeKeeps DEF LockFails, LockInv, LockTypeOK, Exclusive
<1> QED  BY <1>2, <1>3

LEMMA UnlockKeeps ==
  ASSUME LockInv, NEW t \in Thread, Unlock(t)
  PROVE  LockInv'
<1>1. /\ held' = [held EXCEPT ![mine[t]][Home[t]] = "F_UNLCK"] /\ mine[t] \in Lock
      /\ mine' = [mine EXCEPT ![t] = NULL] /\ gil' = gil /\ waits' = waits
  BY DEF Unlock, LockInv, LockTypeOK
<1>2. held \in [Lock -> [Process -> Types]] /\ Home[t] \in Process
  BY LockAssumption DEF LockInv, LockTypeOK
<1>3. /\ held' \in [Lock -> [Process -> Types]]
      /\ \A k \in Lock, p \in Process :
           held'[k][p] = IF k = mine[t] /\ p = Home[t] THEN "F_UNLCK" ELSE held[k][p]
  BY <1>1, <1>2 DEF Types
<1>4. Exclusive'
  BY <1>3 DEF LockInv, Exclusive
<1>5. LockTypeOK'
  BY <1>1, <1>3 DEF LockInv, LockTypeOK
<1> QED  BY <1>1, <1>4, <1>5 DEF LockInv, WaiterHasGil

LEMMA LockInvariance == Spec => []LockInv
<1>1. LockInv /\ [Next]_vars => LockInv'
  <2> SUFFICES ASSUME LockInv, [Next]_vars PROVE LockInv'
    OBVIOUS
  <2>1. CASE Next
    BY <2>1, LockAtOnceKeeps, LockLaterKeeps, GrantKeeps, UnlockKeeps DEF Next
  <2>2. CASE UNCHANGED vars
    BY <2>2 DEF vars, LockInv, LockTypeOK, Exclusive, WaiterHasGil
  <2> QED  BY <2>1, <2>2
<1> QED  BY LockInvInit, <1>1, PTL DEF Spec
-----------------------------------------------------------------------------
(* What the model takes from the brick: a write lock of one process keeps  *)
(* the locks of all others out.                                            *)
LEMMA LocksExclude == Spec => []Exclusive
BY LockInvariance, PTL DEF LockInv

(* The variables keep their types.                                         *)
THEOREM LockTypeCorrect == Spec => []LockTypeOK
BY LockInvariance, PTL DEF LockInv

(* While glfs_posix_lock() waits no thread of the process runs Python, and *)
(* no second one of it waits: the one that could release what others wait  *)
(* for is stopped, whoever it is.                                          *)
OneWaits ==
  \A t \in Thread : waits[t] # NULL =>
    \A u \in Thread : Home[u] = Home[t] => ~Runs(u) /\ (waits[u] # NULL => u = t)

THEOREM WaiterStopsItsProcess == Spec => []OneWaits
<1>1. LockInv => OneWaits
  BY LockAssumption DEF LockInv, WaiterHasGil, OneWaits, Runs
<1> QED  BY <1>1, LockInvariance, PTL

(* Processes that wait for each other, in a circle or otherwise, wait for  *)
(* ever unless libgfapi gives up for one of them: no step of the program,  *)
(* of another process or of the brick ends it, since every thread that     *)
(* could unlock is stopped by the one that waits.                          *)
StaysOrFails ==
  \A D \in SUBSET Process :
    Embraced(D) => \/ Embraced(D)'
                   \/ \E t \in Thread : Home[t] \in D /\ LockFails(t)

THEOREM EmbraceStays == Spec => [][StaysOrFails]_vars
<1>1. ASSUME LockInv, [Next]_vars, NEW D \in SUBSET Process, Embraced(D),
             ~\E t \in Thread : Home[t] \in D /\ LockFails(t)
      PROVE  Embraced(D)'
  <2>1. /\ \A p \in D : gil[p] \in Thread /\ gil[p] # NULL /\ Home[gil[p]] = p
        /\ \A p \in D : waits[gil[p]] \in [lock : Lock, type : Types \ {"F_UNLCK"}]
    BY <1>1 DEF LockInv, LockTypeOK, WaiterHasGil, Embraced, Stopped
  <2>2. /\ gil \in [Process -> Thread \cup {NULL}] /\ Home \in [Thread -> Process]
        /\ waits \in [Thread -> [lock : Lock, type : Types \ {"F_UNLCK"}] \cup {NULL}]
        /\ held \in [Lock -> [Process -> Types]]
    BY <1>1, LockAssumption DEF LockInv, LockTypeOK
  <2>3. ASSUME NEW t \in Thread, Home[t] \notin D,
               \A p \in Process \ {Home[t]} : gil'[p] = gil[p],
               \A u \in Thread \ {t} : waits'[u] = waits[u],
               \A l \in Lock, p \in Process \ {Home[t]} : held'[l][p] = held[l][p]
        PROVE  Embraced(D)'
    <3>1. \A p \in D : /\ gil'[p] = gil[p] /\ waits'[gil[p]] = waits[gil[p]]
                       /\ \A l \in Lock : held'[l][p] = held[l][p]
      BY <2>1, <2>3
    <3>2. \A p \in D : Stopped(p)'
      BY <2>1, <3>1 DEF Stopped
    <3>3. ASSUME NEW p \in D PROVE \E q \in D \ {p} : Blocks(q, waits[gil[p]])'
      <4>1. PICK q \in D \ {p} : Blocks(q, waits[gil[p]])
        BY <1>1 DEF Embraced
      <4>2. PICK w : w = waits[gil[p]]
        OBVIOUS
      <4>3. w.lock \in Lock /\ waits'[gil'[p]] = w
        BY <2>1, <3>1, <4>2
      <4>4. Blocks(q, w)'
        BY <3>1, <4>1, <4>2, <4>3 DEF Blocks
      <4>5. Blocks(q, waits[gil[p]])'
        BY <4>3, <4>4 DEF Blocks
      <4> QED  BY <4>5
    <3> QED  BY <3>2, <3>3 DEF Embraced
  <2>4. ASSUME NEW t \in Thread, Runs(t) PROVE Home[t] \notin D
    BY <2>1, <2>4 DEF Runs
  <2>5. ASSUME NEW t \in Thread, NEW cmd, NEW type \in Types, NEW l \in Lock,
               LockAtOnce(t, cmd, type, l)
        PROVE  Embraced(D)'
    BY <2>2, <2>3, <2>4, <2>5 DEF LockAtOnce, Take
  <2>6. ASSUME NEW t \in Thread, NEW type \in Types, NEW l \in Lock, LockLater(t, type, l)
        PROVE  Embraced(D)'
    BY <2>2, <2>3, <2>4, <2>6 DEF LockLater
  <2>7. ASSUME NEW t \in Thread, Grant(t) PROVE Embraced(D)'
    <3>1. Home[t] \notin D
      <4> SUFFICES ASSUME Home[t] \in D PROVE FALSE
        OBVIOUS
      <4>1. gil[Home[t]] = t
        BY <1>1, <2>7 DEF Grant, Wakes, LockInv, WaiterHasGil
      <4>2. PICK q \in D \ {Home[t]} : Blocks(q, waits[t])
        BY <1>1, <4>1 DEF Embraced
      <4> QED  BY <2>7, <4>2 DEF Grant, Grantable, Blocks
    <3> QED  BY <2>2, <2>3, <2>7, <3>1 DEF Grant, Wakes, Take
  <2>8. ASSUME NEW t \in Thread, LockFails(t) PROVE Embraced(D)'
    BY <1>1, <2>2, <2>3, <2>8 DEF LockFails, Wakes
  <2>9. ASSUME NEW t \in Thread, Unlock(t) PROVE Embraced(D)'
    <3>1. mine[t] \in Lock
      BY <1>1, <2>9 DEF Unlock, LockInv, LockTypeOK
    <3> QED  BY <2>2, <2>3, <2>4, <2>9, <3>1 DEF Unlock
  <2>10. CASE UNCHANGED vars
    BY <1>1, <2>10 DEF vars, Embraced, Stopped, Blocks
  <2> QED  BY <1>1, <2>5, <2>6, <2>7, <2>8, <2>9, <2>10 DEF Next
<1>2. LockInv /\ [Next]_vars => [StaysOrFails]_vars
  BY <1>1 DEF StaysOrFails
<1> QED  BY <1>2, LockInvariance, PTL DEF Spec
=============================================================================
