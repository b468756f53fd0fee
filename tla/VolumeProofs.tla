----------------------------- MODULE VolumeProofs -----------------------------
(* Proofs about Volume, for every set of threads, servers and lists and    *)
(* any number of calls of __init__().                                      *)
EXTENDS Volume, TLAPS

(* A method has read a glfs_t that is still in self->fs or was replaced.   *)
MethodInv == \A t \in Thread : call[t] = "method" => local[t] \in ({fs} \ {NULL}) \cup replaced

(* After the deallocation has begun there is nothing but its glfs_fini().  *)
EndInv ==
  /\ freed => \A t \in Thread : call[t] \in {"python", "fini"}
  /\ \A t \in Thread : call[t] = "fini" => freed /\ fs # NULL
  /\ \A t, u \in Thread : call[t] = "fini" /\ call[u] = "fini" => t = u

ArraysInv ==
  /\ Allocated = ({volfile_servers} \ {NULL}) \cup leaked
  /\ volfile_servers \notin leaked
  /\ volfile_servers # NULL => srv_cnt = Count(heap[volfile_servers])

(* While the glfs_t made last is open, be it started, in use or replaced,  *)
(* the array is the one it was configured with.                            *)
NewestInv ==
  (newest \in Open /\ ~freed) =>
     volfile_servers # NULL /\ heap[volfile_servers] = mounts[newest]

VInv == VolTypeOK /\ MountsOwned /\ MethodInv /\ EndInv /\ ArraysInv /\ NewestInv
-----------------------------------------------------------------------------
LEMMA InitVInv == Init => VInv
<1> SUFFICES ASSUME Init PROVE VInv
  OBVIOUS
<1>0. Open = {} /\ Allocated = {} /\ Starting = {}
  BY DEF Init, Open, Allocated, Starting
<1>1. VolTypeOK
  BY DEF Init, VolTypeOK
<1>2. MountsOwned
  BY <1>0 DEF Init, MountsOwned
<1>3. MethodInv /\ EndInv
  BY DEF Init, MethodInv, EndInv
<1>4. ArraysInv /\ NewestInv
  BY <1>0 DEF Init, ArraysInv, NewestInv
<1> QED
  BY <1>1, <1>2, <1>3, <1>4 DEF VInv

LEMMA FillKeeps ==
  ASSUME VInv, NEW x \in List \cup {NULL}, NEW s \in Servers, NEW b \in Block, Fill(x, s, b)
  PROVE  /\ volfile_servers' \in Block /\ srv_cnt' \in Nat /\ xlators' \in List \cup {NULL}
         /\ heap' \in [Block -> Servers \cup {NULL}] /\ leaked' \subseteq Block
         /\ ArraysInv'
         /\ heap'[volfile_servers'] = s
BY VolumeAssumption DEF Fill, VInv, VolTypeOK, ArraysInv, Allocated

LEMMA FillFailsKeeps ==
  ASSUME VInv, NEW t \in Thread, NEW x \in List \cup {NULL}, NEW badProto \in BOOLEAN,
         FillFails(t, x, badProto)
  PROVE  VInv'
BY DEF FillFails, VInv, VolTypeOK, MountsOwned, MethodInv, EndInv, ArraysInv, NewestInv,
   Open, Allocated, Starting, threads

LEMMA NewFailsKeeps ==
  ASSUME VInv, NEW t \in Thread, NEW x \in List \cup {NULL}, NEW s \in Servers, NEW b \in Block,
         NewFails(t, x, s, b)
  PROVE  VInv'
BY FillKeeps, VolumeAssumption DEF NewFails, VInv, VolTypeOK, MountsOwned, MethodInv, EndInv,
   NewestInv, Open, Starting, threads

LEMMA ConfigureFailsKeeps ==
  ASSUME VInv, NEW t \in Thread, NEW x \in List \cup {NULL}, NEW s \in Servers,
         NEW b \in Block, NEW m \in Mount,
         ConfigureFails(t, x, s, b, m)
  PROVE  VInv'
<1>1. VolTypeOK' /\ ArraysInv'
  BY FillKeeps DEF ConfigureFails, VInv, VolTypeOK, threads
<1>2. MountsOwned' /\ MethodInv' /\ EndInv'
  BY DEF ConfigureFails, VInv, MountsOwned, MethodInv, EndInv, Open, Starting, threads
<1>3. NewestInv'
  BY DEF ConfigureFails, NewestInv, Open
<1> QED
  BY <1>1, <1>2, <1>3 DEF VInv

LEMMA XlatorsRefusedKeeps ==
  ASSUME VInv, NEW t \in Thread, NEW x \in List \cup {NULL}, NEW s \in Servers,
         NEW b \in Block, NEW m \in Mount,
         XlatorsRefused(t, x, s, b, m)
  PROVE  VInv'
<1>1. VolTypeOK'
  BY VolumeAssumption DEF XlatorsRefused, VInv, VolTypeOK, threads
<1>2. MountsOwned' /\ MethodInv' /\ EndInv'
  BY DEF XlatorsRefused, VInv, MountsOwned, MethodInv, EndInv, Open, Starting, threads
<1>3. ArraysInv'
  BY VolumeAssumption DEF XlatorsRefused, VInv, VolTypeOK, ArraysInv, Allocated
<1>4. NewestInv'
  BY DEF XlatorsRefused, NewestInv, Open
<1> QED
  BY <1>1, <1>2, <1>3, <1>4 DEF VInv

LEMMA XlatorsOverrunKeeps ==
  ASSUME VInv, NEW t \in Thread, NEW x \in List \cup {NULL}, NEW s \in Servers,
         NEW b \in Block, NEW m \in Mount,
         XlatorsOverrun(t, x, s, b, m)
  PROVE  VInv'
<1>1. VolTypeOK' /\ ArraysInv'
  BY FillKeeps DEF XlatorsOverrun, VInv, VolTypeOK, threads
<1>2. MountsOwned' /\ MethodInv' /\ EndInv'
  BY DEF XlatorsOverrun, VInv, MountsOwned, MethodInv, EndInv, Open, Starting, threads
<1>3. NewestInv'
  BY DEF XlatorsOverrun, NewestInv, Open
<1> QED
  BY <1>1, <1>2, <1>3 DEF VInv

LEMMA BeginKeeps ==
  ASSUME VInv, NEW t \in Thread, NEW x \in List \cup {NULL}, NEW s \in Servers,
         NEW b \in Block, NEW m \in Mount,
         Begin(t, x, s, b, m)
  PROVE  VInv'
<1>1. VolTypeOK' /\ ArraysInv'
  BY FillKeeps, VolumeAssumption DEF Begin, VInv, VolTypeOK, InPython
<1>2. Open' = Open \cup {m} /\ m \notin Open
  BY VolumeAssumption DEF Begin, VInv, VolTypeOK, Open
<1>3. Starting' = Starting \cup {t} /\ t \notin Starting
  BY DEF Begin, VInv, VolTypeOK, InPython, Starting
<1>4. /\ local'[t] = m
      /\ \A u \in Starting : local'[u] = local[u]
      /\ \A u \in Starting : local[u] # m
  BY <1>2, <1>3 DEF Begin, VInv, VolTypeOK, MountsOwned, Starting
<1>5. MountsOwned'
  <2>1. {local'[u] : u \in Starting'} = {local[u] : u \in Starting} \cup {m}
    BY <1>3, <1>4
  <2>2. fs' = fs /\ replaced' = replaced /\ m \notin replaced \cup {fs}
    BY <1>2, VolumeAssumption DEF Begin, VInv, MountsOwned, VolTypeOK
  <2>3. Open' = ({fs'} \ {NULL}) \cup {local'[u] : u \in Starting'} \cup replaced'
    BY <1>2, <2>1, <2>2 DEF VInv, MountsOwned
  <2> QED
    BY <1>3, <1>4, <2>2, <2>3 DEF VInv, MountsOwned
<1>6. MethodInv' /\ EndInv'
  BY DEF Begin, VInv, VolTypeOK, MethodInv, EndInv, InPython
<1>7. NewestInv'
  BY FillKeeps, VolumeAssumption DEF Begin, VInv, VolTypeOK, NewestInv
<1> QED
  BY <1>1, <1>5, <1>6, <1>7 DEF VInv

LEMMA ReadyKeeps ==
  ASSUME VInv, NEW t \in Thread,
         Ready(t)
  PROVE  VInv'
<1>1. VolTypeOK'
  BY DEF Ready, ToPython, VInv, VolTypeOK
<1>2. Open' = Open /\ Allocated' = Allocated
  BY DEF Ready, Open, Allocated
<1>3. Starting' = Starting \ {t} /\ t \in Starting /\ fs' = local[t] /\ local[t] # NULL
  BY DEF Ready, ToPython, VInv, VolTypeOK, Starting
<1>4. \A u \in Starting' : local'[u] = local[u]
  BY <1>3 DEF Ready, ToPython, VInv, VolTypeOK, Starting
<1>5. MountsOwned'
  <2>1. {local[u] : u \in Starting} = {local'[u] : u \in Starting'} \cup {fs'}
    BY <1>3, <1>4
  <2>2. replaced' = replaced \cup ({fs} \ {NULL})
    BY DEF Ready
  <2>3. Open' = ({fs'} \ {NULL}) \cup {local'[u] : u \in Starting'} \cup replaced'
    BY <1>2, <1>3, <2>1, <2>2 DEF VInv, MountsOwned
  <2> QED
    BY <1>3, <1>4, <2>2, <2>3 DEF VInv, MountsOwned
<1>6. MethodInv' /\ EndInv'
  BY DEF Ready, ToPython, VInv, VolTypeOK, MethodInv, EndInv
<1>7. ArraysInv' /\ NewestInv'
  BY <1>2 DEF Ready, VInv, ArraysInv, NewestInv
<1> QED
  BY <1>1, <1>5, <1>6, <1>7 DEF VInv

LEMMA InitFailsKeeps ==
  ASSUME VInv, NEW t \in Thread,
         InitFails(t)
  PROVE  VInv'
<1>1. VolTypeOK'
  BY DEF InitFails, ToPython, VInv, VolTypeOK, fields
<1>2. Open' = Open \ {local[t]}
  BY VolumeAssumption DEF InitFails, VInv, VolTypeOK, Open
<1>3. Starting' = Starting \ {t} /\ t \in Starting
  BY DEF InitFails, ToPython, VInv, VolTypeOK, Starting
<1>4. \A u \in Starting' : local'[u] = local[u]
  BY <1>3 DEF InitFails, ToPython, VInv, VolTypeOK, Starting
<1>5. fs' = fs /\ replaced' = replaced /\ local[t] \notin replaced \cup {fs}
  BY <1>3 DEF InitFails, fields, VInv, MountsOwned
<1>6. MountsOwned'
  <2>1. {local'[u] : u \in Starting'} = {local[u] : u \in Starting} \ {local[t]}
    BY <1>3, <1>4 DEF VInv, MountsOwned
  <2>2. Open' = ({fs'} \ {NULL}) \cup {local'[u] : u \in Starting'} \cup replaced'
    BY <1>2, <1>5, <2>1 DEF VInv, MountsOwned
  <2> QED
    BY <1>3, <1>4, <1>5, <2>2 DEF VInv, MountsOwned
<1>7. MethodInv' /\ EndInv'
  BY DEF InitFails, ToPython, fields, VInv, VolTypeOK, MethodInv, EndInv
<1>8. ArraysInv'
  BY DEF InitFails, fields, VInv, ArraysInv, Allocated
<1>9. NewestInv'
  BY <1>2 DEF InitFails, fields, VInv, VolTypeOK, NewestInv, Open
<1> QED
  BY <1>1, <1>6, <1>7, <1>8, <1>9 DEF VInv

LEMMA BeginMethodKeeps ==
  ASSUME VInv, NEW t \in Thread,
         BeginMethod(t)
  PROVE  VInv'
<1>1. VolTypeOK'
  BY DEF BeginMethod, InPython, fields, VInv, VolTypeOK
<1>2. Open' = Open /\ Allocated' = Allocated
  BY DEF BeginMethod, Open, Allocated
<1>3. Starting' = Starting /\ \A u \in Starting : local'[u] = local[u]
  BY DEF BeginMethod, InPython, VInv, VolTypeOK, Starting
<1>4. MountsOwned'
  <2>1. {local'[u] : u \in Starting'} = {local[u] : u \in Starting}
    BY <1>3
  <2> QED
    BY <1>2, <1>3, <2>1 DEF BeginMethod, fields, VInv, MountsOwned
<1>5. MethodInv' /\ EndInv'
  BY DEF BeginMethod, InPython, fields, VInv, VolTypeOK, MethodInv, EndInv
<1>6. ArraysInv' /\ NewestInv'
  BY <1>2 DEF BeginMethod, fields, VInv, ArraysInv, NewestInv
<1> QED
  BY <1>1, <1>4, <1>5, <1>6 DEF VInv

LEMMA EndMethodKeeps ==
  ASSUME VInv, NEW t \in Thread,
         EndMethod(t)
  PROVE  VInv'
<1>1. VolTypeOK'
  BY DEF EndMethod, ToPython, InPython, fields, VInv, VolTypeOK
<1>2. Open' = Open /\ Allocated' = Allocated
  BY DEF EndMethod, Open, Allocated
<1>3. Starting' = Starting /\ \A u \in Starting : local'[u] = local[u]
  BY DEF EndMethod, ToPython, InPython, VInv, VolTypeOK, Starting
<1>4. MountsOwned'
  <2>1. {local'[u] : u \in Starting'} = {local[u] : u \in Starting}
    BY <1>3
  <2> QED
    BY <1>2, <1>3, <2>1 DEF EndMethod, fields, VInv, MountsOwned
<1>5. MethodInv' /\ EndInv'
  BY DEF EndMethod, ToPython, InPython, fields, VInv, VolTypeOK, MethodInv, EndInv
<1>6. ArraysInv' /\ NewestInv'
  BY <1>2 DEF EndMethod, fields, VInv, ArraysInv, NewestInv
<1> QED
  BY <1>1, <1>4, <1>5, <1>6 DEF VInv

(* The getters and the program's own lists change nothing of it.           *)
LEMMA ReadsKeep ==
  ASSUME VInv,
         \/ \E t \in Thread : GetServers(t) \/ GetXlators(t)
         \/ \E x \in List : DropList(x)
  PROVE  VInv'
<1>1. /\ UNCHANGED <<volfile_servers, srv_cnt, xlators, fs, heap, mounts, call, local, arg,
                     freed, newest, replaced, leaked>>
      /\ lists' \subseteq lists /\ wild' \in BOOLEAN
  BY DEF GetServers, GetXlators, DropList, fields, threads, VInv, VolTypeOK
<1>2. VolTypeOK'
  BY <1>1 DEF VInv, VolTypeOK
<1>3. Open' = Open /\ Allocated' = Allocated /\ Starting' = Starting
  BY <1>1 DEF Open, Allocated, Starting
<1> QED
  BY <1>1, <1>2, <1>3 DEF VInv, MountsOwned, MethodInv, EndInv, ArraysInv, NewestInv

LEMMA BeginDeallocKeeps ==
  ASSUME VInv, NEW t \in Thread,
         BeginDealloc(t)
  PROVE  VInv'
<1>1. VolTypeOK'
  BY DEF BeginDealloc, VInv, VolTypeOK
<1>2. Open' = Open /\ Starting' = {} /\ Starting = {}
  BY DEF BeginDealloc, VInv, VolTypeOK, Open, Starting
<1>3. MountsOwned'
  BY <1>2 DEF BeginDealloc, VInv, MountsOwned
<1>4. MethodInv' /\ EndInv'
  BY DEF BeginDealloc, VInv, VolTypeOK, MethodInv, EndInv
<1>5. ArraysInv'
  BY VolumeAssumption DEF BeginDealloc, VInv, VolTypeOK, ArraysInv, Allocated
<1>6. NewestInv'
  BY DEF BeginDealloc, NewestInv
<1> QED
  BY <1>1, <1>3, <1>4, <1>5, <1>6 DEF VInv

LEMMA EndDeallocKeeps ==
  ASSUME VInv, NEW t \in Thread,
         EndDealloc(t)
  PROVE  VInv'
<1>0. freed /\ fs # NULL
  BY DEF EndDealloc, VInv, EndInv
<1>1. VolTypeOK'
  BY <1>0 DEF EndDealloc, ToPython, VInv, VolTypeOK
<1>2. Open' = Open \ {fs}
  BY <1>0, VolumeAssumption DEF EndDealloc, VInv, VolTypeOK, Open
<1>3. Starting' = {} /\ Starting = {}
  BY <1>0 DEF EndDealloc, ToPython, VInv, VolTypeOK, EndInv, Starting
<1>4. MountsOwned'
  BY <1>2, <1>3, VolumeAssumption DEF EndDealloc, VInv, VolTypeOK, MountsOwned
<1>5. MethodInv' /\ EndInv'
  BY <1>0 DEF EndDealloc, ToPython, VInv, VolTypeOK, MethodInv, EndInv
<1>6. ArraysInv' /\ NewestInv'
  BY <1>0 DEF EndDealloc, VInv, ArraysInv, NewestInv, Allocated
<1> QED
  BY <1>1, <1>4, <1>5, <1>6 DEF VInv
-----------------------------------------------------------------------------
LEMMA StepKeeps == VInv /\ [Next]_vars => VInv'
<1> SUFFICES ASSUME VInv, [Next]_vars PROVE VInv'
  OBVIOUS
<1>1. CASE UNCHANGED vars
  BY <1>1 DEF vars, fields, threads, VInv, VolTypeOK, MountsOwned, MethodInv, EndInv,
     ArraysInv, NewestInv, Open, Allocated, Starting
<1>2. ASSUME NEW t \in Thread, CallInit(t) PROVE VInv'
  BY <1>2, FillFailsKeeps, NewFailsKeeps, ConfigureFailsKeeps, XlatorsRefusedKeeps,
     XlatorsOverrunKeeps, BeginKeeps DEF CallInit
<1>3. ASSUME NEW t \in Thread, Ready(t) \/ InitFails(t) PROVE VInv'
  BY <1>3, ReadyKeeps, InitFailsKeeps
<1>4. ASSUME NEW t \in Thread, BeginMethod(t) \/ EndMethod(t) PROVE VInv'
  BY <1>4, BeginMethodKeeps, EndMethodKeeps
<1>5. ASSUME NEW t \in Thread, BeginDealloc(t) \/ EndDealloc(t) PROVE VInv'
  BY <1>5, BeginDeallocKeeps, EndDeallocKeeps
<1> QED
  BY <1>1, <1>2, <1>3, <1>4, <1>5, ReadsKeep DEF Next

LEMMA Invariance == Spec => []VInv
BY InitVInv, StepKeeps, PTL DEF Spec
-----------------------------------------------------------------------------
(* The variables keep their types.                                         *)
THEOREM VolumeTypeCorrect == Spec => []VolTypeOK
<1>1. VInv => VolTypeOK
  BY DEF VInv
<1> QED
  BY <1>1, Invariance, PTL

(* Each glfs_t that is open has exactly one owner, however many calls of   *)
(* __init__() fail, overlap or follow one another.                         *)
THEOREM EveryMountOwned == Spec => []MountsOwned
<1>1. VInv => MountsOwned
  BY DEF VInv
<1> QED
  BY <1>1, Invariance, PTL

(* No method's glfs_t is finished while it runs without the GIL.           *)
THEOREM MethodsKeepTheirMount == Spec => []MethodMountOpen
<1>1. VInv => MethodMountOpen
  BY DEF VInv, MountsOwned, MethodInv, MethodMountOpen
<1> QED
  BY <1>1, Invariance, PTL

(* Which arrays are allocated, and when srv_cnt counts servers that are    *)
(* not there.                                                              *)
THEOREM ServerArraysOwned == Spec => []ServersOwned
<1>1. VInv => ServersOwned
  BY DEF VInv, ArraysInv, NewestInv, ServersOwned
<1> QED
  BY <1>1, Invariance, PTL

(* The Volume lists the servers of the glfs_t that it made last.           *)
THEOREM ServersAreTheMounts == Spec => []ServersOfMount
<1>1. VInv => ServersOfMount
  BY DEF VInv, MountsOwned, NewestInv, ServersOfMount
<1> QED
  BY <1>1, Invariance, PTL
=============================================================================
