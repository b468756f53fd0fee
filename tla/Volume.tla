-------------------------------- MODULE Volume --------------------------------
(***************************************************************************)
(* One pyglfs.Volume object from Volume.__new__() to its deallocation:     *)
(* the array of volfile servers, the list of translators and the glfs_t    *)
(* it keeps, when __init__() is called again, after a failure or from two  *)
(* threads, and while other methods use its glfs_t.                        *)
(*                                                                         *)
(* The GIL is released in three places: for glfs_init(), for the libgfapi  *)
(* call of a method, and for the glfs_fini() of the deallocation; the code *)
(* between them is one action.                                             *)
(***************************************************************************)
EXTENDS Integers, FiniteSetsExt

CONSTANTS
  Thread,
  Servers,     \* the values of the argument volfile_servers that are in order
  Count(_),    \* how many servers each one names
  List,        \* Python lists of translators
  Block,       \* places for the arrays of volfile servers ...
  Mount,       \* ... and for the glfs_t: they bound the calls of __init__()
  NULL         \* the C null pointer, None

ASSUME VolumeAssumption ==
  /\ \A s \in Servers : Count(s) \in Nat
  /\ NULL \notin Servers \cup List \cup Block \cup Mount

(* The fields of the Volume.                                               *)
VARIABLES
  volfile_servers,  \* an array or NULL
  srv_cnt,
  xlators,          \* a list, not counted as a reference, or NULL
  fs                \* a glfs_t or NULL

VARIABLES
  heap,        \* what is in each array that is allocated, or NULL
  mounts,      \* what each glfs_t that is not finished was configured with
  lists,       \* the lists that exist, because the program keeps them
  call,        \* what each thread is in: "python", "glfs_init", "method", "fini"
  local,       \* the glfs_t in its local variable fs, or read from self->fs
  arg,         \* the list its call of __init__() was given
  freed,       \* the Volume is deallocated
  wild         \* memory was read that is not there: anything may follow

(* History: the glfs_t made last; the ones another took the place of; the  *)
(* arrays another took the place of.                                       *)
VARIABLES newest, replaced, leaked

fields == <<volfile_servers, srv_cnt, xlators, fs>>
threads == <<call, local, arg>>
vars == <<fields, heap, mounts, lists, threads, freed, wild, newest, replaced, leaked>>
-----------------------------------------------------------------------------
Open == {m \in Mount : mounts[m] # NULL}

Allocated == {b \in Block : heap[b] # NULL}

Init ==
  /\ volfile_servers = NULL /\ srv_cnt = 0 /\ xlators = NULL /\ fs = NULL
  /\ heap = [b \in Block |-> NULL]
  /\ mounts = [m \in Mount |-> NULL]
  /\ lists = List
  /\ call = [t \in Thread |-> "python"]
  /\ local = [t \in Thread |-> NULL] /\ arg = [t \in Thread |-> NULL]
  /\ freed = FALSE /\ wild = FALSE
  /\ newest = NULL /\ replaced = {} /\ leaked = {}

InPython(t) == ~freed /\ call[t] = "python"

(* The program gives __init__() a list that it keeps, or none.             *)
Given(x) == x \in lists \cup {NULL}

(* Faulty: the array before is dropped before the entries are checked.     *)
FillFailsLate(t, x, badProto) ==
  /\ InPython(t) /\ Given(x)
  /\ xlators' = x
  /\ volfile_servers' = NULL /\ srv_cnt' = 0
  /\ leaked' = leaked \cup ({volfile_servers} \ {NULL})
  /\ wild' = badProto
  /\ UNCHANGED <<fs, heap, mounts, lists, threads, freed, newest, replaced>>

(* py_glfs_init() with servers that py_glfs_init_fill_volfile() refuses:   *)
(* the translators are taken all the same.  An entry whose proto is not a  *)
(* string gets past the test of host, and strcmp() reads a null pointer.   *)
FillFails(t, x, badProto) ==
  /\ InPython(t) /\ Given(x)
  /\ xlators' = x
  /\ wild' = badProto
  /\ UNCHANGED <<volfile_servers, srv_cnt, fs, heap, mounts, lists, threads, freed,
                 newest, replaced, leaked>>

(* py_glfs_init_fill_volfile(): the array before is not freed.             *)
Fill(x, s, b) ==
  /\ Given(x) /\ xlators' = x
  /\ heap[b] = NULL
  /\ heap' = [heap EXCEPT ![b] = s]
  /\ volfile_servers' = b /\ srv_cnt' = Count(s)
  /\ leaked' = leaked \cup ({volfile_servers} \ {NULL})

(* glfs_new() fails.                                                       *)
NewFails(t, x, s, b) ==
  /\ InPython(t)
  /\ Fill(x, s, b)
  /\ newest' = NULL
  /\ UNCHANGED <<fs, mounts, lists, threads, freed, wild, replaced>>

(* A server or the log file is refused, and the glfs_t finished.           *)
ConfigureFails(t, x, s, b, m) ==
  /\ InPython(t)
  /\ Fill(x, s, b)
  /\ mounts[m] = NULL
  /\ newest' = m
  /\ UNCHANGED <<fs, mounts, lists, threads, freed, wild, replaced>>

(* Faulty: the pointer to the array that was freed is kept.                *)
XlatorsRefusedKeeping(t, x, s, b, m) ==
  /\ InPython(t)
  /\ Given(x) /\ x # NULL /\ xlators' = x
  /\ heap[b] = NULL /\ mounts[m] = NULL
  /\ volfile_servers' = b /\ srv_cnt' = Count(s)
  /\ leaked' = leaked \cup ({volfile_servers} \ {NULL})
  /\ newest' = m
  /\ UNCHANGED <<fs, heap, mounts, lists, threads, freed, wild, replaced>>

(* set_xlators() fails: the array is freed, its count stays.               *)
XlatorsRefused(t, x, s, b, m) ==
  /\ InPython(t)
  /\ Given(x) /\ x # NULL /\ xlators' = x
  /\ heap[b] = NULL /\ mounts[m] = NULL
  /\ volfile_servers' = NULL /\ srv_cnt' = Count(s)
  /\ leaked' = leaked \cup ({volfile_servers} \ {NULL})
  /\ newest' = m
  /\ UNCHANGED <<fs, heap, mounts, lists, threads, freed, wild, replaced>>

(* An entry of the list is a tuple of more than three strings: set_xlator() *)
(* raises, goes on and writes behind the end of its array p.               *)
XlatorsOverrun(t, x, s, b, m) ==
  /\ InPython(t)
  /\ Fill(x, s, b)
  /\ x # NULL /\ mounts[m] = NULL
  /\ newest' = m
  /\ wild' = TRUE
  /\ UNCHANGED <<fs, mounts, lists, threads, freed, replaced>>

(* All is accepted, and glfs_init() runs without the GIL.                  *)
Begin(t, x, s, b, m) ==
  /\ InPython(t)
  /\ Fill(x, s, b)
  /\ mounts[m] = NULL
  /\ mounts' = [mounts EXCEPT ![m] = s]
  /\ newest' = m
  /\ call' = [call EXCEPT ![t] = "glfs_init"]
  /\ local' = [local EXCEPT ![t] = m] /\ arg' = [arg EXCEPT ![t] = x]
  /\ UNCHANGED <<fs, lists, freed, wild, replaced>>

ToPython(t) ==
  /\ call' = [call EXCEPT ![t] = "python"]
  /\ local' = [local EXCEPT ![t] = NULL] /\ arg' = [arg EXCEPT ![t] = NULL]

(* Faulty: the glfs_t before is finished.                                  *)
ReadyFinishing(t) ==
  /\ call[t] = "glfs_init"
  /\ fs' = local[t]
  /\ mounts' = [m \in Mount |-> IF m = fs THEN NULL ELSE mounts[m]]
  /\ ToPython(t)
  /\ UNCHANGED <<volfile_servers, srv_cnt, xlators, heap, lists, freed, wild, newest,
                 replaced, leaked>>

(* glfs_init() and glfs_get_volumeid() succeed.  Nothing finishes the      *)
(* glfs_t that was there before.                                           *)
Ready(t) ==
  /\ call[t] = "glfs_init"
  /\ fs' = local[t]
  /\ replaced' = replaced \cup ({fs} \ {NULL})
  /\ ToPython(t)
  /\ UNCHANGED <<volfile_servers, srv_cnt, xlators, heap, mounts, lists, freed, wild,
                 newest, leaked>>

(* Faulty: glfs_fini() of self->fs.                                        *)
InitFailsSelf(t) ==
  /\ call[t] = "glfs_init"
  /\ mounts' = [m \in Mount |-> IF m = fs THEN NULL ELSE mounts[m]]
  /\ ToPython(t)
  /\ UNCHANGED <<fields, heap, lists, freed, wild, newest, replaced, leaked>>

(* One of them fails, and the new glfs_t is finished.                      *)
InitFails(t) ==
  /\ call[t] = "glfs_init"
  /\ mounts' = [mounts EXCEPT ![local[t]] = NULL]
  /\ ToPython(t)
  /\ UNCHANGED <<fields, heap, lists, freed, wild, newest, replaced, leaked>>
-----------------------------------------------------------------------------
(* get_root_handle(), open_by_uuid() and getcwd() pass self->fs to         *)
(* libgfapi, which refuses NULL.                                           *)
BeginMethod(t) ==
  /\ InPython(t)
  /\ fs # NULL
  /\ call' = [call EXCEPT ![t] = "method"] /\ local' = [local EXCEPT ![t] = fs]
  /\ UNCHANGED <<fields, heap, mounts, lists, arg, freed, wild, newest, replaced, leaked>>

EndMethod(t) ==
  /\ call[t] = "method"
  /\ ToPython(t)
  /\ UNCHANGED <<fields, heap, mounts, lists, freed, wild, newest, replaced, leaked>>

(* Volume.volfile_servers reads srv_cnt entries of the array.              *)
GetServers(t) ==
  /\ InPython(t)
  /\ wild' = (srv_cnt > 0 /\ volfile_servers \notin Allocated)
  /\ UNCHANGED <<fields, heap, mounts, lists, threads, freed, newest, replaced, leaked>>

(* Volume.xlators reads the list, which may be gone.                       *)
GetXlators(t) ==
  /\ InPython(t)
  /\ wild' = (xlators # NULL /\ xlators \notin lists)
  /\ UNCHANGED <<fields, heap, mounts, lists, threads, freed, newest, replaced, leaked>>

(* The program lets go of a list, and no call of __init__() holds it.      *)
DropList(x) ==
  /\ x \in lists
  /\ \A t \in Thread : arg[t] # x
  /\ lists' = lists \ {x}
  /\ UNCHANGED <<fields, heap, mounts, threads, freed, wild, newest, replaced, leaked>>

(* Faulty: the object goes although a call of __init__() or a method runs.  *)
BeginDeallocEarly(t) ==
  /\ InPython(t)
  /\ freed' = TRUE
  /\ heap' = [b \in Block |-> IF b = volfile_servers THEN NULL ELSE heap[b]]
  /\ volfile_servers' = NULL
  /\ call' = [call EXCEPT ![t] = IF fs = NULL THEN "python" ELSE "fini"]
  /\ wild' = (volfile_servers \notin Allocated \cup {NULL})
  /\ UNCHANGED <<srv_cnt, xlators, fs, mounts, lists, local, arg, newest, replaced, leaked>>

(* py_glfs_dealloc(): no thread is in a method of the Volume.              *)
BeginDealloc(t) ==
  /\ InPython(t)
  /\ \A u \in Thread : call[u] = "python"
  /\ freed' = TRUE
  /\ heap' = [b \in Block |-> IF b = volfile_servers THEN NULL ELSE heap[b]]
  /\ volfile_servers' = NULL
  /\ call' = [call EXCEPT ![t] = IF fs = NULL THEN "python" ELSE "fini"]
  /\ wild' = (volfile_servers \notin Allocated \cup {NULL})
  /\ UNCHANGED <<srv_cnt, xlators, fs, mounts, lists, local, arg, newest, replaced, leaked>>

EndDealloc(t) ==
  /\ call[t] = "fini"
  /\ mounts' = [mounts EXCEPT ![fs] = NULL]
  /\ fs' = NULL
  /\ ToPython(t)
  /\ UNCHANGED <<volfile_servers, srv_cnt, xlators, heap, lists, freed, wild, newest,
                 replaced, leaked>>

CallInit(t) ==
  \E x \in List \cup {NULL} :
    \/ \E badProto \in BOOLEAN : FillFails(t, x, badProto)
    \/ \E s \in Servers, b \in Block :
         \/ NewFails(t, x, s, b)
         \/ \E m \in Mount : \/ ConfigureFails(t, x, s, b, m)
                             \/ XlatorsRefused(t, x, s, b, m)
                             \/ XlatorsOverrun(t, x, s, b, m)
                             \/ Begin(t, x, s, b, m)

Next ==
  /\ ~wild
  /\ \/ \E t \in Thread :
          \/ CallInit(t) \/ Ready(t) \/ InitFails(t)
          \/ BeginMethod(t) \/ EndMethod(t) \/ GetServers(t) \/ GetXlators(t)
          \/ BeginDealloc(t) \/ EndDealloc(t)
     \/ \E x \in List : DropList(x)

Spec == Init /\ [][Next]_vars
-----------------------------------------------------------------------------
(* The type of every variable.                                             *)
VolTypeOK ==
  /\ volfile_servers \in Block \cup {NULL} /\ srv_cnt \in Nat
  /\ xlators \in List \cup {NULL} /\ fs \in Mount \cup {NULL}
  /\ heap \in [Block -> Servers \cup {NULL}]
  /\ mounts \in [Mount -> Servers \cup {NULL}]
  /\ lists \subseteq List
  /\ call \in [Thread -> {"python", "glfs_init", "method", "fini"}]
  /\ local \in [Thread -> Mount \cup {NULL}] /\ arg \in [Thread -> List \cup {NULL}]
  /\ \A t \in Thread : call[t] = "glfs_init" => local[t] # NULL /\ ~freed
  /\ freed \in BOOLEAN /\ wild \in BOOLEAN
  /\ newest \in Mount \cup {NULL} /\ replaced \subseteq Mount /\ leaked \subseteq Block

Starting == {t \in Thread : call[t] = "glfs_init"}

(* Every glfs_t that was made and is not finished is the Volume's, or that *)
(* of a call of __init__() that has not returned, or was replaced by a     *)
(* later call; and it is so only once, so that none is finished twice, on  *)
(* any failure and with any two calls overlapping.                         *)
MountsOwned ==
  /\ Open = ({fs} \ {NULL}) \cup {local[t] : t \in Starting} \cup replaced
  /\ fs \notin replaced
  /\ \A t \in Starting : local[t] \notin replaced \cup {fs}
  /\ \A t, u \in Starting : t # u => local[t] # local[u]

(* A method that runs without the GIL keeps the glfs_t it read open, even  *)
(* when another thread gives the Volume a new one meanwhile.               *)
MethodMountOpen == \A t \in Thread : call[t] = "method" => local[t] \in Open

(* The arrays that are allocated are the Volume's and those that __init__  *)
(* forgot when it was called again, and srv_cnt counts the Volume's array. *)
(* It counts servers with no array, which the getter of volfile_servers    *)
(* then reads, only while the last call of __init__() is one that failed.  *)
ServersOwned ==
  /\ Allocated = ({volfile_servers} \ {NULL}) \cup leaked
  /\ volfile_servers \notin leaked
  /\ volfile_servers # NULL => srv_cnt = Count(heap[volfile_servers])
  /\ (volfile_servers = NULL /\ srv_cnt > 0 /\ ~freed) => newest \notin Open

(* The servers that the Volume lists are those that its glfs_t was given,  *)
(* unless another call of __init__() came after the one that made it.      *)
ServersOfMount ==
  (fs # NULL /\ fs = newest /\ ~freed) =>
     /\ volfile_servers # NULL
     /\ heap[volfile_servers] = mounts[fs]
=============================================================================
