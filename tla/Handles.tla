-------------------------------- MODULE Handles --------------------------------
(***************************************************************************)
(* Who keeps what alive: the Python objects of pyglfs, the references      *)
(* between them and the libgfapi handles they own.                         *)
(*                                                                         *)
(*   Volume        fs (glfs_t)              refers to nothing              *)
(*   ObjectHandle  gl_obj (glfs_object_t)   py_fs:    its Volume           *)
(*   FD            fd (glfs_fd_t)           parent:   its ObjectHandle     *)
(*   FTSHandle                              obj:      its ObjectHandle     *)
(*   FTSIterator   iter_cb (glfs_fd_t)      fts_root: its FTSHandle        *)
(*   FTSEntry                               fts_root, and obj: the         *)
(*                                          ObjectHandle of the entry      *)
(*                                                                         *)
(* Threads call methods and drop references in any order; an object that   *)
(* loses its last reference is deallocated at once, by the thread that     *)
(* dropped it.  One action is the code between two points where the GIL is *)
(* free, except that a tp_dealloc is taken field by field.  A reference    *)
(* count is kept as the set of those who took a reference.                 *)
(*                                                                         *)
(* An iterator is used by one thread at a time, and objects are made by    *)
(* the methods of others, not by calling ObjectHandle() or FD() directly.  *)
(***************************************************************************)
EXTENDS Integers, SequencesExt

CONSTANTS
  Obj,         \* places for Python objects ...
  Place,       \* ... and those an object of each type can take, which bounds
               \* how many there are at a time
  Thread,
  Python,      \* the variables and containers of the Python program
  NULL         \* the C null pointer; no one

Kinds == {"Volume", "ObjectHandle", "FD", "FTSHandle", "FTSIterator", "FTSEntry"}

ASSUME HandlesAssumption ==
  /\ Python \notin Obj \cup Thread
  /\ NULL \notin Obj \cup Thread \cup {Python}
  /\ Obj \cap Thread = {}
  /\ Place \in [Kinds -> SUBSET Obj]

VARIABLES
  kind,        \* the type of the object in a place; "none" when it is free
  refs,        \* who holds a counted reference to an object
  base,        \* the field py_fs, parent, obj or fts_root
  item,        \* FTSEntry.obj
  owns,        \* the objects whose libgfapi handle is not null
  open,        \* libgfapi handles that are open, named by the object each
               \* one was opened for
  gil,         \* the thread that holds the GIL over several steps
  frame,       \* the C function each thread is in
  dying,       \* the tp_deallocs each thread is in, the innermost last
  wild         \* Py_CLEAR was applied to a pointer that was never set

(* History: handles nothing will close, named by a place that is not used  *)
(* again; and, of the others, the glfs_t they were opened with.            *)
VARIABLES stranded, fs

objects == <<kind, refs, base, item, owns>>
native == <<open, stranded, fs>>
vars == <<objects, native, gil, frame, dying, wild>>
-----------------------------------------------------------------------------
Holders == Obj \cup Thread \cup {Python}

Alive(o) == kind[o] \in Kinds

Unused(k) == {o \in Place[k] : kind[o] = "none"}

(* self->py_fs, self->parent->py_fs, self->fts_root->obj->py_fs ...        *)
VolumeOf(o) ==
  CASE kind[o] = "Volume"       -> o
    [] kind[o] = "ObjectHandle" -> base[o]
    [] kind[o] = "FD"           -> base[base[o]]
    [] kind[o] = "FTSHandle"    -> base[base[o]]
    [] kind[o] = "FTSIterator"  -> base[base[base[o]]]
    [] OTHER                    -> NULL

(* Where a thread is: in Python, in a libgfapi call made with the GIL      *)
(* released, or on its way out of a method.                                *)
Native == {"glfs_init", "lookup", "extract", "open", "opendir", "next", "build", "use"}

Frames == [at : Native \cup {"python", "return"},
           self : Obj \cup {NULL},       \* the object whose method it is
           new : Obj \cup {NULL},        \* the object being made
           entry : Obj \cup {NULL}]      \* the FTSEntry being made for new

InPython == [at |-> "python", self |-> NULL, new |-> NULL, entry |-> NULL]

(* t may run Python code: between the steps of another thread.             *)
HasGIL(t) == gil \in {NULL, t} /\ dying[t] = <<>>

(* The program calls a method of an object it knows.                       *)
Callable(t, s, kinds) ==
  /\ HasGIL(t) /\ gil = NULL
  /\ frame[t].at = "python"
  /\ Python \in refs[s]
  /\ kind[s] \in kinds

Enter(t, s, at) ==
  /\ frame' = [frame EXCEPT ![t] = [InPython EXCEPT !.at = at, !.self = s]]
  /\ refs' = [refs EXCEPT ![s] = @ \cup {t}]

(* The libgfapi call of thread t comes back and takes the GIL.             *)
Back(t, at) == gil = NULL /\ frame[t].at = at

(* The method is over but for the reference the call holds on self.        *)
Leave(t) ==
  /\ frame' = [frame EXCEPT ![t].at = "return", ![t].new = NULL, ![t].entry = NULL]
  /\ gil' = t
-----------------------------------------------------------------------------
Init ==
  /\ kind = [o \in Obj |-> "none"]
  /\ refs = [o \in Obj |-> {}]
  /\ base = [o \in Obj |-> NULL] /\ item = [o \in Obj |-> NULL]
  /\ owns = {} /\ open = {} /\ stranded = {}
  /\ fs = [o \in Obj |-> NULL]
  /\ gil = NULL
  /\ frame = [t \in Thread |-> InPython]
  /\ dying = [t \in Thread |-> <<>>]
  /\ wild = FALSE

(* glfs.Volume(...): py_glfs_init() up to glfs_init().                     *)
NewVolume(t, v) ==
  /\ HasGIL(t) /\ gil = NULL /\ frame[t].at = "python"
  /\ v \in Unused("Volume")
  /\ kind' = [kind EXCEPT ![v] = "Volume"]
  /\ refs' = [refs EXCEPT ![v] = {t}]
  /\ open' = open \cup {v}                \* glfs_new()
  /\ fs' = [fs EXCEPT ![v] = v]
  /\ frame' = [frame EXCEPT ![t] = [InPython EXCEPT !.at = "glfs_init", !.new = v]]
  /\ UNCHANGED <<base, item, owns, gil, dying, wild, stranded>>

VolumeReady(t) ==
  /\ Back(t, "glfs_init")
  /\ LET v == frame[t].new IN
     /\ owns' = owns \cup {v}
     /\ refs' = [refs EXCEPT ![v] = {Python}]
  /\ Leave(t)
  /\ UNCHANGED <<kind, base, item, native, dying, wild>>

(* Faulty: the glfs_t is forgotten.                                        *)
VolumeFailsOpen(t) ==
  /\ Back(t, "glfs_init")
  /\ LET v == frame[t].new IN
     /\ kind' = [kind EXCEPT ![v] = "none"]
     /\ refs' = [refs EXCEPT ![v] = {}]
     /\ fs' = [fs EXCEPT ![v] = NULL]
  /\ Leave(t)
  /\ UNCHANGED <<base, item, owns, open, stranded, dying, wild>>

(* glfs_init() or glfs_get_volumeid() fails: py_glfs_init_ctx() finishes   *)
(* the glfs_t it has not yet put into the Volume.                          *)
VolumeFails(t) ==
  /\ Back(t, "glfs_init")
  /\ LET v == frame[t].new IN
     /\ open' = open \ {v}
     /\ kind' = [kind EXCEPT ![v] = "none"]
     /\ refs' = [refs EXCEPT ![v] = {}]
     /\ fs' = [fs EXCEPT ![v] = NULL]
  /\ Leave(t)
  /\ UNCHANGED <<base, item, owns, stranded, dying, wild>>

(* Volume.get_root_handle(), Volume.open_by_uuid(), ObjectHandle.lookup(), *)
(* create() and mkdir() make a glfs_object_t ...                           *)
CallLookup(t, s) ==
  /\ Callable(t, s, {"Volume", "ObjectHandle"})
  /\ Enter(t, s, "lookup")
  /\ UNCHANGED <<kind, base, item, owns, native, gil, dying, wild>>

(* ... and init_glfs_object() makes an ObjectHandle of it, releasing the   *)
(* GIL for glfs_h_extract_handle().                                        *)
Looked(t, o) ==
  /\ Back(t, "lookup")
  /\ o \in Unused("ObjectHandle")
  /\ open' = open \cup {o}
  /\ fs' = [fs EXCEPT ![o] = VolumeOf(frame[t].self)]
  /\ kind' = [kind EXCEPT ![o] = "ObjectHandle"]
  /\ refs' = [refs EXCEPT ![o] = {t}]
  /\ frame' = [frame EXCEPT ![t].at = "extract", ![t].new = o]
  /\ UNCHANGED <<base, item, owns, stranded, gil, dying, wild>>

(* The ObjectHandle could not be allocated: no one closes gl_obj.          *)
LookedNoMemory(t, o) ==
  /\ Back(t, "lookup")
  /\ o \in Unused("ObjectHandle")
  /\ open' = open \cup {o}
  /\ stranded' = stranded \cup {o}
  /\ kind' = [kind EXCEPT ![o] = "stranded"]
  /\ Leave(t)
  /\ UNCHANGED <<refs, base, item, owns, fs, dying, wild>>

(* A libgfapi call of the method fails before anything was made.           *)
CallFails(t) ==
  /\ \E at \in {"lookup", "open", "next"} : Back(t, at)
  /\ Leave(t)
  /\ UNCHANGED <<objects, native, dying, wild>>

(* Faulty: py_fs is borrowed.                                              *)
ExtractedBorrowing(t) ==
  /\ Back(t, "extract")
  /\ LET o == frame[t].new IN
     /\ base' = [base EXCEPT ![o] = VolumeOf(frame[t].self)]
     /\ refs' = [refs EXCEPT ![o] = {Python}]
     /\ owns' = owns \cup {o}
  /\ Leave(t)
  /\ UNCHANGED <<kind, item, native, dying, wild>>

(* The ObjectHandle takes gl_obj and a reference to the Volume.            *)
Extracted(t) ==
  /\ Back(t, "extract")
  /\ LET o == frame[t].new
         v == VolumeOf(frame[t].self) IN
     /\ base' = [base EXCEPT ![o] = v]
     /\ refs' = [refs EXCEPT ![o] = {Python}, ![v] = @ \cup {o}]
     /\ owns' = owns \cup {o}
  /\ Leave(t)
  /\ UNCHANGED <<kind, item, native, dying, wild>>

(* The ObjectHandle is released with a null gl_obj: no one closes it.      *)
ExtractFails(t) ==
  /\ Back(t, "extract")
  /\ LET o == frame[t].new IN
     /\ kind' = [kind EXCEPT ![o] = "stranded"]
     /\ refs' = [refs EXCEPT ![o] = {}]
     /\ stranded' = stranded \cup {o}
     /\ fs' = [fs EXCEPT ![o] = NULL]
  /\ Leave(t)
  /\ UNCHANGED <<base, item, owns, open, dying, wild>>

(* ObjectHandle.open().                                                    *)
CallOpen(t, s) ==
  /\ Callable(t, s, {"ObjectHandle"})
  /\ Enter(t, s, "open")
  /\ UNCHANGED <<kind, base, item, owns, native, gil, dying, wild>>

(* Faulty: the FD borrows its ObjectHandle.                                *)
OpenedBorrowing(t, d) ==
  /\ Back(t, "open")
  /\ d \in Unused("FD")
  /\ open' = open \cup {d} /\ owns' = owns \cup {d}
  /\ fs' = [fs EXCEPT ![d] = VolumeOf(frame[t].self)]
  /\ kind' = [kind EXCEPT ![d] = "FD"]
  /\ base' = [base EXCEPT ![d] = frame[t].self]
  /\ refs' = [refs EXCEPT ![d] = {Python}]
  /\ Leave(t)
  /\ UNCHANGED <<item, stranded, dying, wild>>

(* init_glfs_fd().  When the FD cannot be allocated, it closes fd: that is *)
(* CallFails.                                                              *)
Opened(t, d) ==
  /\ Back(t, "open")
  /\ d \in Unused("FD")
  /\ open' = open \cup {d} /\ owns' = owns \cup {d}
  /\ fs' = [fs EXCEPT ![d] = VolumeOf(frame[t].self)]
  /\ kind' = [kind EXCEPT ![d] = "FD"]
  /\ base' = [base EXCEPT ![d] = frame[t].self]
  /\ refs' = [refs EXCEPT ![d] = {Python}, ![frame[t].self] = @ \cup {d}]
  /\ Leave(t)
  /\ UNCHANGED <<item, stranded, dying, wild>>

(* The methods that make no object: stat(), unlink(), setattrs(), fstat(), *)
(* pread(), pwrite(), fsync(), ftruncate(), getcwd() ...  What contents()  *)
(* and setattrs() open on the way is open only while the handle is in use. *)
CallUse(t, s) ==
  /\ Callable(t, s, {"Volume", "ObjectHandle", "FD"})
  /\ Enter(t, s, "use")
  /\ UNCHANGED <<kind, base, item, owns, native, gil, dying, wild>>

Used(t) ==
  /\ Back(t, "use")
  /\ Leave(t)
  /\ UNCHANGED <<objects, native, dying, wild>>

(* A recursive setattrs() has failed with directories below its own still  *)
(* on the list: no one closes their descriptors and object copies, which   *)
(* one handle stands for here.                                             *)
UsedNoCleanup(t, o) ==
  /\ Back(t, "use") /\ kind[frame[t].self] = "ObjectHandle"
  /\ o \in Unused("ObjectHandle")
  /\ open' = open \cup {o}
  /\ stranded' = stranded \cup {o}
  /\ kind' = [kind EXCEPT ![o] = "stranded"]
  /\ Leave(t)
  /\ UNCHANGED <<refs, base, item, owns, fs, dying, wild>>

(* ObjectHandle.fts_open(): py_glfs_fts_init().                            *)
FtsOpen(t, s, f) ==
  /\ Callable(t, s, {"ObjectHandle"})
  /\ f \in Unused("FTSHandle")
  /\ kind' = [kind EXCEPT ![f] = "FTSHandle"]
  /\ base' = [base EXCEPT ![f] = s]
  /\ refs' = [refs EXCEPT ![f] = {Python}, ![s] = @ \cup {f}]
  /\ UNCHANGED <<item, owns, native, gil, frame, dying, wild>>

(* init_fts_iter(): iter() of an FTSHandle.                                *)
CallIter(t, s, i) ==
  /\ Callable(t, s, {"FTSHandle"})
  /\ i \in Unused("FTSIterator")
  /\ kind' = [kind EXCEPT ![i] = "FTSIterator"]
  /\ frame' = [frame EXCEPT ![t] = [at |-> "opendir", self |-> s, new |-> i, entry |-> NULL]]
  /\ refs' = [refs EXCEPT ![s] = @ \cup {t}, ![i] = {t}]
  /\ UNCHANGED <<base, item, owns, native, gil, dying, wild>>

(* Faulty: the iterator borrows its FTSHandle.                             *)
IterOpenedBorrowing(t) ==
  /\ Back(t, "opendir")
  /\ LET i == frame[t].new
         f == frame[t].self IN
     /\ open' = open \cup {i} /\ owns' = owns \cup {i}
     /\ fs' = [fs EXCEPT ![i] = VolumeOf(f)]
     /\ base' = [base EXCEPT ![i] = f]
     /\ refs' = [refs EXCEPT ![i] = {Python}]
  /\ Leave(t)
  /\ UNCHANGED <<kind, item, stranded, dying, wild>>

IterOpened(t) ==
  /\ Back(t, "opendir")
  /\ LET i == frame[t].new
         f == frame[t].self IN
     /\ open' = open \cup {i} /\ owns' = owns \cup {i}
     /\ fs' = [fs EXCEPT ![i] = VolumeOf(f)]
     /\ base' = [base EXCEPT ![i] = f]
     /\ refs' = [refs EXCEPT ![i] = {Python}, ![f] = @ \cup {i}]
  /\ Leave(t)
  /\ UNCHANGED <<kind, item, stranded, dying, wild>>

(* The iterator is released before fts_root was set: PyObject_New() does   *)
(* not clear memory, and Py_CLEAR() takes what it finds there.             *)
IterFails(t, garbage) ==
  /\ Back(t, "opendir")
  /\ LET i == frame[t].new IN
     /\ kind' = [kind EXCEPT ![i] = "none"]
     /\ refs' = [refs EXCEPT ![i] = {}]
  /\ wild' = garbage
  /\ Leave(t)
  /\ UNCHANGED <<base, item, owns, native, dying>>

(* py_fts_iter_next().  CallFails is its end of file, too.                 *)
CallNext(t, s) ==
  /\ Callable(t, s, {"FTSIterator"})
  /\ \A u \in Thread : frame[u].self # s
  /\ Enter(t, s, "next")
  /\ UNCHANGED <<kind, base, item, owns, native, gil, dying, wild>>

(* py_fts_do_iter() copies the glfs_object_t; init_ftsent_object() makes   *)
(* the FTSEntry and goes into init_glfs_object().                          *)
Copied(t, o, e) ==
  /\ Back(t, "next")
  /\ o \in Unused("ObjectHandle") /\ e \in Unused("FTSEntry") /\ o # e
  /\ open' = open \cup {o}
  /\ fs' = [fs EXCEPT ![o] = VolumeOf(frame[t].self)]
  /\ kind' = [kind EXCEPT ![o] = "ObjectHandle", ![e] = "FTSEntry"]
  /\ refs' = [refs EXCEPT ![o] = {t}, ![e] = {t}]
  /\ frame' = [frame EXCEPT ![t].at = "build", ![t].new = o, ![t].entry = e]
  /\ UNCHANGED <<base, item, owns, stranded, gil, dying, wild>>

(* Neither could be allocated: no one closes the copy.                     *)
CopiedNoMemory(t, o) ==
  /\ Back(t, "next")
  /\ o \in Unused("ObjectHandle")
  /\ open' = open \cup {o}
  /\ stranded' = stranded \cup {o}
  /\ kind' = [kind EXCEPT ![o] = "stranded"]
  /\ Leave(t)
  /\ UNCHANGED <<refs, base, item, owns, fs, dying, wild>>

(* The ObjectHandle takes its references, then the FTSEntry its own.  When *)
(* its name, path or type cannot be made after that, it is dropped again.  *)
(* The code gives the GIL up once more for the end of the walk, where this *)
(* action ends: neither object can be seen before next() has returned.     *)
Built(t, complete) ==
  /\ Back(t, "build")
  /\ LET o == frame[t].new
         e == frame[t].entry
         f == base[frame[t].self]
         v == VolumeOf(frame[t].self) IN
     /\ base' = [base EXCEPT ![o] = v, ![e] = f]
     /\ item' = [item EXCEPT ![e] = o]
     /\ refs' = [refs EXCEPT ![o] = {e}, ![v] = @ \cup {o}, ![f] = @ \cup {e},
                             ![e] = IF complete THEN {Python} ELSE {}]
     /\ owns' = owns \cup {o}
     /\ dying' = [dying EXCEPT ![t] = IF complete THEN <<>> ELSE <<e>>]
  /\ Leave(t)
  /\ UNCHANGED <<kind, native, wild>>

(* glfs_h_extract_handle() fails: both objects are released, still empty.  *)
BuildFails(t) ==
  /\ Back(t, "build")
  /\ LET o == frame[t].new
         e == frame[t].entry IN
     /\ kind' = [kind EXCEPT ![o] = "stranded", ![e] = "none"]
     /\ refs' = [refs EXCEPT ![o] = {}, ![e] = {}]
     /\ stranded' = stranded \cup {o}
     /\ fs' = [fs EXCEPT ![o] = NULL]
  /\ Leave(t)
  /\ UNCHANGED <<base, item, owns, open, dying, wild>>

(* FTSEntry.handle and FTSEntry.root.                                      *)
GetField(t, s, x) ==
  /\ Callable(t, s, {"FTSEntry"})
  /\ x \in {base[s], item[s]}
  /\ refs' = [refs EXCEPT ![x] = @ \cup {Python}]
  /\ UNCHANGED <<kind, base, item, owns, native, gil, frame, dying, wild>>
-----------------------------------------------------------------------------
(* Py_DECREF() by holder h in thread t: at zero tp_dealloc runs, and when  *)
(* it is over the thread goes on where it was.                             *)
Decref(t, x, h) ==
  /\ refs' = [refs EXCEPT ![x] = @ \ {h}]
  /\ dying' = [dying EXCEPT ![t] = IF refs[x] = {h} THEN Append(@, x) ELSE @]

(* The program lets go of an object.                                       *)
Drop(t, x) ==
  /\ HasGIL(t) /\ gil = NULL
  /\ frame[t].at = "python"
  /\ Python \in refs[x]
  /\ Decref(t, x, Python)
  /\ gil' = IF refs[x] = {Python} THEN t ELSE NULL
  /\ UNCHANGED <<kind, base, item, owns, native, frame, wild>>

(* A method returns, and the caller lets go of self.                       *)
Return(t) ==
  /\ HasGIL(t)
  /\ frame[t].at = "return"
  /\ frame' = [frame EXCEPT ![t] = InPython]
  /\ IF frame[t].self = NULL
     THEN UNCHANGED <<refs, dying>> /\ gil' = NULL
     ELSE /\ Decref(t, frame[t].self, t)
          /\ gil' = IF refs[frame[t].self] = {t} THEN t ELSE NULL
  /\ UNCHANGED <<kind, base, item, owns, native, wild>>

Dying(t) == Last(dying[t])

(* tp_dealloc closes the libgfapi handle first: glfs_h_close(),            *)
(* glfs_close(), iter_cb_cleanup().                                        *)
CloseNative(t) ==
  /\ gil = t /\ dying[t] # <<>>
  /\ LET x == Dying(t) IN
     /\ x \in owns /\ kind[x] # "Volume"
     /\ open' = open \ {x}
     /\ owns' = owns \ {x}
  /\ UNCHANGED <<kind, refs, base, item, stranded, fs, gil, frame, dying, wild>>

(* py_glfs_dealloc() releases the GIL for glfs_fini().                     *)
BeginFini(t) ==
  /\ gil = t /\ dying[t] # <<>>
  /\ Dying(t) \in owns /\ kind[Dying(t)] = "Volume"
  /\ gil' = NULL
  /\ UNCHANGED <<objects, native, frame, dying, wild>>

Finishing(t) == dying[t] # <<>> /\ gil # t

(* Faulty: the GIL is not taken back.                                      *)
EndFiniWithoutGIL(t) ==
  /\ Finishing(t) /\ gil = NULL
  /\ open' = open \ {Dying(t)}
  /\ owns' = owns \ {Dying(t)}
  /\ UNCHANGED <<kind, refs, base, item, stranded, fs, gil, frame, dying, wild>>

EndFini(t) ==
  /\ Finishing(t) /\ gil = NULL
  /\ gil' = t
  /\ open' = open \ {Dying(t)}
  /\ owns' = owns \ {Dying(t)}
  /\ UNCHANGED <<kind, refs, base, item, stranded, fs, frame, dying, wild>>

(* Faulty: the references are dropped first and the handle closed last.    *)
ClearBaseFirst(t) ==
  /\ gil = t /\ dying[t] # <<>>
  /\ LET x == Dying(t) IN
     /\ base[x] # NULL
     /\ base' = [base EXCEPT ![x] = NULL]
     /\ Decref(t, base[x], x)
  /\ UNCHANGED <<kind, item, owns, native, gil, frame, wild>>

(* Then Py_CLEAR() of its fields.                                          *)
ClearBase(t) ==
  /\ gil = t /\ dying[t] # <<>>
  /\ LET x == Dying(t) IN
     /\ x \notin owns /\ base[x] # NULL
     /\ base' = [base EXCEPT ![x] = NULL]
     /\ Decref(t, base[x], x)
  /\ UNCHANGED <<kind, item, owns, native, gil, frame, wild>>

(* Faulty: obj is forgotten.                                               *)
ClearItemKept(t) ==
  /\ gil = t /\ dying[t] # <<>>
  /\ LET x == Dying(t) IN
     /\ base[x] = NULL /\ item[x] # NULL
     /\ item' = [item EXCEPT ![x] = NULL]
  /\ UNCHANGED <<kind, refs, base, owns, native, gil, frame, dying, wild>>

ClearItem(t) ==
  /\ gil = t /\ dying[t] # <<>>
  /\ LET x == Dying(t) IN
     /\ base[x] = NULL /\ item[x] # NULL
     /\ item' = [item EXCEPT ![x] = NULL]
     /\ Decref(t, item[x], x)
  /\ UNCHANGED <<kind, base, owns, native, gil, frame, wild>>

(* Then tp_free().                                                         *)
Free(t) ==
  /\ gil = t /\ dying[t] # <<>>
  /\ LET x == Dying(t) IN
     /\ x \notin owns /\ base[x] = NULL /\ item[x] = NULL
     /\ kind' = [kind EXCEPT ![x] = "none"]
     /\ fs' = [fs EXCEPT ![x] = NULL]
  /\ dying' = [dying EXCEPT ![t] = Front(@)]
  /\ gil' = IF Len(dying[t]) = 1 /\ frame[t].at = "python" THEN NULL ELSE t
  /\ UNCHANGED <<refs, base, item, owns, open, stranded, frame, wild>>
-----------------------------------------------------------------------------
(* What the Python program may ask for.                                    *)
Call(t) ==
  \/ \E v \in Obj : NewVolume(t, v)
  \/ \E s \in Obj : \/ CallLookup(t, s) \/ CallOpen(t, s) \/ CallUse(t, s) \/ CallNext(t, s)
                    \/ \E x \in Obj : FtsOpen(t, s, x) \/ CallIter(t, s, x) \/ GetField(t, s, x)
                    \/ Drop(t, s)

Continue(t) ==
  \/ VolumeReady(t) \/ VolumeFails(t)
  \/ \E o \in Obj : \/ Looked(t, o) \/ LookedNoMemory(t, o) \/ Opened(t, o)
                    \/ UsedNoCleanup(t, o) \/ CopiedNoMemory(t, o)
  \/ \E o, e \in Obj : Copied(t, o, e)
  \/ CallFails(t) \/ Extracted(t) \/ ExtractFails(t) \/ Used(t)
  \/ IterOpened(t) \/ \E garbage \in BOOLEAN : IterFails(t, garbage)
  \/ \E complete \in BOOLEAN : Built(t, complete)
  \/ BuildFails(t)
  \/ Return(t)

Dealloc(t) ==
  \/ CloseNative(t) \/ BeginFini(t) \/ EndFini(t)
  \/ ClearBase(t) \/ ClearItem(t) \/ Free(t)

Next == ~wild /\ \E t \in Thread : Call(t) \/ Continue(t) \/ Dealloc(t)

Spec == Init /\ [][Next]_vars
-----------------------------------------------------------------------------
(* The pointers of an object, and those of a thread's frame.               *)
Fields(x) == {base[x], item[x]} \ {NULL}

Locals(t) == {frame[t].self, frame[t].new, frame[t].entry} \ {NULL}

(* The objects whose tp_dealloc is running.                                *)
Dead == UNION {ToSet(dying[t]) : t \in Thread}

TypeOK ==
  /\ kind \in [Obj -> Kinds \cup {"none", "stranded"}]
  /\ refs \in [Obj -> SUBSET Holders]
  /\ base \in [Obj -> Obj \cup {NULL}] /\ item \in [Obj -> Obj \cup {NULL}]
  /\ owns \subseteq Obj /\ open \subseteq Obj /\ stranded \subseteq Obj
  /\ fs \in [Obj -> Obj \cup {NULL}]
  /\ gil \in Thread \cup {NULL}
  /\ frame \in [Thread -> Frames]
  /\ dying \in [Thread -> Seq(Obj)]
  /\ wild \in BOOLEAN
  /\ \A t \in Thread : Finishing(t) => Dying(t) \in owns /\ kind[Dying(t)] = "Volume"

(* Every pointer that the code follows is counted and no other reference   *)
(* is: by the objects with a field that points there, by the threads with  *)
(* a local variable that does, and by the Python program.                  *)
Counted ==
  \A x \in Obj :
    refs[x] \ {Python} = {o \in Obj : x \in Fields(o)} \cup {t \in Thread : x \in Locals(t)}

(* No pointer, in an object or in a thread, is left to a freed object,     *)
(* whatever order the program drops its references in and whatever other   *)
(* threads are in the middle of.                                           *)
NoDangling ==
  /\ \A x \in Obj : \A y \in Fields(x) : Alive(x) /\ Alive(y) /\ y \notin Dead
  /\ \A t \in Thread : \A y \in Locals(t) : Alive(y) /\ y \notin Dead
  /\ \A x \in Obj : Python \in refs[x] => Alive(x) /\ x \notin Dead

(* A thread that is in libgfapi, without the GIL, uses a handle that stays *)
(* open, on a glfs_t that stays open, and neither is being closed.         *)
UseAfterClose(t) ==
  LET s == frame[t].self IN
  /\ frame[t].at \in {"lookup", "extract", "open", "opendir", "next", "build", "use"}
  /\ \/ VolumeOf(s) \notin open \ Dead
     \/ kind[s] # "FTSHandle" /\ s \notin (open \cap owns) \ Dead

NoUseAfterClose == \A t \in Thread : ~UseAfterClose(t)

(* glfs_fini() is the last call on a glfs_t: when it runs, and after it,   *)
(* every handle opened with that glfs_t is closed, except those that were  *)
(* stranded by a failure.                                                  *)
FiniLast ==
  \A o \in open \ stranded :
    o # fs[o] => fs[o] \in open /\ \A t \in Thread : Finishing(t) => Dying(t) # fs[o]

(* Every open handle has exactly one owner that will close it: a Python    *)
(* object, or the thread that is making one.                               *)
OneOwner ==
  /\ owns \cap stranded = {}
  /\ open = owns \cup stranded \cup
       {frame[t].new : t \in {u \in Thread : frame[u].at \in {"glfs_init", "extract", "build"}}}
  /\ \A x \in owns : Alive(x)

(* When the program has let go of everything and no thread is busy, all is *)
(* freed and every handle closed, except the stranded ones.                *)
AllFreed ==
  /\ \A x \in Obj : Python \notin refs[x]
  /\ \A t \in Thread : frame[t] = InPython /\ dying[t] = <<>>

AllClosed == AllFreed => open = stranded /\ \A x \in Obj : ~Alive(x)

(* The handles that the libgfapi call of a thread works with: that of the  *)
(* object, the glfs_t below it, and the one the object being made is for.  *)
Uses(t) ==
  LET s == frame[t].self IN
  CASE frame[t].at \in {"lookup", "open", "use", "next"} -> {s, VolumeOf(s)}
    [] frame[t].at \in {"extract", "build"} -> {s, VolumeOf(s), frame[t].new}
    [] frame[t].at = "opendir" -> {base[s], VolumeOf(s)}
    [] frame[t].at = "glfs_init" -> {frame[t].new}
    [] OTHER -> {}

Below == [o \in open \ stranded |-> fs[o]]

UsedBy == [t \in Thread |-> Uses(t)]

BeingFinished == {Dying(t) : t \in {u \in Thread : Finishing(u)}}

Life == INSTANCE Lifetimes WITH
  Handle <- Obj, under <- Below, uses <- UsedBy, finishing <- BeingFinished

(* Whatever fails and whoever lets go of what when, libgfapi is called in  *)
(* the order that Lifetimes prescribes.                                    *)
ImplementsLifetimes == Life!Spec
=============================================================================
