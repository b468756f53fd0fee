------------------------------- MODULE FtsIter -------------------------------
(***************************************************************************)
(* The Python iterator over a tree, src/pyglfs-fts.c: iter(handle) opens   *)
(* the directory, every next() lets ObjectIter walk as far as one entry    *)
(* and makes an FTSEntry of it, dropping the iterator ends the walk.       *)
(*                                                                         *)
(* A next() is many steps: the GIL is released while the walk runs and     *)
(* taken back inside the callback to build the FTSEntry.  This module is   *)
(* one thread's use of one iterator.                                       *)
(***************************************************************************)
EXTENDS ObjectIter

VARIABLES
  running,     \* a next() is under way
  newobj,      \* py_fts_do_iter: the copy it took, not yet in an FTSEntry
  out,         \* py_fts_iter_cb_state.out
  copy_failed, \* py_fts_iter_cb_state.copy_failed
  error,       \* the Python error indicator while a next() runs
  answer,      \* what the last next() looked like to Python
  copies,      \* entries with a glfs_object_t copy that is open
  held,        \* entries whose FTSEntry Python holds
  wild         \* Py_CLEAR was applied to a pointer that was never set

(* History: entries Python was given, entries it was given an error for,   *)
(* copies that no code will ever close.                                    *)
VARIABLES yielded, refused, stranded

state == <<newobj, out, copy_failed, error>>
python == <<running, answer, held, wild, yielded, refused>>
fvars == <<state, python, copies, stranded>>
ftsvars == <<vars, fvars>>
-----------------------------------------------------------------------------
FtsInit ==
  /\ Init
  /\ running = FALSE
  /\ newobj = NULL /\ out = NULL /\ copy_failed = FALSE
  /\ error = "none" /\ answer = "none"
  /\ copies = {} /\ held = {} /\ wild = FALSE
  /\ yielded = {} /\ refused = {} /\ stranded = {}

(* init_fts_iter(): iter(handle).                                          *)
Iter(recurse, max_depth) ==
  /\ OpenRoot(recurse, max_depth)
  /\ UNCHANGED fvars

(* glfs_h_opendir() fails.  The new iterator is released before fts_root   *)
(* was assigned, and PyObject_New() does not clear memory: what            *)
(* Py_CLEAR(self->fts_root) finds there may be a null pointer or not.      *)
IterFails(garbage) ==
  /\ pc = "new"
  /\ wild' = garbage
  /\ UNCHANGED <<vars, state, running, answer, held, yielded, refused, copies, stranded>>

(* Faulty: the state of the last call is taken over.                       *)
NextBeginsStale ==
  /\ ~running
  /\ running' = TRUE
  /\ Start
  /\ out' = NULL
  /\ UNCHANGED <<newobj, copy_failed, error, answer, held, wild, yielded, refused,
                 copies, stranded>>

(* py_fts_iter_next() up to the call of iter_glfs_object_handle().         *)
NextBegins ==
  /\ ~running
  /\ running' = TRUE
  /\ Start
  /\ out' = NULL
  /\ copy_failed' = FALSE
  /\ UNCHANGED <<newobj, error, answer, held, wild, yielded, refused, copies, stranded>>

Walks ==
  /\ running
  /\ Read \/ AddChild
  /\ UNCHANGED fvars

(* py_fts_do_iter(): the callback copies the object first.                 *)
CopyEntry ==
  /\ pc = "call" /\ newobj = NULL
  /\ newobj' = entry
  /\ copies' = copies \cup {entry}
  /\ UNCHANGED <<vars, out, copy_failed, error, python, stranded>>

CopyEntryFails ==
  /\ pc = "call" /\ newobj = NULL
  /\ copy_failed' = TRUE
  /\ Callback(FALSE)
  /\ UNCHANGED <<newobj, out, error, python, copies, stranded>>

(* Faulty: the callback asks for more.                                     *)
BuildEntryGoesOn ==
  /\ pc = "call" /\ newobj # NULL
  /\ out' = newobj
  /\ newobj' = NULL
  /\ Callback(TRUE)
  /\ UNCHANGED <<copy_failed, error, python, copies, stranded>>

(* init_ftsent_object() succeeds.  The callback always breaks the loop.    *)
BuildEntry ==
  /\ pc = "call" /\ newobj # NULL
  /\ out' = newobj
  /\ newobj' = NULL
  /\ Callback(FALSE)
  /\ UNCHANGED <<copy_failed, error, python, copies, stranded>>

(* Faulty: the wrong pointer is handled when building fails.               *)
BuildFailsOnOut(owned) ==
  /\ pc = "call" /\ newobj # NULL
  /\ error' = "error"
  /\ newobj' = NULL
  /\ IF owned
     THEN copies' = copies \ {out} /\ UNCHANGED stranded
     ELSE stranded' = stranded \cup {out} /\ UNCHANGED copies
  /\ Callback(FALSE)
  /\ UNCHANGED <<out, copy_failed, python>>

(* It fails before an ObjectHandle owns the copy (no memory for the        *)
(* FTSEntry or the ObjectHandle, glfs_h_extract_handle()), and then        *)
(* nobody closes it, or after that, and then the ObjectHandle does.        *)
BuildFails(owned) ==
  /\ pc = "call" /\ newobj # NULL
  /\ error' = "error"
  /\ newobj' = NULL
  /\ IF owned
     THEN copies' = copies \ {newobj} /\ UNCHANGED stranded
     ELSE stranded' = stranded \cup {newobj} /\ UNCHANGED copies
  /\ Callback(FALSE)
  /\ UNCHANGED <<out, copy_failed, python>>

(* py_fts_iter_next() after the walk.                                      *)
Raised ==
  IF rv = 0 THEN "StopIteration"
  ELSE IF rv = -2 /\ copy_failed THEN "error"
  ELSE error

Answer ==
  IF out # NULL
  THEN IF Raised = "none" THEN "item" ELSE "both"
  ELSE IF Raised = "none" THEN "null" ELSE Raised

NextReturns ==
  /\ running /\ pc = "idle"
  /\ running' = FALSE
  /\ answer' = Answer
  /\ error' = "none"                   \* Python has taken the error
  /\ IF out # NULL
     THEN /\ held' = held \cup {out}
          /\ yielded' = yielded \cup {out}
     ELSE UNCHANGED <<held, yielded>>
  /\ refused' = IF Raised = "error" THEN visited \ yielded ELSE refused
  /\ UNCHANGED <<vars, newobj, out, copy_failed, copies, wild, stranded>>

(* Python lets go of an FTSEntry: its ObjectHandle closes the copy.        *)
DropEntry(e) ==
  /\ e \in held
  /\ held' = held \ {e}
  /\ copies' = copies \ {e}
  /\ UNCHANGED <<vars, state, running, answer, wild, yielded, refused, stranded>>

(* Faulty: the iterator closes the copies it made.                         *)
DropIteratorClosing ==
  /\ ~running
  /\ Cleanup
  /\ copies' = {}
  /\ UNCHANGED <<state, python, stranded>>

(* py_fts_iter_dealloc(): Python lets go of the iterator.                  *)
DropIterator ==
  /\ ~running
  /\ Cleanup
  /\ UNCHANGED fvars

-----------------------------------------------------------------------------
(* The steps of a next() that has begun.                                   *)
NextStep ==
  \/ Walks
  \/ CopyEntry \/ CopyEntryFails
  \/ BuildEntry \/ \E owned \in BOOLEAN : BuildFails(owned)
  \/ NextReturns

FtsNext ==
  /\ ~wild
  /\ \/ \E r \in BOOLEAN, d \in MaxDepths : Iter(r, d)
     \/ \E garbage \in BOOLEAN : IterFails(garbage)
     \/ NextBegins
     \/ NextStep
     \/ \E e \in Entry : DropEntry(e)
     \/ DropIterator

FtsSpec == FtsInit /\ [][FtsNext]_ftsvars

(* A for loop calls next() as long as it gets an item; every call of       *)
(* libgfapi returns.                                                       *)
LoopAgain == answer \in {"none", "item"} /\ NextBegins

FairFtsSpec == FtsSpec /\ WF_ftsvars(~wild /\ NextStep) /\ WF_ftsvars(~wild /\ LoopAgain)
-----------------------------------------------------------------------------
FtsTypeOK ==
  /\ running \in BOOLEAN
  /\ newobj \in Entry \cup {NULL}
  /\ out \in Entry \cup {NULL}
  /\ copy_failed \in BOOLEAN
  /\ error \in {"none", "error"}
  /\ answer \in {"none", "item", "null", "both", "error", "StopIteration"}
  /\ copies \subseteq Entry /\ held \subseteq Entry
  /\ wild \in BOOLEAN
  /\ yielded \subseteq Entry /\ refused \subseteq Entry /\ stranded \subseteq Entry

(* No entry is skipped in silence, over all the next() calls of a walk and *)
(* their failures: what the walk has delivered was given to Python, or an  *)
(* error was raised in its place, and one next() delivers one entry.       *)
NothingSkipped ==
  /\ ~running => visited = yielded \cup refused
  /\ yielded \cap refused = {}
  /\ Cardinality(visited \ (yielded \cup refused)) <= 1

(* A next() gives an item or an error and never both, although the error   *)
(* may stem from the callback, from the walk or from an earlier failure.   *)
NeverBoth == answer # "both"

(* StopIteration at the end of file: Python was given, item or error,      *)
(* every entry within max_depth that is not below a directory that could   *)
(* not be opened.                                                          *)
StopMeansAll ==
  ~running /\ answer = "StopIteration" /\ Exhausted => yielded \cup refused = Due

(* Every open copy belongs to an FTSEntry that Python holds or is about to *)
(* get; only a copy whose FTSEntry could not be built is stranded, and     *)
(* dropping the iterator closes none of the entries it gave out.           *)
CopiesOwned ==
  /\ copies = held \cup stranded \cup ({newobj, out} \ ({NULL} \cup yielded))
  /\ stranded \subseteq visited \ yielded

(* A for loop over the iterator ends.                                      *)
LoopEnds ==
  pc = "idle" ~> (answer \notin {"none", "item"} \/ pc = "freed")

(* Python was told StopIteration, and nothing is left to read or in hand.  *)
Stopped ==
  /\ answer = "StopIteration"
  /\ root.rest = {} /\ children = <<>>
  /\ entry = NULL

(* A StopIteration at the end of file is the last word, as Python demands  *)
(* of an iterator: however often next() is called after it, and whatever   *)
(* then fails, it gives no entry and no error.  The walk is not told that  *)
(* it has ended: every next() calls iter_glfs_object_handle() again.       *)
StopIsFinal ==
  /\ [](~running /\ answer = "StopIteration" /\ Exhausted => Stopped)
  /\ [][Stopped => Stopped']_ftsvars

(* The comment at pyglfs-fts.c:320 says that Python calls next() until an  *)
(* exception that indicates an error or StopIteration is raised.           *)
EndsWithException == answer # "null"
=============================================================================
