------------------------------- MODULE SetAttrs -------------------------------
(***************************************************************************)
(* ObjectHandle.setattrs(), src/pyglfs-handle.c: owner, group and mode of  *)
(* a directory, and with recursive=True of everything below it, by a walk  *)
(* of ObjectIter whose callback is setattrs_cb().  The arguments are       *)
(* checked before anything is changed; this module starts after that.      *)
(***************************************************************************)
EXTENDS ObjectIter

(* What do_recursive_setattrs() passes for max_depth.                      *)
ASSUME UnlimitedAssumption == -1 \in MaxDepths

VARIABLES
  recursive,   \* the argument; max_depth is parsed and goes nowhere
  doing,       \* what py_glfs_obj_setattrs() does next
  failed,      \* setattrs_cb() has failed: the errno to be reported
  error,       \* the Python error indicator
  changed      \* the files and directories whose attributes were set

svars == <<recursive, doing, failed, error, changed>>
setvars == <<vars, svars>>

(* Past the end: "none" and "null" are what Python is given, "crashed" is  *)
(* the end of the process.                                                 *)
Done == {"none", "null", "crashed"}
-----------------------------------------------------------------------------
SetInit ==
  /\ Init
  /\ recursive \in BOOLEAN
  /\ doing = "self"
  /\ failed = FALSE /\ error = FALSE /\ changed = {}

(* Faulty: a recursive call leaves the handle itself to the walk.          *)
SetSelfOnlyAlone ==
  /\ doing = "self"
  /\ changed' = IF recursive THEN {} ELSE {Root}
  /\ doing' = IF recursive THEN "opendir" ELSE "none"
  /\ UNCHANGED <<vars, recursive, failed, error>>

(* glfs_h_setattrs() on the handle itself, before any child.               *)
SetSelf ==
  /\ doing = "self"
  /\ changed' = {Root}
  /\ doing' = IF recursive THEN "opendir" ELSE "none"
  /\ UNCHANGED <<vars, recursive, failed, error>>

SetSelfFails ==
  /\ doing = "self"
  /\ doing' = "null"
  /\ error' = TRUE
  /\ UNCHANGED <<vars, recursive, failed, changed>>

(* Faulty: the walk is limited to the first level.                         *)
OpenSelfFlat ==
  /\ doing = "opendir"
  /\ doing' = "walk"
  /\ OpenRoot(TRUE, 0)
  /\ UNCHANGED <<recursive, failed, error, changed>>

(* do_recursive_setattrs(): the walk has no limit.                         *)
OpenSelf ==
  /\ doing = "opendir"
  /\ doing' = "walk"
  /\ OpenRoot(TRUE, -1)
  /\ UNCHANGED <<recursive, failed, error, changed>>

(* Its false return makes py_glfs_obj_setattrs() return None, with the     *)
(* error indicator set.                                                    *)
OpenSelfFails ==
  /\ doing = "opendir"
  /\ doing' = "none"
  /\ error' = TRUE
  /\ UNCHANGED <<vars, recursive, failed, changed>>

StartWalk ==
  /\ doing = "walk"
  /\ doing' = "walking"
  /\ Start
  /\ UNCHANGED <<recursive, failed, error, changed>>

(* Faulty: a directory is changed before it is opened.                     *)
WalksSettingFirst ==
  /\ doing = "walking"
  /\ Read \/ AddChild
  /\ changed' = IF pc' = "copy" THEN changed \cup {entry'} ELSE changed
  /\ UNCHANGED <<recursive, doing, failed, error>>

Walks ==
  /\ doing = "walking"
  /\ Read \/ AddChild
  /\ UNCHANGED svars

(* setattrs_cb().                                                          *)
SetEntry ==
  /\ doing = "walking"
  /\ changed' = changed \cup {entry}
  /\ Callback(TRUE)
  /\ UNCHANGED <<recursive, doing, failed, error>>

(* Faulty: a failure does not break the loop.                              *)
SetEntryFailsGoesOn ==
  /\ doing = "walking" /\ pc = "call"
  /\ failed' = TRUE
  /\ Callback(TRUE)
  /\ UNCHANGED <<recursive, doing, error, changed>>

(* A failure copies parent_path with strlcpy() for the message.            *)
SetEntryFails ==
  /\ doing = "walking" /\ pc = "call"
  /\ failed' = TRUE
  /\ Callback(FALSE)
  /\ doing' = IF IterDirAt(target).abspath = NULL THEN "crashed" ELSE "walking"
  /\ UNCHANGED <<recursive, error, changed>>

(* Faulty: the callback's failure is the only one looked for.              *)
ReturnComparesMinusTwo ==
  /\ doing = "walking" /\ pc = "idle"
  /\ doing' = "none"
  /\ error' = (rv = -2)
  /\ fds' = fds \ {Root}
  /\ UNCHANGED <<cbvars, locals, objs, pc, history, recursive, failed, changed>>

(* The directory handed to setattrs() is closed, the list of children is   *)
(* not: iter_cb is a local variable, and iter_cb_cleanup() is not called.  *)
Return ==
  /\ doing = "walking" /\ pc = "idle"
  /\ doing' = "none"
  /\ error' = (rv < 0)
  /\ fds' = fds \ {Root}
  /\ UNCHANGED <<cbvars, locals, objs, pc, history, recursive, failed, changed>>
-----------------------------------------------------------------------------
SetNext ==
  \/ SetSelf \/ SetSelfFails
  \/ OpenSelf \/ OpenSelfFails
  \/ StartWalk \/ Walks
  \/ SetEntry \/ SetEntryFails
  \/ Return

SetSpec == SetInit /\ [][SetNext]_setvars

(* The call runs on: libgfapi calls return.                                *)
FairSetSpec == SetSpec /\ WF_setvars(SetNext)
-----------------------------------------------------------------------------
SetTypeOK ==
  /\ recursive \in BOOLEAN
  /\ doing \in {"self", "opendir", "walk", "walking"} \cup Done
  /\ failed \in BOOLEAN /\ error \in BOOLEAN
  /\ changed \subseteq Entry \cup {Root}
  /\ changed = {} <=> doing \in {"self", "null"}
  /\ error => doing \in Done

(* The entry whose attributes are to be set, or could not be set.          *)
Pending == visited \ changed

(* A partial change is a change from the top: when an entry was changed,   *)
(* so was every directory above it, and of the entries the walk reached at *)
(* most one, the last one, was not changed.                                *)
ChangedFromTop ==
  /\ changed # {} => Root \in changed
  /\ \A e \in changed \ {Root} : Ancestors(e) \subseteq changed
  /\ Cardinality(Pending) <= 1

(* A read failed with no entry in hand, the one failure that               *)
(* iter_glfs_object_handle() returns as the end of the directory.          *)
ReadLost == "read" \in failures /\ entry = NULL

(* When setattrs() is over without an error indicator, everything below    *)
(* the handle has been changed and every directory it opened is closed.    *)
(* Two failures excuse what was not changed: a directory above it could    *)
(* not be opened, or a read was lost.                                      *)
QuietIsDone ==
  doing = "none" /\ ~error /\ ~ReadLost =>
    /\ fds = {} /\ objs = {}
    /\ recursive => changed = {Root} \cup {e \in Entry : Ancestors(e) \cap lost = {}}

(* When setattrs() returns after a failure of setattrs_cb(), or of a read  *)
(* with an entry in hand, the error indicator is set.  (For an entry of    *)
(* the directory itself a failing setattrs_cb() does not return, see       *)
(* ParentPathGiven.)                                                       *)
FailureIsReported ==
  doing = "none" /\ (failed \/ ("read" \in failures /\ entry # NULL)) => error

(* A directory below the handle is opened, then changed, then read: it is  *)
(* opened with the attributes it had, and nothing is read from it and      *)
(* changed in it before it was changed itself.  The handle is different:   *)
(* it is changed before it is opened.                                      *)
OpenChangeRead ==
  /\ pc \in {"copy", "opendir", "push"} => entry \notin changed
  /\ doing = "walking" /\ pc = "read" => OnList \subseteq changed

(* setattrs() returns or the process ends.                                 *)
Returns == <>(doing \in Done)

(* The comment at pyglfs-iter.c:128 says that the callback receives the    *)
(* path of the parent directory.                                           *)
ParentPathGiven == doing # "crashed"
=============================================================================
