------------------------------ MODULE ObjectIter ------------------------------
(***************************************************************************)
(* The directory walker of src/pyglfs-iter.c.                              *)
(*                                                                         *)
(* iter_glfs_object_handle() reads the entries of a directory through      *)
(* glfs_xreaddirplus_r() and calls cb->fn on each.  Recursion is not on    *)
(* the C stack: the directories being read are a linked list, cb->children,*)
(* whose first element is the deepest one.  add_child() pushes a directory *)
(* before cb->fn sees it, remove_last() pops one that is exhausted, and    *)
(* because the list lives in the glfs_object_cb_t it survives a return, so *)
(* the next call goes on where the last one stopped (pyglfs-fts.c relies   *)
(* on that, and makes every call stop after one entry).                    *)
(*                                                                         *)
(* One action is one libgfapi call with the code up to the next one; any   *)
(* of these calls may fail.  iter_glfs_object_handle() runs without the    *)
(* GIL, and all of its state is reached through one glfs_object_cb_t: this *)
(* module is the walk of one thread on one glfs_object_cb_t.               *)
(***************************************************************************)
EXTENDS Integers, SequencesExt

CONSTANTS
  Entry,       \* the files and directories below the directory walked
  Root,        \* the directory the walk was started on
  Dots,        \* the entries "." and ".." that every directory lists
  NULL,        \* the C null pointer
  Trees,       \* the volume contents considered
  MaxDepths    \* the values of max_depth considered

(* A tree gives the directory an entry is in and its path from Root.       *)
PathIn(t, d) == IF d = Root THEN <<>> ELSE t.path[d]

IsTree(t) ==
  /\ t.dirs \subseteq Entry
  /\ t.parent \in [Entry -> t.dirs \cup {Root}]
  /\ t.path \in [Entry -> Seq(Entry)]
  /\ \A e \in Entry : t.path[e] = Append(PathIn(t, t.parent[e]), e)

ASSUME NamesAssumption ==
  /\ Root \notin Entry
  /\ NULL \notin Entry \cup Dots \cup {Root}
  /\ Dots \cap Entry = {}

ASSUME TreesAssumption == \A t \in Trees : IsTree(t)

ASSUME MaxDepthsAssumption == MaxDepths \subseteq Int

VARIABLES
  tree,        \* what the volume holds
  cb,          \* cb->flags & PYGLFS_FTS_FLAG_DO_RECURSE, cb->max_depth
  root,        \* cb->root
  children,    \* cb->children.next and its successors, the deepest one last
  sz,          \* cb->children.sz
  entry,       \* local: the dirent last read
  target,      \* local: the iter_dir_t read, its position in children or 0
  rv,          \* local: return value
  xstat,       \* local: the xstat_p that is allocated, with its tmp object
  fds,         \* directories with a glfs_fd_t the walk must close
  objs,        \* directories with a glfs_object_t copy the walk must close
  pc           \* the libgfapi call or callback that comes next

(* History: the entries cb->fn was called on, the directories add_child()  *)
(* failed on, and the kinds of failure the current call has met.           *)
VARIABLES visited, lost, failures

cbvars == <<tree, cb, root, children, sz>>
locals == <<entry, target, rv, xstat>>
history == <<visited, lost, failures>>
vars == <<cbvars, locals, fds, objs, pc, history>>
-----------------------------------------------------------------------------
PathOf(d) == PathIn(tree, d)

Level(d) == Len(PathOf(d))

(* What a freshly opened directory lists, in an order of its own.          *)
Stream(d) == Dots \cup {e \in Entry : tree.parent[e] = d}

IterDir == [dir : Entry \cup {Root},                  \* what fd, obj open
            depth : Nat,
            abspath : {NULL} \cup Seq(Entry),
            rest : SUBSET (Dots \cup Entry)]          \* not yet read from fd

(* The iter_dir_t at a position of the list; 0 stands for cb->root.        *)
IterDirAt(i) == IF i = 0 THEN root ELSE children[i]

(* target = cb->children.sz ? cb->children.next : &cb->root                *)
Target == IF sz # 0 THEN Len(children) ELSE 0

OnList == {children[i].dir : i \in 1..Len(children)}

(* fd moves past entry e.                                                  *)
Consume(i, e) ==
  IF i = 0
  THEN /\ root' = [root EXCEPT !.rest = @ \ {e}]
       /\ UNCHANGED children
  ELSE /\ children' = [children EXCEPT ![i].rest = @ \ {e}]
       /\ UNCHANGED root

(* Leaving the loop.  The last test of the function replaces any rv by 0   *)
(* when entry is a null pointer.                                           *)
Break(code, e) ==
  /\ pc' = "idle"
  /\ rv' = IF e = NULL THEN 0 ELSE code
-----------------------------------------------------------------------------
Init ==
  /\ tree \in Trees
  /\ cb = [recurse |-> FALSE, max_depth |-> -1]
  /\ root = [dir |-> Root, depth |-> 0, abspath |-> NULL, rest |-> {}]
  /\ children = <<>>
  /\ sz = 0
  /\ entry = NULL /\ target = 0 /\ xstat = NULL
  /\ rv = 1                     \* no call has returned yet
  /\ fds = {} /\ objs = {}
  /\ pc = "new"
  /\ visited = {} /\ lost = {} /\ failures = {}

(* The caller opens the directory to walk and fills in the glfs_object_cb_t *)
(* with an empty list (init_fts_iter, do_recursive_setattrs).               *)
OpenRoot(recurse, max_depth) ==
  /\ pc = "new"
  /\ pc' = "idle"
  /\ cb' = [recurse |-> recurse, max_depth |-> max_depth]
  /\ root' = [root EXCEPT !.rest = Stream(Root)]
  /\ fds' = {Root}
  /\ UNCHANGED <<tree, children, sz, locals, objs, history>>

(* Faulty: a call starts again from the first entry.                       *)
StartRewinds ==
  /\ pc = "idle"
  /\ pc' = "read"
  /\ entry' = NULL
  /\ failures' = {}
  /\ root' = [root EXCEPT !.rest = Stream(Root)]
  /\ UNCHANGED <<tree, cb, children, sz, target, rv, xstat, fds, objs, visited, lost>>

(* iter_glfs_object_handle() is called.                                    *)
Start ==
  /\ pc = "idle"
  /\ pc' = "read"
  /\ entry' = NULL
  /\ failures' = {}
  /\ UNCHANGED <<cbvars, target, rv, xstat, fds, objs, visited, lost>>

(* Faulty: the depth test admits one level too many.                       *)
DescendsOnceMore(e) ==
  /\ e \in tree.dirs /\ cb.recurse
  /\ cb.max_depth < 0 \/ sz <= cb.max_depth

(* Faulty: an ordering test in place of "not equal" loses "no limit".      *)
DescendsBelow(e) == e \in tree.dirs /\ cb.recurse /\ sz < cb.max_depth

(* add_child() runs for a directory, when recursing, unless as many        *)
(* directories as max_depth are open already.  A negative max_depth never  *)
(* equals the count.                                                       *)
Descends(e) == e \in tree.dirs /\ cb.recurse /\ cb.max_depth # sz

ReadEntry(e) ==
  /\ pc = "read"
  /\ e \in IterDirAt(Target).rest \ Dots
  /\ Consume(Target, e)
  /\ entry' = e
  /\ rv' = 1
  /\ target' = Target
  /\ xstat' = e
  /\ pc' = IF Descends(e) THEN "copy" ELSE "call"
  /\ UNCHANGED <<tree, cb, sz, fds, objs, history>>

(* "." and ".." are skipped, but they leave entry a non-null pointer.      *)
ReadDot(e) ==
  /\ pc = "read"
  /\ e \in IterDirAt(Target).rest \cap Dots
  /\ Consume(Target, e)
  /\ entry' = e
  /\ rv' = 1
  /\ UNCHANGED <<tree, cb, sz, target, xstat, fds, objs, pc, history>>

(* remove_last(): the deepest directory leaves the list and is closed.     *)
RemoveLast ==
  /\ children' = Front(children)
  /\ sz' = sz - 1
  /\ fds' = fds \ {Last(children).dir}
  /\ objs' = objs \ {Last(children).dir}

(* Faulty: the end of a child directory ends the call.                     *)
ReadEndOfChildStops ==
  /\ pc = "read"
  /\ IterDirAt(Target).rest = {}
  /\ children # <<>>
  /\ RemoveLast
  /\ entry' = NULL
  /\ Break(0, NULL)
  /\ UNCHANGED <<tree, cb, root, target, xstat, history>>

(* Faulty: the containing directory is read from its start again.          *)
ReadEndOfChildRewinds ==
  /\ pc = "read"
  /\ IterDirAt(Target).rest = {}
  /\ children # <<>>
  /\ RemoveLast
  /\ root' = IF Len(children) = 1 THEN [root EXCEPT !.rest = Stream(Root)] ELSE root
  /\ entry' = NULL
  /\ rv' = 0
  /\ UNCHANGED <<tree, cb, target, xstat, pc, history>>

(* The end of a child directory: back to the one that contains it.         *)
ReadEndOfChild ==
  /\ pc = "read"
  /\ IterDirAt(Target).rest = {}
  /\ children # <<>>
  /\ RemoveLast
  /\ entry' = NULL
  /\ rv' = 0
  /\ UNCHANGED <<tree, cb, root, target, xstat, pc, history>>

(* Faulty: the directory is made ready to be read once more.               *)
ReadEndOfRootRewinds ==
  /\ pc = "read"
  /\ IterDirAt(Target).rest = {}
  /\ children = <<>>
  /\ entry' = NULL
  /\ root' = [root EXCEPT !.rest = Stream(Root)]
  /\ Break(0, NULL)
  /\ UNCHANGED <<tree, cb, children, sz, target, xstat, fds, objs, history>>

(* The end of the directory the walk was started on.                       *)
ReadEndOfRoot ==
  /\ pc = "read"
  /\ IterDirAt(Target).rest = {}
  /\ children = <<>>
  /\ entry' = NULL
  /\ Break(0, NULL)
  /\ UNCHANGED <<cbvars, target, xstat, fds, objs, history>>

(* glfs_xreaddirplus_r() returns -1 and leaves entry alone.                *)
ReadFails ==
  /\ pc = "read"
  /\ Break(-1, entry)
  /\ failures' = failures \cup {"read"}
  /\ UNCHANGED <<cbvars, entry, target, xstat, fds, objs, visited, lost>>

(* add_child(): glfs_object_copy(), then glfs_h_opendir(), then the list   *)
(* and the path.                                                           *)
CopyObject ==
  /\ pc = "copy"
  /\ objs' = objs \cup {entry}
  /\ pc' = "opendir"
  /\ UNCHANGED <<cbvars, locals, fds, history>>

OpenChild ==
  /\ pc = "opendir"
  /\ fds' = fds \cup {entry}
  /\ pc' = "push"
  /\ UNCHANGED <<cbvars, locals, objs, history>>

(* Faulty: the depth is taken before the list is counted up.               *)
PushChildUncounted ==
  /\ pc = "push"
  /\ sz' = sz + 1
  /\ children' = Append(children,
       [dir |-> entry, depth |-> sz,
        abspath |-> Append(IF children = <<>> THEN <<>>
                           ELSE Last(children).abspath, entry),
        rest |-> Stream(entry)])
  /\ pc' = "call"
  /\ UNCHANGED <<tree, cb, root, locals, fds, objs, history>>

(* Faulty: the directory itself is to be delivered after its entries.      *)
PushChildFirst ==
  /\ pc = "push"
  /\ sz' = sz + 1
  /\ children' = Append(children,
       [dir |-> entry, depth |-> sz + 1,
        abspath |-> Append(IF children = <<>> THEN <<>>
                           ELSE Last(children).abspath, entry),
        rest |-> Stream(entry)])
  /\ pc' = "read"
  /\ xstat' = NULL
  /\ UNCHANGED <<tree, cb, root, entry, target, rv, fds, objs, history>>

PushChild ==
  /\ pc = "push"
  /\ sz' = sz + 1
  /\ children' = Append(children,
       [dir |-> entry, depth |-> sz + 1,
        abspath |-> Append(IF children = <<>> THEN <<>>
                           ELSE Last(children).abspath, entry),
        rest |-> Stream(entry)])
  /\ pc' = "call"
  /\ UNCHANGED <<tree, cb, root, locals, fds, objs, history>>

(* add_child() returns false.  The walk goes on to cb->fn all the same,    *)
(* with rv = -3 until something else is assigned to it.                    *)
ChildLost ==
  /\ rv' = -3
  /\ pc' = "call"
  /\ lost' = lost \cup {entry}
  /\ failures' = failures \cup {"child"}
  /\ UNCHANGED <<cbvars, entry, target, xstat, visited>>

(* calloc() or glfs_object_copy() fails: nothing to undo.                  *)
CopyFails ==
  /\ pc = "copy"
  /\ ChildLost
  /\ UNCHANGED <<fds, objs>>

(* Faulty: the copy stays open.                                            *)
OpenChildFailsOpen ==
  /\ pc = "opendir"
  /\ ChildLost
  /\ UNCHANGED <<fds, objs>>

(* glfs_h_opendir() fails: the copy is closed.                             *)
OpenChildFails ==
  /\ pc = "opendir"
  /\ ChildLost
  /\ objs' = objs \ {entry}
  /\ UNCHANGED fds

(* Faulty: the list is counted down once more than up.                     *)
PathFailsCountedTwice ==
  /\ pc = "push"
  /\ rv' = -3
  /\ pc' = "call"
  /\ sz' = sz - 1
  /\ lost' = lost \cup {entry}
  /\ failures' = failures \cup {"child"}
  /\ fds' = fds \ {entry}
  /\ objs' = objs \ {entry}
  /\ UNCHANGED <<tree, cb, root, children, entry, target, xstat, visited>>

(* asprintf() fails: remove_last() takes the new child off the list again. *)
PathFails ==
  /\ pc = "push"
  /\ ChildLost
  /\ fds' = fds \ {entry}
  /\ objs' = objs \ {entry}

(* cb->fn runs, glfs_free() releases xstat_p and the object in it.         *)
Callback(ok) ==
  /\ pc = "call"
  /\ visited' = visited \cup {entry}
  /\ xstat' = NULL
  /\ target' = 0
  /\ IF ok THEN pc' = "read" /\ UNCHANGED rv ELSE Break(-2, entry)
  /\ UNCHANGED <<cbvars, entry, fds, objs, lost, failures>>

(* iter_cb_cleanup(): remove_last() until the list is empty, then root.fd. *)
Cleanup ==
  /\ pc = "idle"
  /\ pc' = "freed"
  /\ children' = <<>>
  /\ sz' = 0
  /\ fds' = fds \ (OnList \cup {Root})
  /\ objs' = objs \ OnList
  /\ UNCHANGED <<tree, cb, root, locals, history>>
-----------------------------------------------------------------------------
AddChild ==
  \/ CopyObject \/ CopyFails
  \/ OpenChild  \/ OpenChildFails
  \/ PushChild  \/ PathFails

Read ==
  \/ \E e \in Entry : ReadEntry(e)
  \/ \E e \in Dots : ReadDot(e)
  \/ ReadEndOfChild
  \/ ReadEndOfRoot
  \/ ReadFails

(* One step of iter_glfs_object_handle().                                  *)
IterStep == Read \/ AddChild \/ \E ok \in BOOLEAN : Callback(ok)

Next ==
  \/ \E r \in BOOLEAN, d \in MaxDepths : OpenRoot(r, d)
  \/ Start
  \/ IterStep
  \/ Cleanup

Spec == Init /\ [][Next]_vars
-----------------------------------------------------------------------------
TypeOK ==
  /\ tree \in Trees
  /\ cb \in [recurse : BOOLEAN, max_depth : Int]
  /\ root \in IterDir
  /\ children \in Seq(IterDir)
  /\ sz \in Nat
  /\ entry \in Entry \cup Dots \cup {NULL}
  /\ target \in Nat
  /\ rv \in -3..1
  /\ xstat \in Entry \cup {NULL}
  /\ fds \subseteq Entry \cup {Root}
  /\ objs \subseteq Entry
  /\ pc \in {"new", "idle", "read", "copy", "opendir", "push", "call", "freed"}
  /\ visited \subseteq Entry
  /\ lost \subseteq Entry
  /\ failures \subseteq {"read", "child"}

(* A directory whose entries the walk has to deliver: within max_depth and *)
(* not given up by add_child().                                            *)
Descended(d) ==
  \/ d = Root
  \/ /\ d \in tree.dirs \ lost
     /\ cb.recurse
     /\ cb.max_depth < 0 \/ Level(d) <= cb.max_depth

Ancestors(e) == {PathOf(e)[i] : i \in 1..(Level(e) - 1)}

Due == {e \in Entry : \A a \in Ancestors(e) : Descended(a)}

(* The last call returned the 0 of its end of file, not of a failed read.  *)
Exhausted == pc = "idle" /\ rv = 0 /\ "read" \notin failures

(* The depth and the parent path handed to cb->fn, which come from the     *)
(* length of the list and from the strings kept in it, are those of the    *)
(* directory the entry really is in, whatever was pushed, popped or given  *)
(* up before (target is read after add_child() changed the list).          *)
CallbackArguments ==
  pc = "call" =>
    LET d == tree.parent[entry] IN
    /\ IterDirAt(target).dir = d
    /\ IterDirAt(target).depth = Level(d)
    /\ IterDirAt(target).abspath = IF d = Root THEN NULL ELSE PathOf(d)

(* No entry is handed to cb->fn twice, over all the calls of one walk.     *)
VisitedOnce == pc = "call" => entry \notin visited

(* cb->fn sees a directory before it sees anything in it.                  *)
PreOrder == \A e \in visited : Ancestors(e) \subseteq visited

(* The list is never longer than max_depth, although the code only tests   *)
(* the two for equality, and stays empty when not recursing.               *)
DepthBounded ==
  /\ cb.max_depth >= 0 => Len(children) <= cb.max_depth
  /\ ~cb.recurse => children = <<>>

(* Every glfs_fd_t and glfs_object_t the walk opened is on the list, or in *)
(* the hands of add_child(), and children.sz counts the list: none leaks   *)
(* on an error path and none is closed while the list still refers to it.  *)
HeldExactly ==
  /\ sz = Len(children)
  /\ fds = (IF pc \in {"new", "freed"} THEN {} ELSE {Root}) \cup OnList
           \cup (IF pc = "push" THEN {entry} ELSE {})
  /\ objs = OnList \cup (IF pc \in {"opendir", "push"} THEN {entry} ELSE {})
  /\ xstat = IF pc \in {"copy", "opendir", "push", "call"} THEN entry ELSE NULL

(* When a call returns 0 at the end of file, cb->fn has seen every entry   *)
(* within max_depth that is not below a directory add_child() failed on,   *)
(* and nothing else.                                                       *)
Complete == Exhausted => visited = Due

(* The comment at pyglfs-iter.c:135 says that 0 is returned if there are   *)
(* no more entries.                                                        *)
ZeroMeansNoMoreEntries ==
  pc = "idle" /\ rv = 0 => root.rest = {} /\ children = <<>>

(* The comment at pyglfs-iter.c:132 says that -3 is returned if a child    *)
(* directory failed to open during a recursive operation.                  *)
ChildFailureReturned ==
  pc = "idle" /\ failures = {"child"} => rv \in {-3, -2}

Walk == INSTANCE TreeWalk WITH limit <- cb, ended <- Exhausted

(* The walk implements the traversal that TreeWalk promises.               *)
ImplementsTreeWalk == Walk!Spec
=============================================================================
