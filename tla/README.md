# pyglfs: a TLA+ model of the Python bindings for libgfapi

pyglfs lets Python programs work on a GlusterFS volume through libgfapi. It is
about 4000 lines of C (`src/`), a CPython extension. Paths below are those of
the repository; `iter.c` is short for `src/pyglfs-iter.c`, and so on.

## The system

| part | code | state | operations |
|---|---|---|---|
| Volume | `volume.c` | `fs` (the `glfs_t`), servers, xlators, logging | `Volume(...)`, `get_root_handle`, `open_by_uuid`, `getcwd`, end |
| ObjectHandle | `handle.c` | `gl_obj`, `py_fs`, cached stat, uuid, name | `lookup`, `create`, `mkdir`, `unlink`, `stat`, `open`, `contents`, `fts_open`, `setattrs`, end |
| FD | `fd.c` | `fd`, `parent`, flags | reads, writes, seeks, locks, xattrs, ..., end |
| FTSHandle, FTSIterator, FTSEntry | `fts.c` | `obj`; `fts_root` and a `glfs_object_cb_t`; `obj` and `fts_root` | `iter()`, `next()`, getters, end |
| object iterator | `iter.c`, `pyglfs.h` | `glfs_object_cb_t`: root, list of open directories, `max_depth` | `iter_glfs_object_handle()`, `iter_cb_cleanup()` |
| errors, stat, module | `pyglfs.c`, `stat.c`, `includes.h` | none | formatting, conversion, initialisation |

How they interact. Every Python object that owns a libgfapi handle keeps alive
the object its handle depends on: FD -> ObjectHandle -> Volume, FTSIterator ->
FTSHandle -> ObjectHandle, FTSEntry -> FTSHandle and its own ObjectHandle.
`next()` and recursive `setattrs()` both drive the one object iterator and give
it a callback. There are no threads in pyglfs itself, but every libgfapi call
(except `glfs_posix_lock()` and the calls in `tp_dealloc`) is made with the GIL
released, so the threads of the Python program interleave at those calls.

What is hard. Each libgfapi call can fail, in the middle of structures that are
half built; the state of a walk survives from one call to the next; objects die
on whichever thread drops the last reference, while other threads are inside
libgfapi; `py_glfs_dealloc()` releases the GIL in the middle of a deallocation.
A Volume may be initialised again, or by two threads. `contents()` goes by a
cached stat of a file that others change. `glfs_posix_lock()` waits with the GIL
held.

What makes the parts correct:

* object iterator: each entry once, directory first, nothing missed, right
  depth and path, no directory left open, failures reported;
* FTS iterator: one item or one exception per `next()`, nothing skipped between
  the calls, each copied object closed exactly once, loops end;
* setattrs: a partial change is understandable and is reported, a quiet end
  means that all has been changed;
* lifetimes: no use after close, `glfs_fini()` last, nothing leaked;
* Volume: each `glfs_t` finished at most once and by the right owner, whatever
  step of `__init__()` fails; the description agrees with the mount;
* contents and FD: what is read was there, buffers live as long as libgfapi uses
  them and no longer;
* locks: a thread that waits is not waiting for a thread it stops.

`PROJECT.json` lists the hazards one by one, with the line of each, and the
properties that watch it.

## Modules

| module | models | extends |
|---|---|---|
| `ObjectIter` | the walk of `iter.c` | |
| `TreeWalk` | what the walk promises: the abstract specification | |
| `ObjectIterProofs` | proofs about `ObjectIter`, and that it implements `TreeWalk` | `ObjectIter` |
| `FtsIter` | `iter()`, `next()` and deallocation in `fts.c` | `ObjectIter` |
| `FtsIterProofs` | proofs about `FtsIter` | `FtsIter`, `ObjectIterProofs` |
| `SetAttrs` | `ObjectHandle.setattrs()` | `ObjectIter` |
| `Handles` | references, libgfapi handles, the GIL and `tp_dealloc` of all types | |
| `Lifetimes` | the order in which libgfapi wants to be called: the abstract specification for `Handles` | |
| `Volume` | `__init__()`, getters and end of one Volume in `volume.c` | |
| `FdCalls` | the methods of an FD in `fd.c`, but for `posix_lock()` | |
| `Contents` | `stat()` and `contents()` of `handle.c`, next to the methods of FDs | `FdCalls` |
| `PosixLock` | `FD.posix_lock()` in several processes | |
| `SetAttrsProofs` | proofs about `SetAttrs`, and that it walks as `TreeWalk` allows | `SetAttrs`, `ObjectIterProofs` |
| `HandlesProofs` | proofs about `Handles`, and that it implements `Lifetimes` | `Handles` |
| `VolumeProofs` | proofs about `Volume` | `Volume` |
| `ContentsProofs` | proofs about `Contents` and `FdCalls` | `Contents` |
| `PosixLockProofs` | proofs about `PosixLock` | `PosixLock` |
| `MCTrees`, `MCObjectIter`, `MCFtsIter`, `MCSetAttrs`, `MCHandles`, `MCVolume`, `MCContents`, `MCPosixLock` | instances for TLC | the above |

Some definitions are marked `Faulty:`. They are not part of any specification:
each is one action as a plausible mistake would have it, and shows that a
property notices that mistake.

### ObjectIter

One `glfs_object_cb_t` and one thread. `tree` is the volume, which does not
change during the walk; it gives the parent and the path of every entry and
says which are directories. `root` and `children` are `cb->root` and the linked
list (deepest last, so that a position is a depth); `sz` is `cb->children.sz`;
`entry`, `target`, `rv`, `xstat` are the locals. `fds` and `objs` are the
`glfs_fd_t` and `glfs_object_t` the walk must close. `pc` names the libgfapi
call that comes next:

    idle -Start-> read -ReadEntry-> copy -> opendir -> push -> call -> read ...

`ReadEntry`, `ReadDot`, `ReadEndOfChild`, `ReadEndOfRoot` and `ReadFails` are
the outcomes of `glfs_xreaddirplus_r()`. `CopyObject`, `OpenChild`, `PushChild`
are `add_child()`, and `CopyFails`, `OpenChildFails`, `PathFails` its three error
paths, after which the walk goes on to the callback with `rv = -3`. `Callback`
is `cb->fn`. `Break` has the test at the end of the function, which replaces any
`rv` by 0 when `entry` is null. `Cleanup` is `iter_cb_cleanup()`. `visited`,
`lost` and `failures` are history.

`TreeWalk` has no list: it says which entry may be delivered next, which
directory may be given up, and when the end may be announced. `ImplementsTreeWalk`
is the refinement, with `ended` standing for "the last call returned the 0 of
its end of file".

### FtsIter

Adds to the walk what `py_fts_iter_next()`, `py_fts_do_iter()` and
`init_ftsent_object()` do: the copy of the object, the entry built or not, the
exception chosen. `answer` is what Python sees. The program may drop entries and
the iterator at any time between calls, and may call `next()` again after any
answer, `StopIteration` included: nothing in the iterator remembers that it has
ended, so each such call walks again. When the opening of the directory fails,
`init_fts_iter()` releases an iterator whose `fts_root` was never set;
`PyObject_New()` does not clear memory, so `IterFails` leaves open whether
`Py_CLEAR()` finds a null pointer. If it does not, the model stops (`wild`).

### SetAttrs

`setattrs()` after its argument checks: the attributes of the handle itself,
the opening of the directory, one call of the walk with `setattrs_cb()`, the
return. `max_depth` is parsed and goes nowhere (`handle.c:698` walks with -1), and
so the model has no such argument. `changed` is the set of files whose attributes have been set. `doing`
ends in `none` or `null`, what Python is given, or `crashed`, where
`strlcpy()` is given the null path of the directory itself.

### Handles

Objects have a `kind`, the fields `base` (`py_fs`, `parent`, `obj`, `fts_root`)
and `item` (`FTSEntry.obj`), and a reference count, kept as the set of those who
took a reference: objects with a field, threads with a local variable, and the
Python program. A method is the steps between two points at which the GIL is
free: `CallLookup`, then `Looked` with `glfs_h_extract_handle()` still to come,
then `Extracted`, then `Return`. `Drop` is the program letting go of an object.
At zero, the thread runs `tp_dealloc` (`dying`) field by field in the order of
the code: `CloseNative`, `ClearBase`, `ClearItem`, `Free`; for a Volume,
`BeginFini` and `EndFini`, between which other threads run. A libgfapi handle
is named after the object it was opened for. `stranded` are the handles nobody
can close any more: the code loses them when the ObjectHandle cannot be
allocated or `glfs_h_extract_handle()` fails, and when a recursive `setattrs()` fails
with directories below its own on the list (`UsedNoCleanup`; one stranded handle
stands for all that such a call leaks). Each type has its own places for
objects (`Place`); the place of a freed object is used again, that of a
stranded handle is not.

`Lifetimes` knows no objects, references or GIL, only handles: which `glfs_t` each
one that is open was opened with (`under`), which ones the calls of a thread use
(`uses`), and for which `glfs_t` `glfs_fini()` runs (`finishing`). A handle is opened
below a `glfs_t` that its thread uses and is closed when no call uses it;
`glfs_fini()` begins when nothing else is open below. `ImplementsLifetimes` is the
refinement: `Below` is `under` without the stranded handles, `Uses` the handles of the call
a thread is in, and `BeingFinished` the Volumes between `BeginFini` and `EndFini`.

### Volume

One Volume from `tp_alloc` to `tp_free`. `volfile_servers`, `srv_cnt`, `xlators`
and `fs` are its fields; `heap` and `mounts` say what each array that is
allocated holds and what each `glfs_t` that is not finished was configured with.
`__init__()` has one action for each way it can end before `glfs_init()`:
`FillFails` (the list of servers is refused), `NewFails`, `ConfigureFails` (a
server or the log file), `XlatorsRefused`, `XlatorsOverrun`, and `Begin`, which
releases the GIL; then `Ready` or `InitFails`. They may run again and again and in
several threads, as a subclass that retries `super().__init__()` does, while
`BeginMethod`/`EndMethod` are inside libgfapi with the `glfs_t` they read.

Four places in this code read or write memory that is not there: the getter of
`volfile_servers` after `set_xlators()` failed (`srv_cnt` is kept, `volume.c:420`), the
getter of `translators` after the program let go of the list it passed (no
reference is taken, `volume.c:522`; a list literal in the call of `Volume()` is
enough), an entry whose `proto` is not a string (`host` is tested again in its
place, `volume.c:189`), and a translator tuple of more than three strings
(`volume.c:325`). In the model they set `wild`, and nothing is said of what
follows. The first two are the guards of `GetServers` and `GetXlators`.

Which result of `glfs_set_xlator_option()` means failure is left open: the code
takes 0 for it (`volume.c:342`), which is what libgfapi returns for success, so
that in practice every list of translators that is not empty is refused.

### FdCalls and Contents

One file, as `size`, `attrs` (lengths of extended attributes) and the offset `pos`;
a byte string is its length. A method has three steps, with the GIL, in libgfapi,
and with the GIL again; `frame` has the locals of each thread. `saw` is history:
what libgfapi found or did.
The loop over `buffer_sizes` in `fgetxattr()` and `flistxattr()` is `XattrDone` and
`XattrAgain`. In `lseek()` the new offset is assigned to an `int`, and everything
but 0 taken for an error (`fd.c:332`): `ToInt` truncates as the assignment does.
`WriteNoMemory` is a `pwrite()` that has written and cannot say so (`fd.c:462`).

`Contents` adds `cached`, the `st_size` of `self->st`. `contents()` of a file opens a
temporary FD (`fds`) and calls its `pread()`, which is the `pread` of `FdCalls`; that of
a directory fills a `struct d_array` (`array`), one `Readdir` after the other, and
returns to Python in `ListReturns` or `ListFails`, which loses the array. Two
variables are history. `heap` is what `malloc` has given and `free` not taken back,
whether the thread still knows the address or not, so that a lost array differs
from a freed one; `known` is the set of sizes that the cached stat had while a
thread was in `contents()`. Both are forgotten when the thread goes on to its next
method. `Elsewhere` is another client of the volume.

### PosixLock

`held` is the brick's table of locks, by process. `Legal` has the three checks of
`py_glfs_fd_posix_lock()`. A thread whose lock is not free waits (`waits`) and keeps
its process's GIL (`gil`), so that `Runs` is false for every thread of that process
until `Grant` or `LockFails`.

## What is checked

| run | instance | shows |
|---|---|---|
| `iter_safety` | every tree of 3 entries, `max_depth` in -2..2, any number of calls | `TypeOK`, `CallbackArguments`, `VisitedOnce`, `PreOrder`, `DepthBounded`, `HeldExactly`, `Complete`, `ImplementsTreeWalk` |
| `fts_safety` | every tree of 2 entries, `max_depth` in {-1, 1} | `NeverBoth`, `NothingSkipped`, `StopMeansAll`, `CopiesOwned`, `StopIsFinal`, `LoopEnds` |
| `set_attrs` | every tree of 3 entries, recursive or not | `ChangedFromTop`, `FailureIsReported`, `QuietIsDone`, `OpenChangeRead`, `Returns` |
| `handles` | 2 threads; 2 Volumes, 2 ObjectHandles, and one object of each other type, at a time | `Counted`, `NoDangling`, `NoUseAfterClose`, `FiniLast`, `OneOwner`, `AllClosed`, `ImplementsLifetimes` |
| `volume` | 2 threads, 3 arrays, 3 `glfs_t` and 2 lists at a time, servers of 2 lengths | `MountsOwned`, `MethodMountOpen`, `ServersOwned`, `ServersOfMount` |
| `files` | a reader and a writer, 3 programs, sizes 0..2, attributes up to 3 | `ContentsExplained`, `WholeXattr`, `HeldForTheCall` |
| `locks` | 2 processes of 2 threads, 2 locks | `WaitEnds` |

Bounds. Three entries give chains of three levels, siblings next to a
directory, a directory after a directory, and empty directories; a directory
that cannot be opened can have entries, and a sibling that can. `max_depth` -2
and -1 are both "no limit", 0 to 2 cut each level. `.` and `..` behave alike
and are one entry. The walk has a finite state space, so the number of calls is
not bounded.

In `handles` the places are enough for two handles of one Volume or of two, for
an FD, and for an FTSEntry with its ObjectHandle next to the iterator and the
FTSHandle; since places are used again, the number of objects made one after
the other is not bounded, except by handles that are stranded. In `volume` the
arrays that a later `__init__()` forgets use up places: three calls get as far as
that, enough for one that succeeds, one that overlaps and one that fails. In
`files` the array of entries begins with one place and doubles, so that it grows
twice; attributes can be longer than both buffers; an `int` has two values, and
the offset 2 is one that it takes for 0. A thread forgets the array it lost with
its next method, so leaks do not add up. Which methods meet which is given by
`SomePrograms`: contents with what changes the file or the cache, the reading of
extended attributes with their setting, and the plain calls. In `locks` each
process has a thread to wait and one to hold.

The runs but `files` say `CHECK_DEADLOCK FALSE`: walks end, iterators are dropped,
a Volume is deallocated, places are used up, memory that is not there may be
read, and processes may wait for each other for ever.

Fairness. `FairFtsSpec` assumes that a `next()` that has begun goes on, that is
that libgfapi calls return, and that a for loop calls `next()` again as long as
it gets an item. `FairSetSpec` assumes that a `setattrs()` that has begun goes on.
Both are weak fairness of one thread's own steps, which the GIL and a libgfapi
that answers or times out provide. No fairness between threads is assumed there.
`PosixLock` assumes strong fairness of `Unlock`, as a promise of the program to
release what it took, even if others keep taking the GIL from it, and of `Grant`,
the brick's wake-up of a waiting lock. `WaitEnds` is conditional: again and again
no process waits while it holds a lock (`Considerate`). TLC refutes it without the
condition, with two processes whose threads each hold or want one lock only, and
the GIL that a waiting thread keeps is the reason: were it released, the
condition would hold in every state and the waits would end.

### Where the code and its comments disagree

| run | property | |
|---|---|---|
| `iter_zero` | `ZeroMeansNoMoreEntries` | a failed read with no entry in hand is returned as 0, "no more entries" (`iter.c:135`, `:226`) |
| `iter_child_failure` | `ChildFailureReturned` | -3 is never returned (`iter.c:132`, `:209`) |
| `fts_silent_end` | `EndsWithException` | `next()` after a failed read ends the loop without an exception (`fts.c:320`, `:341`) |
| `set_parent_path` | `ParentPathGiven` | the parent path of an entry of the directory itself is a null pointer, which `setattrs_cb()` copies on failure (`iter.c:128`, `handle.c:678`) |
| `lseek_answer` | `LseekAnswered` | `lseek()` raises after it has moved to an offset other than 0 (`fd.c:298`, `:312`, `:332`) |

Three more need no run to be seen, since one line of code shows each:

* `max_depth` of `setattrs()` is documented at `handle.c:752` and has no effect:
  `handle.c:698` passes -1;
* `contents()` is said to return "contents of file" (`handle.c:410`), but reads as
  many bytes as the cached stat says (`handle.c:452`): a file that has grown since
  is cut off, and one that was empty is not even opened. `ContentsExplained` says
  what it does return, and does not claim that it is the contents of the file;
* `pwrite()` is said to return `None` (`fd.c:413`) and returns the number of bytes
  written (`fd.c:462`).

The model follows the code in each case.

## What is proved

Every invariant and every action property that a passing run checks is also a
theorem, proved with TLAPS for all values of the constants. The assumptions are
named in the modules that declare the constants, and TLC evaluates them in the
runs.

### ObjectIterProofs

For every set of entries, every set of trees and every set of integers for
`max_depth`, the properties `iter_safety` checks: `TypeCorrect`, `CallbackArgumentsRight`, `NeverTwice`, `DirectoryFirst`,
`WithinDepth`, `NothingLeaks`, `AllDelivered` and `Refinement`.

Assumed are `NamesAssumption` (the root, the null pointer and the dots are not
entries), `TreesAssumption` (a tree's paths agree with its parents) and
`MaxDepthsAssumption`.

None of the properties is inductive. `IInv` adds what the code relies on
without saying so:

* `ListInv`: the directory at position i of the list has depth i, its own path,
  and is a directory that was delivered, or is being delivered;
* `FlightInv`: an entry between read and callback is new, and comes from the
  directory `target` stands for, although `add_child()` may have put another at
  the head of the list;
* `UnreadInv` and `VisitedInv`: what is unread in an open directory has not been
  delivered, and whatever was delivered lies below directories the walk entered;
* `OwedInv`: an entry of a directory on the walk's way that was not delivered is
  in flight, or unread in that directory, which is then still on the list;
* `ReturnInv`: at the end of file the list is empty and the root exhausted.

One lemma per action shows that it keeps `IInv`; `Invariance` puts them
together. `AllDelivered` then takes an entry that should have been delivered and
was not, of least depth (`WFMin` of the library, on the length of the path):
its parent was delivered and is exhausted, which contradicts the invariant.
`Refinement` maps `Callback` to `Deliver`, the failures of `add_child()` to `Lose`,
the end of file to `End`, the next `Start` to `AskAgain`, and all else to a
stutter.

### FtsIterProofs

`FtsIterProofs` proves the safety properties `fts_safety` checks from the same
assumptions: `FtsTypeCorrect`, `ItemOrError`, `NoneSkipped`,
`CopiesHaveOwners`, `StopAfterAll` and `StopStays`. The actions of `FtsIter` are built
on those of `ObjectIter`, so the lemmas `FtsStepIsStep` and `WalkKept` hold by
construction; they make `IInv` and the theorems above available. `FtsInv` adds to `IInv`:

* `CallInv`: a `next()` starts clean, and holds a copy only while its entry is
  in the callback;
* `AccountInv`: between two calls, what was delivered is what was yielded or
  refused; when a walk has just ended with -2, `out`, `error` and `copy_failed`
  tell one of three outcomes for the one entry more, and when it ended with 0
  or -1 there is neither;
* `BuiltInv`: the entry in `out` is not one whose copy was stranded.

`NothingSkipped` then follows, with the cardinality of a set that is empty or
`{entry}`, and `StopMeansAll` is `Complete`, carried over by `WalkKept`, with
what was delivered replaced by what was yielded or refused. `StopStays` needs
`ReadEnds`: a read of an exhausted root with an empty list ends the walk or
fails, and with no entry in hand either is returned as 0, so that `next()`
answers `StopIteration` again and `Stopped` is kept.

### SetAttrsProofs

`SetAttrsProofs` proves the five invariants `set_attrs` checks, `SetTypeCorrect`,
`ChangesGoDown`, `ReturnReportsFailure`, `QuietMeansAllChanged` and
`ChangedBetween`, and that recursive `setattrs()` walks the tree as `TreeWalk` allows, without a limit of depth (`SetWalkRefinement`).
`UnlimitedAssumption` says that -1, which `do_recursive_setattrs()` passes
(`handle.c:698`), is one of `MaxDepths`. `SetInv` has, besides the type:

* `PhaseInv`: how far the walk is at each place of `py_glfs_obj_setattrs()`;
* `ChangeInv`: until the callback fails, the entries changed are the entries
  delivered, with the ancestors of each; afterwards one more was delivered, and
  the walk is over;
* `ReadInv`: a failed read was the last step of the walk, and its `rv` says so
  unless no entry was in hand;
* `IInv`, the invariant of the walk, up to the return. The return closes the
  directory of the handle while the list may still point into the tree, so `IInv`
  ends there; for `SetWalkRefinement` that step is a stutter.

That a quiet end has changed everything and closed all (`QuietIsDone`) rests on `EndIsComplete`,
the lemma behind `AllDelivered`, at the step that reads the end of file.
`AncestorsAreDirs` (whatever is above an entry is a directory, again by an entry
of least depth) gives that changed sets are closed upwards. `ReturnReportsFailure` covers the calls
that return: a `setattrs_cb()` that fails for an entry of the directory itself
crashes (`set_parent_path`). `ChangedBetween` covers the directories below the handle;
the handle itself is changed before it is opened (`handle.c:852`, `:702`), so a new
mode can shut the walk out, which the call then reports.

### HandlesProofs

`HandlesProofs` proves the seven invariants `handles` checks, for any number of
threads and of objects of each type: `HandlesTypeCorrect`, `ReferencesAreCounted`,
`PointersAreAlive`, `HandlesOutliveCalls`, `FinishedLast`, `HandlesAreOwned` and
`EverythingIsFreed`. `HandlesAssumption` says that objects, threads, the program
and the null pointer are different things, and that `Place` names objects. `HInv`
has:

* `RefInv`: `Counted`, holder by holder; each decrement needs to know which one
  reference it gives up;
* `FieldInv`: fields point from a type only to the types below it. Hence there is
  no cycle, and what is reached through fields ends in a Volume;
* `LifeInv`, `DyingInv`, `BusyInv`: an object is alive as long as somebody refers to it
  or one thread is deallocating it; it is on one such list at most, once, and a
  thread that deallocates is in no method;
* `FrameInv`, `MadeInv`: the types of the local variables at each place in a method,
  and that an object being made is known to nobody else and is empty;
* `WholeInv`: all other objects that are referred to have their fields and handle;
* `OwnsInv`, `OwnerInv`, `StrandedInv`: an open handle belongs to a living object, to a
  method that is making one, or is stranded, and an object closes its handle
  before it gives up the reference below it;
* `FsInv`: a handle was opened with the `glfs_t` of the Volume that its object keeps
  alive, so that the two can be compared at all.

The heart is a short argument that no single part gives: a method holds `self`
(`RefInv`), which is whole (`WholeInv`), so that its fields lead (`FieldInv`) to a Volume
that is referred to (`RefInv` again) and hence not dying (`LifeInv`) and still has its
`glfs_t` (`WholeInv`): `VolumeReached`. `NoUseAfterClose` and `FiniLast` follow from it with
`FsInv`. `AllClosed` goes down the types: nothing refers to an FTSEntry, an iterator or
an FD but the program and the threads; then nothing to an FTSHandle, an
ObjectHandle, a Volume.

`LifetimesRefinement` maps the calls of methods to `Begin` (`NewVolume` to `New`), the
steps that return a new handle, such as `Looked` and `Opened`, to `Obtain`, the other
ends of a libgfapi call to `End`, the failures after which a handle obtained is
closed or stranded to `GiveUp`, `CloseNative` to `Close`, `BeginFini` and `EndFini` to their namesakes, and
all that only moves references to a stutter. What `Lifetimes` asks for is what the
code never tests: `CallOwns` (the handle of `self` and its `glfs_t` have owners that
are not being deallocated) gives the guard of `Begin`, `UsedFacts` that of `Close`, since an
object on a list `dying` is used by no call, and `NothingOver` that of `BeginFini`: each
open handle stands over the `glfs_t` of a Volume that is alive, so none stands over
one whose Volume is at its end. `NestedCalls`, in `Lifetimes` itself, proves what that order
is for, and `CallsAreNested` carries it over to the objects.

### VolumeProofs

`VolumeProofs` proves the five properties `volume` checks, for any number of
threads, servers, lists and calls of `__init__()`: `VolumeTypeCorrect`,
`EveryMountOwned`, `MethodsKeepTheirMount`, `ServerArraysOwned` and
`ServersAreTheMounts`. Assumed is `VolumeAssumption` (a server names a number of
hosts, and the null pointer is none of the other values). The proofs say nothing
of what follows a read of memory that is not there: `Next` stops at `wild`.
`VInv` adds to the type and to `MountsOwned`, which is inductive with it:

* `MethodInv`: the `glfs_t` a method read is still in `self->fs` or was replaced by
  a later `__init__()`, and a replaced one is never finished;
* `EndInv`: once the deallocation has begun there is nothing but its one
  `glfs_fini()`;
* `ArraysInv`: each array that is allocated is the Volume's or lost, not both;
* `NewestInv`: as long as the `glfs_t` made last is open, be it starting, in use or
  already replaced by one that was made earlier and came back from `glfs_init()`
  later, `volfile_servers` is the array it was configured with. This links the
  fields that are set with the GIL held to `fs`, which is set after it was
  released, and gives the last conjunct of `ServersOwned` and `ServersOfMount`.

### ContentsProofs

`ContentsProofs` proves the four invariants `files` checks, for any threads and
programs, any size of files and attributes, any two buffers, any width of an
`int`, any first length of the array of entries and any growth of it:
`FilesTypeCorrect`, `ContentsAreReal`, `XattrsAreWhole` and `HeldWhileUsed`. `FdAssumption` and `ContentsAssumption` say that lengths and
buffers are not empty, that the array grows, that an `int` has an even number of
values, more than one, and that the null pointer is no number and no array.

Every variable but `size`, `attrs`, `pos`, `cached` and `type` is one thread's own, except that a
`stat()` adds to the `known` of all.
`FilesInv` is therefore the type and one `ThreadInv` for each thread, in ten parts,
and `StepKeeps` says once and for all that a step of one thread keeps those of the
others: nothing that a thread remembers depends on the size of the file, which
others change; and `cached`, once populated, stays so. The parts:

* `StageInv`, `ArgsInv`: what is left of a method between two, and what the checks
  before a call leave of the arguments;
* `ExportInv`, `OpenedInv`, `ArrayInv`: who holds a buffer, a temporary descriptor or an
  array at which step; the array holds the names read and has room for one more;
* `HeapInv`: an array whose address is known is allocated, and one that is
  allocated without is what a `contents()` left that found no memory for its list;
* `KnownInv`: the size `contents()` goes by is in `known`, from the call to the end of
  its `pread()`, whatever `stat()` puts into the cache meanwhile;
* `XattrInv`: the buffer is that of the attempt, and `ERANGE` speaks of that buffer;
* `BytesInv`, `ResultInv`: a `pread()` has what lay in the file at its instant, and the
  one of `contents()` begins with the first byte.

### PosixLockProofs

`PosixLockProofs` proves why the condition of `WaitEnds` is needed, for any number of
processes, threads and locks. `LockInv` has the type, `Exclusive` (a write lock of a
process keeps all others out) and `WaiterHasGil` (the one thread that waits is the
one that has the GIL of its process). From it:

* `LockTypeCorrect`;
* `WaiterStopsItsProcess`: while a thread waits, no thread of its process runs, and
  no second one waits;
* `EmbraceStays`, about steps: processes of which each waits for a lock that another
  of them holds go on doing so until libgfapi gives up for one of them, be
  their threads as they may. None of them can unlock, since the thread that waits has stopped
  all of its process.

`WaiterStopsItsProcess` and `EmbraceStays` state what no run does. `Exclusive` is what
the model takes from the brick, and is no result about pyglfs.

### What is only model-checked

The liveness properties `LoopEnds`, `Returns` and `WaitEnds`: fairness and ENABLED are
beyond the prover. The five properties that are violated are shown by their
counterexamples.

## What the models assume of libgfapi and CPython

* `glfs_xreaddirplus_r()` returns each entry once, sets the entry to null at
  the end, and leaves it alone when it returns -1.
* The volume does not change during one walk, and paths are short enough to
  compare: `asprintf()` fails or gives the path.
* A call of libgfapi that fails has changed nothing. What pyglfs raises after a
  call that succeeded is modelled (`WriteNoMemory`, `StatNoMemory`, `LseekReturns`).
* libgfapi refuses a null `glfs_t`. A `pread` or a call on an extended attribute is
  atomic; a list of names or a value is as long as it is at that instant.
* POSIX locks belong to a process: pyglfs never sets a lock owner.
* A caller holds a reference to `self` for the length of a method call; the GIL
  is free only where the code releases it or Python runs between two bytecodes.

## Not modelled, and the plan

Not modelled: the text of exceptions, the conversion of `struct stat`, module
initialisation, getters that only read, the bytes of files and the strings of a
Volume (a name or log file of exactly the size of its buffer loses its last
character, `volume.c:498`), packaging. Objects made by calling `ObjectHandle()` or
`FD()` directly have null handles; the methods do not expect that, and neither do
the models. Two threads in `next()` on one iterator race for its list and for a
thread state on one thread's stack; nothing true can be said of the outcome.

Every invariant and action property of the passing runs is proved. What could
follow is one abstract specification of an FD method (it takes effect at one
instant; `lseek()` and a `pwrite()` without memory for its answer raise all the same)
that `Contents` implements.
