------------------------------- MODULE Contents -------------------------------
(***************************************************************************)
(* ObjectHandle.stat() and ObjectHandle.contents(), next to the calls of   *)
(* FdCalls on the same file: contents() goes by the type and the size of   *)
(* the handle's cached stat, which stat() replaces and nothing else keeps  *)
(* up with the file.  The contents of a file are read by FD.pread(), of a  *)
(* temporary FD; those of a directory by get_dir_listing(), into an array  *)
(* that grows.                                                             *)
(***************************************************************************)
EXTENDS FdCalls

CONSTANTS
  FirstAlloc,  \* the length of the array to begin with: 16 in the code
  Growth       \* what it is multiplied with: 8 in the code

ASSUME ContentsAssumption ==
  /\ FirstAlloc \in Nat \ {0} /\ Growth \in Nat /\ Growth > 1
  /\ NULL \notin [next_idx : Nat, alloc : Nat]

VARIABLES
  type,        \* of the file
  cached,      \* self->st: its st_size, NULL when st is not populated
  fds,         \* the threads that have opened a glfs_fd_t to read contents
  array        \* struct d_array of each thread, or NULL

(* History: the threads whose array is allocated, if its address is kept   *)
(* or not, until their next method; and the sizes that the cached stat has *)
(* had while a thread was in contents().                                   *)
VARIABLES heap, known

handle == <<type, cached>>
temp == <<fds, array>>
past == <<heap, known>>
vars == <<fdVars, handle, temp, past>>
-----------------------------------------------------------------------------
(* The handle comes from a lookup with stat or without.                    *)
Init ==
  /\ FdInit
  /\ type \in {"FILE", "DIRECTORY", "SYMLINK"}
  /\ cached \in {size, NULL}
  /\ fds = {} /\ array = [t \in Thread |-> NULL]
  /\ heap = {} /\ known = [t \in Thread |-> {}]

CallStat(t) ==
  /\ Calls(t, "stat")
  /\ Enter(t, "stat", <<0, 0>>, 0)
  /\ UNCHANGED <<file, exports, handle, temp, past>>

StatDone(t) ==
  /\ In(t, {"stat"})
  /\ Over(t, size, "ok", size)
  /\ UNCHANGED <<file, exports, handle, temp, past>>

(* A contents() that is under way may go by the new size from now on.      *)
CacheIs(n) ==
  /\ cached' = n
  /\ known' = [t \in Thread |-> known[t] \cup IF known[t] = {} THEN {} ELSE {n}]

(* Faulty: it takes the result whatever it is.                             *)
StatReturnsAnything(t) ==
  /\ Back(t, {"stat"})
  /\ CacheIs(frame[t].ret)
  /\ IF Failed(t) THEN Raise(t, frame[t].outcome) ELSE Return(t, frame[t].ret)
  /\ UNCHANGED <<file, exports, saw, type, temp, heap>>

(* The cache takes the result when the GIL is back, which may be after     *)
(* that of a later stat().                                                 *)
StatReturns(t) ==
  /\ Back(t, {"stat"})
  /\ IF Failed(t)
     THEN Raise(t, frame[t].outcome) /\ UNCHANGED <<cached, known>>
     ELSE Return(t, frame[t].ret) /\ CacheIs(frame[t].ret)
  /\ UNCHANGED <<file, exports, saw, type, temp, heap>>

(* There is no memory for the result: the cache has it all the same.       *)
StatNoMemory(t) ==
  /\ Back(t, {"stat"}) /\ ~Failed(t)
  /\ Raise(t, "MemoryError")
  /\ CacheIs(frame[t].ret)
  /\ UNCHANGED <<file, exports, saw, type, temp, heap>>
-----------------------------------------------------------------------------
(* contents() without a populated stat.                                    *)
ContentsRefused(t) ==
  /\ Calls(t, "contents")
  /\ cached = NULL
  /\ Refuse(t, "contents", "NotImplementedError")
  /\ UNCHANGED <<file, exports, handle, temp, past>>

(* read_contents_reg(): an empty file is not opened.                       *)
ContentsEmpty(t) ==
  /\ Calls(t, "contents")
  /\ cached = 0 /\ type = "FILE"
  /\ frame' = [frame EXCEPT ![t] = [Idle EXCEPT !.at = "returned", !.fn = "contents",
                                                !.outcome = "ok"]]
  /\ saw' = [saw EXCEPT ![t] = size]
  /\ known' = [known EXCEPT ![t] = {cached}]
  /\ UNCHANGED <<file, exports, handle, temp, heap>>

(* glfs_h_open(), glfs_h_opendir() or glfs_h_readlink().                   *)
CallContents(t) ==
  /\ Calls(t, "contents")
  /\ cached # NULL /\ ~(cached = 0 /\ type = "FILE")
  /\ Enter(t, "contents", <<0, 0>>, 0)
  /\ known' = [known EXCEPT ![t] = {cached}]
  /\ UNCHANGED <<file, exports, handle, temp, heap>>

ReadlinkDone(t) ==
  /\ In(t, {"contents"}) /\ type = "SYMLINK"
  /\ Over(t, 0, "ok", NULL)
  /\ UNCHANGED <<file, exports, handle, temp, past>>

OpenDone(t) ==
  /\ In(t, {"contents"}) /\ type # "SYMLINK"
  /\ fds' = fds \cup {t}
  /\ Over(t, 0, "ok", NULL)
  /\ UNCHANGED <<file, exports, handle, array, past>>

(* Each of them may fail, and readlink() has nothing more to do.           *)
ContentsReturns(t) ==
  /\ Back(t, {"contents"})
  /\ Failed(t) \/ type = "SYMLINK"
  /\ IF Failed(t) THEN Raise(t, frame[t].outcome) ELSE Return(t, 0)
  /\ UNCHANGED <<file, exports, saw, handle, temp, past>>

(* Faulty: one byte more is asked for, as for a string.                    *)
ReadFileOneMore(t) ==
  /\ Back(t, {"contents"}) /\ ~Failed(t) /\ type = "FILE"
  /\ Enter(t, "pread", <<cached + 1, 0>>, cached + 1)
  /\ UNCHANGED <<file, exports, handle, temp, past>>

(* The glfs_fd_t becomes an FD, whose pread() is asked for as many bytes   *)
(* as the cached stat says now.  That is a method call like any other, and *)
(* PreadReturns ends it.                                                   *)
ReadFile(t) ==
  /\ Back(t, {"contents"}) /\ ~Failed(t) /\ type = "FILE"
  /\ Enter(t, "pread", <<cached, 0>>, cached)
  /\ UNCHANGED <<file, exports, handle, temp, past>>

(* There is no memory for an FD, which init_glfs_fd() answers with         *)
(* glfs_close(), or for the bytes.                                         *)
ReadFileFails(t) ==
  /\ Back(t, {"contents"}) /\ ~Failed(t) /\ type = "FILE"
  /\ Raise(t, "MemoryError")
  /\ fds' = fds \ {t}
  /\ UNCHANGED <<file, exports, saw, handle, array, past>>

InContents(t) == frame[t].at = "returned" /\ frame[t].fn = "pread" /\ t \in fds

(* pread() returned or raised: its result is that of contents(), and the   *)
(* FD is let go.                                                           *)
FileRead(t) ==
  /\ InContents(t)
  /\ frame' = [frame EXCEPT ![t].fn = "contents"]
  /\ fds' = fds \ {t}
  /\ UNCHANGED <<file, exports, saw, handle, array, past>>
-----------------------------------------------------------------------------
(* read_contents_dir(): get_dir_listing() allocates its array ...          *)
BeginListing(t) ==
  /\ Back(t, {"contents"}) /\ ~Failed(t) /\ type = "DIRECTORY"
  /\ array' = [array EXCEPT ![t] = [next_idx |-> 0, alloc |-> FirstAlloc]]
  /\ frame' = [frame EXCEPT ![t].at = "listing"]
  /\ saw' = [saw EXCEPT ![t] = 0]
  /\ heap' = heap \cup {t}
  /\ UNCHANGED <<file, exports, handle, fds, known>>

Listing(t) == frame[t].at = "listing" /\ array[t] # NULL

(* ... reads one entry after the other, and grows it when it is full ...   *)
Readdir(t) ==
  /\ Listing(t)
  /\ LET a == array[t] IN
     /\ a.next_idx < size
     /\ array' = [array EXCEPT ![t] =
          [next_idx |-> a.next_idx + 1,
           alloc |-> IF a.next_idx + 1 = a.alloc THEN Growth * a.alloc ELSE a.alloc]]
  /\ saw' = [saw EXCEPT ![t] = @ + 1]
  /\ UNCHANGED <<file, frame, exports, handle, fds, past>>

(* Faulty: an array that is not to be grown is not freed either.           *)
ListingFailsKeeping(t) ==
  /\ \/ Back(t, {"contents"}) /\ ~Failed(t) /\ type = "DIRECTORY"
     \/ Listing(t)
  /\ array' = [array EXCEPT ![t] = NULL]
  /\ fds' = fds \ {t}
  /\ Raise(t, "EIO")
  /\ UNCHANGED <<file, exports, saw, handle, past>>

(* ... and frees it when glfs_readdir_r() or an allocation fails: the      *)
(* directory is closed in either case.                                     *)
ListingFails(t) ==
  /\ \/ Back(t, {"contents"}) /\ ~Failed(t) /\ type = "DIRECTORY"
     \/ Listing(t)
  /\ array' = [array EXCEPT ![t] = NULL]
  /\ heap' = heap \ {t}
  /\ fds' = fds \ {t}
  /\ Raise(t, "EIO")
  /\ UNCHANGED <<file, exports, saw, handle, known>>

(* The directory has no more entries.                                      *)
ListingEnds(t) ==
  /\ Listing(t)
  /\ array[t].next_idx >= size
  /\ fds' = fds \ {t}
  /\ frame' = [frame EXCEPT ![t].at = "listed"]
  /\ UNCHANGED <<file, exports, saw, handle, array, past>>

(* The names become a list, or one of them does not become a string.       *)
ListReturns(t, error) ==
  /\ frame[t].at = "listed"
  /\ IF error = "none" THEN Return(t, array[t].next_idx) ELSE Raise(t, error)
  /\ array' = [array EXCEPT ![t] = NULL]
  /\ heap' = heap \ {t}
  /\ UNCHANGED <<file, exports, saw, handle, fds, known>>

(* There is no memory for the list: the address of the array is lost.      *)
ListFails(t) ==
  /\ frame[t].at = "listed"
  /\ Raise(t, "MemoryError")
  /\ array' = [array EXCEPT ![t] = NULL]
  /\ UNCHANGED <<file, exports, saw, handle, fds, past>>
-----------------------------------------------------------------------------
HandleStep(t) ==
  \/ CallStat(t) \/ StatDone(t) \/ StatReturns(t) \/ StatNoMemory(t)
  \/ ContentsRefused(t) \/ ContentsEmpty(t) \/ CallContents(t)
  \/ ReadlinkDone(t) \/ OpenDone(t) \/ ContentsReturns(t)
  \/ ReadFile(t) \/ ReadFileFails(t) \/ FileRead(t)
  \/ BeginListing(t) \/ Readdir(t) \/ ListingFails(t) \/ ListingEnds(t)
  \/ \E error \in {"none", "UnicodeError", "MemoryError"} : ListReturns(t, error)
  \/ ListFails(t)

(* The history of a call ends with it: what leaked is not followed up.     *)
GoesOn(t) ==
  /\ ~InContents(t) /\ Resume(t)
  /\ heap' = heap \ {t} /\ known' = [known EXCEPT ![t] = {}]
  /\ UNCHANGED <<handle, temp>>

(* A directory opens as an FD that has no bytes, a symbolic link does not. *)
FdMethodsOf ==
  CASE type = "FILE"      -> FdMethods
    [] type = "DIRECTORY" -> FdMethods \ {"ftruncate", "lseek", "pread", "pwrite"}
    [] type = "SYMLINK"   -> {}

Next ==
  \/ \E t \in Thread :
       \/ HandleStep(t)
       \/ /\ FdStep(t) /\ UNCHANGED <<handle, temp, past>>
          /\ frame[t] = Idle => frame'[t].fn \in FdMethodsOf
       \/ GoesOn(t)
  \/ Elsewhere /\ UNCHANGED <<handle, temp, past>>

Spec == Init /\ [][Next]_vars
-----------------------------------------------------------------------------
Methods == FdMethods \cup {"stat", "contents"}

Frames == [at : {"python", "libgfapi", "back", "returned", "listing", "listed"},
           fn : Methods \cup {"none"},
           arg : (-1..Larger(MaxSize, MaxAttr)) \X (Sizes \cup 0..2),
           room : Nat, attempt : 0..1, ret : Int,
           outcome : Errors \cup {"none", "ok", "NotImplementedError"}]

(* The type of every variable.                                             *)
FilesTypeOK ==
  /\ size \in Sizes /\ pos \in Sizes
  /\ attrs \in [{"value", "names"} -> Lengths \cup {NULL}]
  /\ frame \in [Thread -> Frames]
  /\ exports \subseteq Thread /\ fds \subseteq Thread
  /\ heap \subseteq Thread /\ known \in [Thread -> SUBSET Sizes]
  /\ saw \in [Thread -> Sizes \cup Lengths \cup {NULL}]
  /\ type \in {"FILE", "DIRECTORY", "SYMLINK"} /\ cached \in Sizes \cup {NULL}
  /\ array \in [Thread -> [next_idx : Nat, alloc : Nat] \cup {NULL}]
  /\ does \in Programs

Returned(t, fns) == frame[t].at = "returned" /\ frame[t].fn \in fns

(* contents() of a file gives as many bytes as the file has, but no more   *)
(* than the size that the handle's cached stat had at some time during the *)
(* call: not always the contents of the file, but none that were never     *)
(* read.  That of a directory has every name that was read while it        *)
(* changed, none of which was written behind the end of the array.         *)
ContentsExplained ==
  \A t \in Thread :
    /\ array[t] # NULL => array[t].next_idx < array[t].alloc
    /\ Returned(t, {"contents"}) /\ ~Failed(t) =>
         CASE type = "FILE" -> \E c \in known[t] : frame[t].ret = Smaller(c, saw[t])
           [] type = "DIRECTORY" -> frame[t].ret = saw[t]
           [] type = "SYMLINK" -> TRUE

(* What fgetxattr() and flistxattr() return is all that was there at one   *)
(* instant, although it may change between their attempts; and they raise  *)
(* ERANGE only when it is longer than the largest buffer.                  *)
WholeXattr ==
  \A t \in Thread : Returned(t, Xattr) =>
    /\ ~Failed(t) => frame[t].ret = saw[t]
    /\ frame[t].outcome = "ERANGE" => saw[t] > Rooms[Len(Rooms)]

(* The caller's object is kept for as long as libgfapi writes from it, the *)
(* temporary descriptor and the array for as long as contents() reads, and *)
(* none of them any longer, whatever fails.  The exception is an array of  *)
(* names for whose list there was no memory: it stays allocated, and       *)
(* nothing knows its address.                                              *)
HeldForTheCall ==
  \A t \in Thread :
    /\ t \in exports <=> In(t, {"pwrite", "fsetxattr"}) \/ Back(t, {"pwrite", "fsetxattr"})
    /\ frame[t].at \in {"python", "returned"} /\ ~InContents(t) => t \notin fds
    /\ frame[t].at = "listing" => t \in fds
    /\ array[t] # NULL <=> frame[t].at \in {"listing", "listed"}
    /\ array[t] # NULL => t \in heap
    /\ t \in heap /\ array[t] = NULL =>
         Returned(t, {"contents"}) /\ type = "DIRECTORY" /\ frame[t].outcome = "MemoryError"

(* The docstring at pyglfs-fd.c:295 says that lseek() repositions the      *)
(* offset and returns None: it does not raise when glfs_lseek() has moved. *)
LseekAnswered ==
  \A t \in Thread : Returned(t, {"lseek"}) /\ saw[t] # NULL => ~Failed(t)
=============================================================================
