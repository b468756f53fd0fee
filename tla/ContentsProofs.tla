----------------------------- MODULE ContentsProofs -----------------------------
(***************************************************************************)
(* Proofs about Contents and the FdCalls it extends, for any number of     *)
(* threads, any program, any size and any buffers: what a method returns   *)
(* is what libgfapi found, contents() goes by a size that the cached stat  *)
(* had while it ran, and what a method holds for the time of a call it     *)
(* holds exactly so long.                                                  *)
(***************************************************************************)
EXTENDS Contents, TLAPS

-----------------------------------------------------------------------------
(* The inductive invariant, for one thread at a time.                      *)

(* Between two methods nothing is left of the last one.                    *)
StageInv(t) ==
  /\ frame[t].at = "python" => frame[t] = Idle
  /\ frame[t].at = "back" => frame[t].outcome \in Errors \cup {"ok"}
  /\ frame[t].at \in {"listing", "listed"} => frame[t].fn = "contents"

(* What the checks before the call leave of the arguments.                 *)
ArgsInv(t) ==
  LET arg == frame[t].arg IN
  /\ In(t, {"ftruncate"}) => arg[1] \in Sizes
  /\ In(t, {"fsetxattr"}) => arg[1] \in Lengths
  /\ In(t, {"lseek"}) => arg[2] \in 0..2
  /\ In(t, {"pwrite"}) => arg[1] \in Nat /\ arg[2] \in Nat /\ arg[1] + arg[2] <= MaxSize
  /\ In(t, {"pread"}) => arg[1] \in Sizes /\ arg[2] \in Sizes

ExportInv(t) ==
  LET writes == {"pwrite", "fsetxattr"} IN
  t \in exports <=> In(t, writes) \/ Back(t, writes)

(* The buffer is that of the attempt, and ERANGE speaks of this buffer.    *)
XattrInv(t) ==
  /\ In(t, Xattr) \/ Back(t, Xattr) => frame[t].room = Rooms[frame[t].attempt + 1]
  /\ (Back(t, Xattr) \/ Returned(t, Xattr)) /\ ~Failed(t) => frame[t].ret = saw[t]
  /\ Back(t, Xattr) /\ frame[t].outcome = "ERANGE" =>
       saw[t] \in Lengths /\ saw[t] > frame[t].room
  /\ Returned(t, Xattr) /\ frame[t].outcome = "ERANGE" => saw[t] > Rooms[Len(Rooms)]

(* pread() returns what is within the file, and for contents() it is asked *)
(* for what begins with the first byte.                                    *)
BytesInv(t) ==
  LET arg == frame[t].arg IN
  /\ (Back(t, {"pread"}) \/ Returned(t, {"pread"})) /\ ~Failed(t) =>
       saw[t] \in Sizes /\ frame[t].ret = Smaller(arg[1], Larger(saw[t] - arg[2], 0))
  /\ t \in fds /\ frame[t].fn = "pread" => arg[2] = 0 /\ type = "FILE"

(* The temporary descriptor goes from the open to the end of the reads.    *)
OpenedInv(t) ==
  /\ Back(t, {"stat"}) /\ ~Failed(t) => frame[t].ret \in Sizes
  /\ In(t, {"contents"}) \/ Back(t, {"contents"}) => cached # NULL
  /\ Back(t, {"contents"}) /\ ~Failed(t) => (t \in fds <=> type # "SYMLINK")
  /\ t \in fds =>
       \/ Back(t, {"contents"}) /\ ~Failed(t)
       \/ frame[t].at = "listing"
       \/ frame[t].fn = "pread" /\ frame[t].at \in {"libgfapi", "back", "returned"}

(* The array holds the names that were read, and has room for one more.    *)
ArrayInv(t) ==
  /\ frame[t].at = "listing" => t \in fds
  /\ array[t] # NULL <=> frame[t].at \in {"listing", "listed"}
  /\ array[t] # NULL =>
       /\ type = "DIRECTORY"
       /\ array[t].next_idx = saw[t] /\ array[t].next_idx < array[t].alloc
       /\ array[t].next_idx \in Sizes

(* An array is allocated as long as its address is known, and one whose    *)
(* address was lost is what the last method left.                          *)
HeapInv(t) ==
  /\ array[t] # NULL => t \in heap
  /\ t \in heap /\ array[t] = NULL =>
       Returned(t, {"contents"}) /\ type = "DIRECTORY" /\ frame[t].outcome = "MemoryError"

(* The size that contents() goes by is one that the cached stat has had.   *)
KnownInv(t) ==
  /\ In(t, {"contents"}) \/ Back(t, {"contents"}) => cached \in known[t]
  /\ t \in fds /\ frame[t].fn = "pread" => frame[t].arg[1] \in known[t]

ResultInv(t) ==
  Returned(t, {"contents"}) /\ ~Failed(t) =>
    /\ type = "FILE" => \E c \in known[t] : frame[t].ret = Smaller(c, saw[t])
    /\ type = "DIRECTORY" => frame[t].ret = saw[t]

ThreadInv(t) ==
  /\ StageInv(t) /\ ArgsInv(t) /\ ExportInv(t) /\ XattrInv(t) /\ BytesInv(t)
  /\ OpenedInv(t) /\ ArrayInv(t) /\ HeapInv(t) /\ KnownInv(t) /\ ResultInv(t)

FilesInv == FilesTypeOK /\ \A t \in Thread : ThreadInv(t)
-----------------------------------------------------------------------------
(* What the steps have in common.                                          *)

(* The other threads' part of the state.  Their history of the cached stat *)
(* only grows, and keeps up with it.                                       *)
Others(t) ==
  \A u \in Thread \ {t} :
    /\ frame'[u] = frame[u] /\ saw'[u] = saw[u] /\ array'[u] = array[u]
    /\ u \in exports' <=> u \in exports
    /\ u \in fds' <=> u \in fds
    /\ u \in heap' <=> u \in heap
    /\ known[u] \subseteq known'[u]
    /\ cached \in known[u] => cached' \in known'[u]

(* A step of one thread leaves the invariants of the others alone, since   *)
(* the type never changes and a stat that is populated stays so.           *)
LEMMA StepKeeps ==
  ASSUME FilesInv, NEW t \in Thread, Others(t), FilesTypeOK', ThreadInv(t)',
         type' = type, cached # NULL => cached' # NULL
  PROVE  FilesInv'
<1>1. ASSUME NEW u \in Thread \ {t} PROVE ThreadInv(u)'
  <2>1. /\ frame'[u] = frame[u] /\ saw'[u] = saw[u] /\ array'[u] = array[u]
        /\ u \in exports' <=> u \in exports
        /\ u \in fds' <=> u \in fds
        /\ u \in heap' <=> u \in heap
        /\ known[u] \subseteq known'[u]
        /\ cached \in known[u] => cached' \in known'[u]
    BY DEF Others
  <2>2. ThreadInv(u)
    BY DEF FilesInv
  <2>3. StageInv(u)' /\ ArgsInv(u)' /\ ExportInv(u)'
    BY <2>1, <2>2 DEF ThreadInv, StageInv, ArgsInv, ExportInv, In, Back
  <2>4. XattrInv(u)'
    BY <2>1, <2>2 DEF ThreadInv, XattrInv, In, Back, Returned, Failed
  <2>5. BytesInv(u)' /\ OpenedInv(u)'
    BY <2>1, <2>2 DEF ThreadInv, BytesInv, OpenedInv, In, Back, Returned, Failed
  <2>6. ArrayInv(u)'
    BY <2>1, <2>2 DEF ThreadInv, ArrayInv
  <2>7. HeapInv(u)' /\ KnownInv(u)'
    BY <2>1, <2>2 DEF ThreadInv, HeapInv, KnownInv, In, Back, Returned
  <2>8. ResultInv(u)'
    BY <2>1, <2>2 DEF ThreadInv, ResultInv, Returned, Failed
  <2> QED  BY <2>3, <2>4, <2>5, <2>6, <2>7, <2>8 DEF ThreadInv
<1>2. \A u \in Thread : ThreadInv(u)'
  BY <1>1
<1> QED  BY <1>2 DEF FilesInv

(* The cached stat stays as it is or takes a new size.                     *)
Learns ==
  \/ cached' = cached /\ known' = known
  \/ \E n \in Sizes : CacheIs(n)

LEMMA LearnsFacts ==
  ASSUME FilesInv, Learns
  PROVE  /\ cached' \in Sizes \cup {NULL} /\ (cached # NULL => cached' # NULL)
         /\ known' \in [Thread -> SUBSET Sizes]
         /\ \A u \in Thread : /\ known[u] \subseteq known'[u]
                              /\ cached \in known[u] => cached' \in known'[u]
<1>1. cached \in Sizes \cup {NULL} /\ known \in [Thread -> SUBSET Sizes]
  BY DEF FilesInv, FilesTypeOK
<1>2. CASE cached' = cached /\ known' = known
  BY <1>1, <1>2
<1>3. ASSUME NEW n \in Sizes, CacheIs(n)
      PROVE  /\ cached' \in Sizes /\ cached' # NULL
             /\ known' \in [Thread -> SUBSET Sizes]
             /\ \A u \in Thread : /\ known[u] \subseteq known'[u]
                                  /\ cached \in known[u] => cached' \in known'[u]
  <2>1. /\ cached' = n
        /\ known' = [u \in Thread |-> known[u] \cup IF known[u] = {} THEN {} ELSE {n}]
    BY <1>3 DEF CacheIs
  <2>2. n # NULL
    BY FdAssumption DEF Sizes
  <2> QED  BY <1>1, <2>1, <2>2
<1> QED  BY <1>1, <1>2, <1>3 DEF Learns

(* An array that nothing points to is not allocated while a method runs.   *)
LEMMA NoArray ==
  ASSUME FilesInv, NEW t \in Thread, array[t] = NULL, ~Returned(t, {"contents"})
  PROVE  t \notin heap
BY DEF FilesInv, ThreadInv, HeapInv

FramesOK == frame \in [Thread -> Frames]

LEMMA IdleFacts ==
  ASSUME FilesTypeOK
  PROVE  /\ Idle \in Frames
         /\ Idle.at = "python" /\ Idle.fn = "none" /\ Idle.arg = <<0, 0>> /\ Idle.room = 0
         /\ Idle.attempt = 0 /\ Idle.ret = 0 /\ Idle.outcome = "none"
<1>1. <<0, 0>> \in (-1..Larger(MaxSize, MaxAttr)) \X (Sizes \cup 0..2)
  BY FdAssumption DEF Larger, Sizes
<1> QED  BY <1>1 DEF Idle, Frames

LEMMA EnterFacts ==
  ASSUME NEW t \in Thread, NEW fn \in Methods, NEW arg, NEW room \in Nat, FilesTypeOK,
         arg \in (-1..Larger(MaxSize, MaxAttr)) \X (Sizes \cup 0..2),
         Enter(t, fn, arg, room)
  PROVE  /\ frame'[t].at = "libgfapi" /\ frame'[t].fn = fn /\ frame'[t].arg = arg
         /\ frame'[t].room = room /\ frame'[t].attempt = 0 /\ frame'[t].outcome = "none"
         /\ saw'[t] = NULL
         /\ \A u \in Thread \ {t} : frame'[u] = frame[u] /\ saw'[u] = saw[u]
         /\ FramesOK' /\ saw' \in [Thread -> Sizes \cup Lengths \cup {NULL}]
<1> DEFINE f == [Idle EXCEPT !.at = "libgfapi", !.fn = fn, !.arg = arg, !.room = room]
<1>1. frame' = [frame EXCEPT ![t] = f]
  BY DEF Enter
<1>2. /\ f.at = "libgfapi" /\ f.fn = fn /\ f.arg = arg /\ f.room = room
      /\ f.attempt = 0 /\ f.outcome = "none"
  BY IdleFacts DEF Frames
<1>3. f \in Frames
  BY IdleFacts DEF Frames
<1> HIDE DEF f
<1>4. frame'[t] = f /\ FramesOK'
  BY <1>1, <1>3 DEF FilesTypeOK, FramesOK
<1> QED  BY <1>1, <1>2, <1>4 DEF Enter, FilesTypeOK

LEMMA RefuseFacts ==
  ASSUME NEW t \in Thread, NEW fn \in Methods, NEW error, FilesTypeOK,
         error \in Errors \cup {"NotImplementedError"},
         Refuse(t, fn, error)
  PROVE  /\ frame'[t].at = "returned" /\ frame'[t].fn = fn /\ frame'[t].outcome = error
         /\ \A u \in Thread \ {t} : frame'[u] = frame[u]
         /\ saw' = saw /\ FramesOK'
<1> DEFINE f == [Idle EXCEPT !.at = "returned", !.fn = fn, !.outcome = error]
<1>1. frame' = [frame EXCEPT ![t] = f]
  BY DEF Refuse
<1>2. f.at = "returned" /\ f.fn = fn /\ f.outcome = error
  BY IdleFacts DEF Frames
<1>3. f \in Frames
  BY IdleFacts DEF Frames
<1> HIDE DEF f
<1>4. frame'[t] = f /\ FramesOK'
  BY <1>1, <1>3 DEF FilesTypeOK, FramesOK
<1> QED  BY <1>1, <1>2, <1>4 DEF Refuse

LEMMA OverFacts ==
  ASSUME NEW t \in Thread, NEW n \in Int, NEW outcome \in Errors \cup {"ok"}, NEW what,
         FilesTypeOK, what \in Sizes \cup Lengths \cup {NULL},
         Over(t, n, outcome, what)
  PROVE  /\ frame'[t].at = "back" /\ frame'[t].ret = n /\ frame'[t].outcome = outcome
         /\ frame'[t].fn = frame[t].fn /\ frame'[t].arg = frame[t].arg
         /\ frame'[t].room = frame[t].room /\ frame'[t].attempt = frame[t].attempt
         /\ saw'[t] = what
         /\ \A u \in Thread \ {t} : frame'[u] = frame[u] /\ saw'[u] = saw[u]
         /\ FramesOK' /\ saw' \in [Thread -> Sizes \cup Lengths \cup {NULL}]
<1> DEFINE f == [frame[t] EXCEPT !.at = "back", !.ret = n, !.outcome = outcome]
<1>1. frame' = [frame EXCEPT ![t] = f]
  BY DEF Over
<1>2. frame[t] \in Frames
  BY DEF FilesTypeOK
<1>3. /\ f.at = "back" /\ f.ret = n /\ f.outcome = outcome
      /\ f.fn = frame[t].fn /\ f.arg = frame[t].arg
      /\ f.room = frame[t].room /\ f.attempt = frame[t].attempt
  BY <1>2 DEF Frames
<1>4. f \in Frames
  BY <1>2 DEF Frames
<1> HIDE DEF f
<1>5. frame'[t] = f /\ FramesOK'
  BY <1>1, <1>4 DEF FilesTypeOK, FramesOK
<1>6. saw'[t] = what /\ saw' \in [Thread -> Sizes \cup Lengths \cup {NULL}]
  BY DEF Over, FilesTypeOK
<1>7. \A u \in Thread \ {t} : saw'[u] = saw[u]
  BY DEF Over, FilesTypeOK
<1>8. \A u \in Thread \ {t} : frame'[u] = frame[u]
  BY <1>1 DEF FilesTypeOK
<1> QED  BY <1>3, <1>5, <1>6, <1>7, <1>8

(* Return and Raise: the result takes the place of what libgfapi returned. *)
Ends(t, n, outcome) ==
  frame' = [frame EXCEPT ![t].at = "returned", ![t].room = 0, ![t].attempt = 0,
                         ![t].ret = n, ![t].outcome = outcome]

LEMMA ReturnEnds == \A t, n : Return(t, n) <=> Ends(t, n, "ok")
BY DEF Return, Ends

LEMMA RaiseEnds == \A t, error : Raise(t, error) <=> Ends(t, 0, error)
BY DEF Raise, Ends

LEMMA EndsFacts ==
  ASSUME NEW t \in Thread, NEW n \in Int, NEW outcome, FilesTypeOK,
         outcome \in Errors \cup {"none", "ok", "NotImplementedError"},
         Ends(t, n, outcome)
  PROVE  /\ frame'[t].at = "returned" /\ frame'[t].ret = n /\ frame'[t].outcome = outcome
         /\ frame'[t].fn = frame[t].fn /\ frame'[t].arg = frame[t].arg
         /\ \A u \in Thread \ {t} : frame'[u] = frame[u]
         /\ FramesOK'
<1> DEFINE h == [frame[t] EXCEPT !.at = "returned"]
           g == [h EXCEPT !.room = 0, !.attempt = 0]
           f == [g EXCEPT !.ret = n, !.outcome = outcome]
<1>1. frame' = [frame EXCEPT ![t] = f]
  BY DEF Ends
<1>2. frame[t] \in Frames
  BY DEF FilesTypeOK
<1>6. h \in Frames /\ h.at = "returned" /\ h.fn = frame[t].fn /\ h.arg = frame[t].arg
  BY <1>2 DEF Frames
<1> HIDE DEF h
<1>7. g \in Frames
  <2>1. 0 \in Nat /\ 0 \in 0..1
    OBVIOUS
  <2> QED  BY <1>6, <2>1 DEF Frames
<1>8. g.at = "returned" /\ g.fn = frame[t].fn /\ g.arg = frame[t].arg
  BY <1>6 DEF Frames
<1> HIDE DEF g
<1>3. /\ f.at = "returned" /\ f.ret = n /\ f.outcome = outcome
      /\ f.fn = frame[t].fn /\ f.arg = frame[t].arg
  BY <1>7, <1>8 DEF Frames
<1>4. f \in Frames
  BY <1>7, <1>8 DEF Frames
<1> HIDE DEF f
<1>5. frame'[t] = f /\ FramesOK'
  BY <1>1, <1>4 DEF FilesTypeOK, FramesOK
<1> QED  BY <1>1, <1>3, <1>5
-----------------------------------------------------------------------------
(* Calls and refusals.                                                     *)

(* What the arguments of a call are before it goes into libgfapi.          *)
GoodCall(t, fn, arg, room) ==
  /\ fn \in Methods /\ room \in Nat
  /\ arg \in (-1..Larger(MaxSize, MaxAttr)) \X (Sizes \cup 0..2)
  /\ fn = "ftruncate" => arg[1] \in Sizes
  /\ fn = "fsetxattr" => arg[1] \in Lengths
  /\ fn = "lseek" => arg[2] \in 0..2
  /\ fn = "pwrite" => arg[1] \in Nat /\ arg[2] \in Nat /\ arg[1] + arg[2] <= MaxSize
  /\ fn = "pread" => arg[1] \in Sizes /\ arg[2] \in Sizes
  /\ fn \in Xattr => room = Rooms[1]
  /\ fn = "contents" => cached # NULL

(* Whatever the thread was doing, it holds no array and no export, and a   *)
(* temporary descriptor only for the pread() of contents().                *)
LEMMA EnterKeeps ==
  ASSUME FilesInv, NEW t \in Thread, NEW fn, NEW arg, NEW room,
         GoodCall(t, fn, arg, room), Enter(t, fn, arg, room),
         array[t] = NULL, t \notin heap, t \notin exports,
         t \in fds => fn = "pread" /\ type = "FILE" /\ arg[2] = 0 /\ arg[1] \in known'[t],
         exports' = IF fn \in {"pwrite", "fsetxattr"} THEN exports \cup {t} ELSE exports,
         known' \in [Thread -> SUBSET Sizes], \A u \in Thread \ {t} : known'[u] = known[u],
         fn = "contents" => cached \in known'[t],
         file' = file, handle' = handle, temp' = temp, heap' = heap
  PROVE  FilesInv'
<1>1. /\ frame'[t].at = "libgfapi" /\ frame'[t].fn = fn /\ frame'[t].arg = arg
      /\ frame'[t].room = room /\ frame'[t].attempt = 0 /\ frame'[t].outcome = "none"
      /\ saw'[t] = NULL
      /\ \A u \in Thread \ {t} : frame'[u] = frame[u] /\ saw'[u] = saw[u]
      /\ FramesOK' /\ saw' \in [Thread -> Sizes \cup Lengths \cup {NULL}]
  BY EnterFacts DEF FilesInv, GoodCall
<1>2. /\ size' = size /\ attrs' = attrs /\ pos' = pos /\ does' = does
      /\ type' = type /\ cached' = cached /\ fds' = fds /\ array' = array
  BY DEF file, handle, temp
<1>3. /\ t \in exports' <=> fn \in {"pwrite", "fsetxattr"}
      /\ \A u \in Thread \ {t} : u \in exports' <=> u \in exports
      /\ exports' \subseteq Thread
  BY DEF FilesInv, FilesTypeOK
<1>4. Others(t)
  BY <1>1, <1>2, <1>3 DEF Others
<1>5. FilesTypeOK'
  BY <1>1, <1>2, <1>3 DEF FilesInv, FilesTypeOK, FramesOK
<1>6. StageInv(t)' /\ ArgsInv(t)' /\ ExportInv(t)'
  BY <1>1, <1>3 DEF StageInv, ArgsInv, ExportInv, In, Back, GoodCall
<1>7. XattrInv(t)'
  BY <1>1 DEF XattrInv, In, Back, Returned, GoodCall
<1>8. BytesInv(t)' /\ OpenedInv(t)' /\ ArrayInv(t)' /\ ResultInv(t)'
  BY <1>1, <1>2 DEF BytesInv, OpenedInv, ArrayInv, ResultInv, In, Back, Returned, GoodCall
<1>9. HeapInv(t)' /\ KnownInv(t)'
  BY <1>1, <1>2 DEF HeapInv, KnownInv, In, Back
<1>10. ThreadInv(t)'
  BY <1>6, <1>7, <1>8, <1>9 DEF ThreadInv
<1> QED  BY <1>2, <1>4, <1>5, <1>10, StepKeeps

(* A thread in Python holds nothing.                                       *)
LEMMA IdleHolds ==
  ASSUME FilesInv, NEW t \in Thread, frame[t] = Idle
  PROVE  array[t] = NULL /\ t \notin heap /\ t \notin fds /\ t \notin exports
<1>1. ThreadInv(t) /\ frame[t].at = "python" /\ frame[t].fn = "none"
  BY IdleFacts DEF FilesInv
<1>2. array[t] = NULL /\ t \notin fds /\ t \notin exports
  BY <1>1 DEF ThreadInv, ArrayInv, OpenedInv, ExportInv, In, Back
<1>3. t \notin heap
  BY <1>1, <1>2, NoArray DEF Returned
<1> QED  BY <1>2, <1>3

LEMMA RefuseKeeps ==
  ASSUME FilesInv, NEW t \in Thread, NEW fn \in Methods, NEW error,
         error \in Errors \cup {"NotImplementedError"}, error # "ERANGE",
         frame[t] = Idle, Refuse(t, fn, error),
         file' = file, exports' = exports, handle' = handle, temp' = temp, past' = past
  PROVE  FilesInv'
<1>1. /\ frame'[t].at = "returned" /\ frame'[t].fn = fn /\ frame'[t].outcome = error
      /\ \A u \in Thread \ {t} : frame'[u] = frame[u]
      /\ saw' = saw /\ FramesOK'
  BY RefuseFacts DEF FilesInv
<1>2. /\ size' = size /\ attrs' = attrs /\ pos' = pos /\ does' = does
      /\ type' = type /\ cached' = cached /\ fds' = fds /\ array' = array
      /\ heap' = heap /\ known' = known
  BY DEF file, handle, temp, past
<1>3. array[t] = NULL /\ t \notin heap /\ t \notin fds /\ t \notin exports
  BY IdleHolds
<1>4. Others(t)
  BY <1>1, <1>2 DEF Others
<1>5. FilesTypeOK'
  BY <1>1, <1>2 DEF FilesInv, FilesTypeOK, FramesOK
<1>6. error # "ok"
  BY DEF Errors
<1>7. StageInv(t)' /\ ArgsInv(t)' /\ ExportInv(t)'
  BY <1>1, <1>2, <1>3 DEF StageInv, ArgsInv, ExportInv, In, Back
<1>8. XattrInv(t)' /\ HeapInv(t)' /\ KnownInv(t)'
  BY <1>1, <1>2, <1>3, <1>6 DEF XattrInv, HeapInv, KnownInv, In, Back, Returned, Failed
<1>9. BytesInv(t)' /\ OpenedInv(t)' /\ ArrayInv(t)' /\ ResultInv(t)'
  BY <1>1, <1>2, <1>3, <1>6 DEF BytesInv, OpenedInv, ArrayInv, ResultInv, In, Back, Returned, Failed
<1>10. ThreadInv(t)'
  BY <1>7, <1>8, <1>9 DEF ThreadInv
<1> QED  BY <1>2, <1>4, <1>5, <1>10, StepKeeps
-----------------------------------------------------------------------------
(* Returns.                                                                *)

(* What the parts of the invariant that speak of results come down to for  *)
(* the method of a thread that raises ...                                  *)
RaisesRight(t, error) ==
  /\ error \in Errors
  /\ frame[t].fn \in Xattr /\ error = "ERANGE" => saw[t] > Rooms[Len(Rooms)]

(* ... and for one that returns n.                                         *)
ReturnsRight(t, n) ==
  /\ n \in Int
  /\ frame[t].fn \in Xattr => n = saw[t]
  /\ frame[t].fn = "pread" =>
       saw[t] \in Sizes /\ n = Smaller(frame[t].arg[1], Larger(saw[t] - frame[t].arg[2], 0))
  /\ frame[t].fn = "contents" => type # "FILE" /\ (type = "DIRECTORY" => n = saw[t])

(* The method gives up what it holds: its export, the address of its array *)
(* and, unless it is the pread() of contents(), its descriptor.            *)
GivesUp(t) ==
  /\ exports' = exports \ {t}
  /\ array' = [array EXCEPT ![t] = NULL]
  /\ fds' = IF frame[t].fn = "pread" THEN fds ELSE fds \ {t}

(* The array itself is freed, with one exception.                          *)
Frees(t, outcome) ==
  \/ heap' = heap \ {t}
  \/ /\ heap' = heap
     /\ frame[t].fn = "contents" /\ type = "DIRECTORY" /\ outcome = "MemoryError"

LEMMA EndsKeeps ==
  ASSUME FilesInv, NEW t \in Thread, NEW n, NEW outcome,
         frame[t].at \in {"back", "listing", "listed"},
         Ends(t, n, outcome), GivesUp(t), Frees(t, outcome), Learns,
         \/ outcome # "ok" /\ n = 0 /\ RaisesRight(t, outcome)
         \/ outcome = "ok" /\ ReturnsRight(t, n),
         size' = size, attrs' = attrs, pos' = pos, does' = does, type' = type, saw' = saw
  PROVE  FilesInv'
<1>1. /\ frame'[t].at = "returned" /\ frame'[t].ret = n /\ frame'[t].outcome = outcome
      /\ frame'[t].fn = frame[t].fn /\ frame'[t].arg = frame[t].arg
      /\ \A u \in Thread \ {t} : frame'[u] = frame[u]
      /\ FramesOK'
  BY EndsFacts DEF FilesInv, RaisesRight, ReturnsRight
<1>2. /\ t \notin exports' /\ exports' \subseteq Thread /\ fds' \subseteq Thread
      /\ t \in fds' => t \in fds /\ frame[t].fn = "pread"
      /\ array'[t] = NULL /\ array' \in [Thread -> [next_idx : Nat, alloc : Nat] \cup {NULL}]
      /\ \A u \in Thread \ {t} : /\ u \in exports' <=> u \in exports
                                 /\ u \in fds' <=> u \in fds
                                 /\ array'[u] = array[u]
  BY DEF GivesUp, FilesInv, FilesTypeOK
<1>3. /\ heap' \subseteq Thread /\ \A u \in Thread \ {t} : u \in heap' <=> u \in heap
      /\ t \in heap' => /\ frame[t].fn = "contents" /\ type = "DIRECTORY"
                        /\ outcome = "MemoryError"
  BY DEF Frees, FilesInv, FilesTypeOK
<1>4. /\ cached' \in Sizes \cup {NULL} /\ (cached # NULL => cached' # NULL)
      /\ known' \in [Thread -> SUBSET Sizes]
      /\ \A u \in Thread : /\ known[u] \subseteq known'[u]
                           /\ cached \in known[u] => cached' \in known'[u]
  BY LearnsFacts
<1>5. Others(t)
  BY <1>1, <1>2, <1>3, <1>4 DEF Others
<1>6. FilesTypeOK'
  BY <1>1, <1>2, <1>3, <1>4 DEF FilesInv, FilesTypeOK, FramesOK
<1>7. ThreadInv(t)
  BY DEF FilesInv
<1>8. StageInv(t)' /\ ArgsInv(t)' /\ ExportInv(t)'
  BY <1>1, <1>2 DEF StageInv, ArgsInv, ExportInv, In, Back
<1>9. XattrInv(t)'
  BY <1>1 DEF XattrInv, In, Back, Returned, Failed, RaisesRight, ReturnsRight
<1>10. BytesInv(t)'
  BY <1>1, <1>2, <1>7 DEF BytesInv, Back, Returned, Failed, ReturnsRight, ThreadInv
<1>11. OpenedInv(t)' /\ ArrayInv(t)' /\ ResultInv(t)'
  BY <1>1, <1>2 DEF OpenedInv, ArrayInv, ResultInv, In, Back, Returned, Failed, ReturnsRight
<1>12. HeapInv(t)' /\ KnownInv(t)'
  BY <1>1, <1>2, <1>3, <1>4, <1>7 DEF HeapInv, KnownInv, In, Back, Returned, ThreadInv
<1>13. ThreadInv(t)'
  BY <1>8, <1>9, <1>10, <1>11, <1>12 DEF ThreadInv
<1> QED  BY <1>4, <1>5, <1>6, <1>13, StepKeeps
-----------------------------------------------------------------------------
(* The libgfapi calls.                                                     *)

(* What the parts of the invariant ask of the answer to a method.          *)
AnswersRight(t, n, outcome, what) ==
  /\ n \in Int /\ outcome \in Errors \cup {"ok"} /\ what \in Sizes \cup Lengths \cup {NULL}
  /\ frame[t].fn \in Xattr =>
       /\ outcome = "ok" => n = what
       /\ outcome = "ERANGE" => what \in Lengths /\ what > frame[t].room
  /\ frame[t].fn = "pread" /\ outcome = "ok" =>
       what \in Sizes /\ n = Smaller(frame[t].arg[1], Larger(what - frame[t].arg[2], 0))
  /\ frame[t].fn = "stat" /\ outcome = "ok" => n \in Sizes

(* A call opens a descriptor for contents() of anything but a symbolic     *)
(* link, if it succeeds.                                                   *)
Opens(t, outcome) == frame[t].fn = "contents" /\ outcome = "ok" /\ type # "SYMLINK"

LEMMA OverKeeps ==
  ASSUME FilesInv, NEW t \in Thread, NEW n, NEW outcome, NEW what,
         frame[t].at = "libgfapi",
         Over(t, n, outcome, what), AnswersRight(t, n, outcome, what),
         size' \in Sizes, pos' \in Sizes,
         attrs' \in [{"value", "names"} -> Lengths \cup {NULL}],
         fds' = IF Opens(t, outcome) THEN fds \cup {t} ELSE fds,
         does' = does, exports' = exports, handle' = handle, array' = array, past' = past
  PROVE  FilesInv'
<1>1. /\ frame'[t].at = "back" /\ frame'[t].ret = n /\ frame'[t].outcome = outcome
      /\ frame'[t].fn = frame[t].fn /\ frame'[t].arg = frame[t].arg
      /\ frame'[t].room = frame[t].room /\ frame'[t].attempt = frame[t].attempt
      /\ saw'[t] = what
      /\ \A u \in Thread \ {t} : frame'[u] = frame[u] /\ saw'[u] = saw[u]
      /\ FramesOK' /\ saw' \in [Thread -> Sizes \cup Lengths \cup {NULL}]
  BY OverFacts DEF FilesInv, AnswersRight
<1>2. type' = type /\ cached' = cached /\ heap' = heap /\ known' = known
  BY DEF handle, past
<1>3. /\ t \in fds' <=> t \in fds \/ Opens(t, outcome)
      /\ \A u \in Thread \ {t} : u \in fds' <=> u \in fds
      /\ fds' \subseteq Thread
  BY DEF FilesInv, FilesTypeOK
<1>4. Others(t)
  BY <1>1, <1>2, <1>3 DEF Others
<1>5. FilesTypeOK'
  BY <1>1, <1>2, <1>3 DEF FilesInv, FilesTypeOK, FramesOK
<1>6. ThreadInv(t)
  BY DEF FilesInv
<1>7. array[t] = NULL /\ (t \in fds => frame[t].fn = "pread")
  BY <1>6 DEF ThreadInv, ArrayInv, OpenedInv, Back
<1>8. StageInv(t)' /\ ArgsInv(t)' /\ ExportInv(t)'
  BY <1>1, <1>6 DEF ThreadInv, StageInv, ArgsInv, ExportInv, In, Back, AnswersRight
<1>9. HeapInv(t)' /\ KnownInv(t)'
  BY <1>1, <1>2, <1>3, <1>6, <1>7, NoArray
     DEF ThreadInv, HeapInv, KnownInv, In, Back, Returned, Opens
<1>10. XattrInv(t)'
  BY <1>1, <1>6 DEF ThreadInv, XattrInv, In, Back, Returned, Failed, AnswersRight
<1>11. BytesInv(t)'
  BY <1>1, <1>2, <1>3, <1>6 DEF ThreadInv, BytesInv, Back, Returned, Failed, AnswersRight, Opens
<1>12. OpenedInv(t)'
  BY <1>1, <1>2, <1>3, <1>6, <1>7 DEF ThreadInv, OpenedInv, In, Back, Failed, AnswersRight, Opens
<1>13. ArrayInv(t)' /\ ResultInv(t)'
  BY <1>1, <1>2, <1>7 DEF ArrayInv, ResultInv, Returned
<1>14. ThreadInv(t)'
  BY <1>8, <1>9, <1>10, <1>11, <1>12, <1>13 DEF ThreadInv
<1> QED  BY <1>2, <1>4, <1>5, <1>14, StepKeeps
-----------------------------------------------------------------------------
(* The methods of an FD.                                                   *)

(* What FdStep leaves alone.                                               *)
Alone == handle' = handle /\ temp' = temp /\ past' = past

LEMMA HandleType ==
  ASSUME FilesInv
  PROVE  /\ type \in {"FILE", "DIRECTORY", "SYMLINK"} /\ cached \in Sizes \cup {NULL}
         /\ fds \subseteq Thread
         /\ array \in [Thread -> [next_idx : Nat, alloc : Nat] \cup {NULL}]
BY DEF FilesInv, FilesTypeOK

LEMMA PastType == FilesInv => heap \subseteq Thread /\ known \in [Thread -> SUBSET Sizes]
BY DEF FilesInv, FilesTypeOK

(* A method of FD that is called from Python goes into libgfapi.           *)
LEMMA FdEnters ==
  ASSUME FilesInv, Alone, NEW t \in Thread, NEW fn \in FdMethods, NEW arg, NEW room,
         frame[t] = Idle, GoodCall(t, fn, arg, room), Enter(t, fn, arg, room),
         exports' = IF fn \in {"pwrite", "fsetxattr"} THEN exports \cup {t} ELSE exports,
         file' = file
  PROVE  FilesInv'
<1>1. array[t] = NULL /\ t \notin heap /\ t \notin fds /\ t \notin exports
  BY IdleHolds
<1>2. handle' = handle /\ temp' = temp /\ heap' = heap /\ known' = known
  BY DEF Alone, past
<1>3. fn # "contents" /\ known' \in [Thread -> SUBSET Sizes]
  BY <1>2, PastType DEF FdMethods, Plain, Xattr
<1> QED  BY <1>1, <1>2, <1>3, EnterKeeps

LEMMA ArgsFit ==
  ASSUME NEW a, NEW b, a \in Sizes \cup Lengths \cup (-1..MaxSize), b \in Sizes \cup 0..2
  PROVE  <<a, b>> \in (-1..Larger(MaxSize, MaxAttr)) \X (Sizes \cup 0..2)
BY FdAssumption DEF Larger, Sizes, Lengths

LEMMA RoomsAre == Rooms[1] \in Nat \ {0} /\ Rooms[2] \in Nat \ {0} /\ Len(Rooms) = 2
BY FdAssumption

LEMMA CallSimpleKeeps ==
  ASSUME FilesInv, Alone, NEW t \in Thread, NEW fn \in FdMethods, NEW n \in Sizes,
         CallSimple(t, fn, n)
  PROVE  FilesInv'
<1>1. /\ fn \in Plain \cup {"fstat", "ftruncate", "fremovexattr"} /\ frame[t] = Idle
      /\ Enter(t, fn, <<n, 0>>, 0) /\ exports' = exports /\ file' = file
  BY DEF CallSimple, Calls
<1>3. <<n, 0>> \in (-1..Larger(MaxSize, MaxAttr)) \X (Sizes \cup 0..2)
  BY ArgsFit
<1>4. GoodCall(t, fn, <<n, 0>>, 0)
  BY <1>1, <1>3 DEF GoodCall, Methods, Plain, Xattr
<1>5. fn \notin {"pwrite", "fsetxattr"}
  BY <1>1 DEF Plain
<1> QED  BY <1>1, <1>4, <1>5, FdEnters DEF FdMethods

LEMMA CallLseekKeeps ==
  ASSUME FilesInv, Alone, NEW t \in Thread, NEW n \in -1..MaxSize, NEW whence \in 0..2,
         CallLseek(t, n, whence)
  PROVE  FilesInv'
<1>1. /\ frame[t] = Idle /\ Enter(t, "lseek", <<n, whence>>, 0)
      /\ exports' = exports /\ file' = file
  BY DEF CallLseek, Calls
<1>3. <<n, whence>> \in (-1..Larger(MaxSize, MaxAttr)) \X (Sizes \cup 0..2)
  BY ArgsFit
<1>4. GoodCall(t, "lseek", <<n, whence>>, 0)
  BY <1>3 DEF GoodCall, Methods, FdMethods, Xattr
<1> QED  BY <1>1, <1>4, FdEnters DEF FdMethods

LEMMA CallPreadKeeps ==
  ASSUME FilesInv, Alone, NEW t \in Thread, NEW n \in Sizes, NEW offset \in Sizes,
         CallPread(t, offset, n)
  PROVE  FilesInv'
<1>1. /\ frame[t] = Idle /\ Enter(t, "pread", <<n, offset>>, n)
      /\ exports' = exports /\ file' = file
  BY DEF CallPread, Calls
<1>3. <<n, offset>> \in (-1..Larger(MaxSize, MaxAttr)) \X (Sizes \cup 0..2)
  BY ArgsFit
<1>4. n \in Nat
  BY DEF Sizes
<1>5. GoodCall(t, "pread", <<n, offset>>, n)
  BY <1>3, <1>4 DEF GoodCall, Methods, FdMethods, Xattr
<1> QED  BY <1>1, <1>5, FdEnters DEF FdMethods

LEMMA CallWriteKeeps ==
  ASSUME FilesInv, Alone, NEW t \in Thread, NEW fn \in FdMethods, NEW n \in Lengths,
         NEW offset \in Sizes, CallWrite(t, fn, n, offset)
  PROVE  FilesInv'
<1>1. /\ frame[t] = Idle /\ Enter(t, fn, <<n, offset>>, 0)
      /\ fn \in {"pwrite", "fsetxattr"} /\ (fn = "pwrite" => n + offset <= MaxSize)
      /\ exports' = exports \cup {t} /\ file' = file
  BY DEF CallWrite, Calls
<1>3. <<n, offset>> \in (-1..Larger(MaxSize, MaxAttr)) \X (Sizes \cup 0..2)
  BY ArgsFit
<1>4. n \in Nat /\ offset \in Nat
  BY DEF Sizes, Lengths
<1>5. GoodCall(t, fn, <<n, offset>>, 0)
  BY <1>1, <1>3, <1>4 DEF GoodCall, Methods, Xattr
<1> QED  BY <1>1, <1>5, FdEnters DEF FdMethods

LEMMA CallXattrKeeps ==
  ASSUME FilesInv, Alone, NEW t \in Thread, NEW fn, CallXattr(t, fn)
  PROVE  FilesInv'
<1>1. /\ frame[t] = Idle /\ fn \in Xattr /\ Enter(t, fn, <<0, 0>>, Rooms[1])
      /\ exports' = exports /\ file' = file
  BY DEF CallXattr, Calls
<1>3. <<0, 0>> \in (-1..Larger(MaxSize, MaxAttr)) \X (Sizes \cup 0..2)
  BY ArgsFit, FdAssumption DEF Sizes
<1>4. GoodCall(t, fn, <<0, 0>>, Rooms[1])
  BY <1>1, <1>3, RoomsAre DEF GoodCall, Methods, FdMethods, Xattr
<1> QED  BY <1>1, <1>4, FdEnters DEF FdMethods, Xattr

LEMMA RefusedKeeps ==
  ASSUME FilesInv, Alone, NEW t \in Thread,
         PreadRefused(t) \/ \E fn \in FdMethods : WriteRefused(t, fn)
  PROVE  FilesInv'
<1>1. PICK fn \in FdMethods, error \in {"EINVAL", "TypeError"} :
        /\ frame[t] = Idle /\ Refuse(t, fn, error) /\ exports' = exports /\ file' = file
  BY DEF PreadRefused, WriteRefused, Calls, FdMethods
<1>2. fn \in Methods /\ error \in Errors /\ error # "ERANGE"
  BY DEF Methods, Errors
<1> QED  BY <1>1, <1>2, RefuseKeeps DEF Alone

(* The calls that leave the file alone.                                    *)
LEMMA LooksKeeps ==
  ASSUME FilesInv, NEW t \in Thread, NEW n, NEW outcome, NEW what,
         frame[t].at = "libgfapi", Over(t, n, outcome, what),
         AnswersRight(t, n, outcome, what),
         fds' = IF Opens(t, outcome) THEN fds \cup {t} ELSE fds,
         file' = file, exports' = exports, handle' = handle, array' = array, past' = past
  PROVE  FilesInv'
<1>1. /\ size' \in Sizes /\ pos' \in Sizes /\ does' = does
      /\ attrs' \in [{"value", "names"} -> Lengths \cup {NULL}]
  BY DEF file, FilesInv, FilesTypeOK
<1> QED  BY <1>1, OverKeeps

LEMMA NativeFailsKeeps ==
  ASSUME FilesInv, Alone, NEW t \in Thread, NativeFails(t)
  PROVE  FilesInv'
<1>1. /\ frame[t].at = "libgfapi" /\ Over(t, -1, "EIO", NULL)
      /\ file' = file /\ exports' = exports
  BY DEF NativeFails
<1>2. fds' = IF Opens(t, "EIO") THEN fds \cup {t} ELSE fds
  BY DEF Alone, temp, Opens
<1>3. AnswersRight(t, -1, "EIO", NULL)
  BY DEF AnswersRight, Errors
<1> QED  BY <1>1, <1>2, <1>3, LooksKeeps DEF Alone, temp

(* A call that changes the file or its attributes, or moves the offset.    *)
LEMMA DoesKeeps ==
  ASSUME FilesInv, Alone, NEW t \in Thread, NEW n \in Int, NEW outcome \in Errors \cup {"ok"},
         NEW what,
         frame[t].at = "libgfapi", frame[t].fn \in FdMethods \ (Xattr \cup {"pread"}),
         Over(t, n, outcome, what), what \in Sizes \cup {NULL},
         size' \in Sizes, pos' \in Sizes,
         attrs' \in [{"value", "names"} -> Lengths \cup {NULL}],
         does' = does, exports' = exports
  PROVE  FilesInv'
<1>1. frame[t].fn \notin Xattr \cup {"pread", "stat", "contents"}
  BY DEF FdMethods, Plain, Xattr
<1>2. AnswersRight(t, n, outcome, what)
  BY <1>1 DEF AnswersRight
<1>3. fds' = IF Opens(t, outcome) THEN fds \cup {t} ELSE fds
  BY <1>1 DEF Alone, temp, Opens
<1> QED  BY <1>2, <1>3, OverKeeps DEF Alone, temp

LEMMA DoesAndIsZero ==
  ASSUME FilesInv, Alone, NEW t \in Thread,
         frame[t].at = "libgfapi", frame[t].fn \in FdMethods \ (Xattr \cup {"pread"}),
         Over(t, 0, "ok", NULL),
         size' \in Sizes, pos' \in Sizes,
         attrs' \in [{"value", "names"} -> Lengths \cup {NULL}],
         does' = does, exports' = exports
  PROVE  FilesInv'
<1>1. PICK n \in Int, outcome \in Errors \cup {"ok"} :
        n = 0 /\ outcome = "ok" /\ Over(t, n, outcome, NULL)
  OBVIOUS
<1> QED  BY <1>1, DoesKeeps

LEMMA FileType ==
  ASSUME FilesInv
  PROVE  /\ size \in Sizes /\ pos \in Sizes /\ size \in Nat /\ pos \in Nat
         /\ attrs \in [{"value", "names"} -> Lengths \cup {NULL}]
BY DEF FilesInv, FilesTypeOK, Sizes

LEMMA PlainDoneKeeps ==
  ASSUME FilesInv, Alone, NEW t \in Thread, PlainDone(t)
  PROVE  FilesInv'
<1>1. /\ frame[t].at = "libgfapi" /\ frame[t].fn \in Plain /\ Over(t, 0, "ok", NULL)
      /\ exports' = exports
      /\ does' = does /\ size' = size /\ attrs' = attrs /\ pos' = pos
  BY DEF PlainDone, In, file
<1>2. frame[t].fn \in FdMethods \ (Xattr \cup {"pread"})
  BY <1>1 DEF FdMethods, Plain, Xattr
<1> QED  BY <1>1, <1>2, FileType, DoesAndIsZero

LEMMA FtruncateDoneKeeps ==
  ASSUME FilesInv, Alone, NEW t \in Thread, FtruncateDone(t)
  PROVE  FilesInv'
<1>1. /\ In(t, {"ftruncate"}) /\ Over(t, 0, "ok", NULL) /\ exports' = exports
      /\ does' = does /\ size' = frame[t].arg[1] /\ attrs' = attrs /\ pos' = pos
  BY DEF FtruncateDone
<1>2. frame[t].at = "libgfapi" /\ frame[t].fn \in FdMethods \ (Xattr \cup {"pread"})
  BY <1>1 DEF In, FdMethods, Xattr
<1>3. size' \in Sizes
  BY <1>1 DEF FilesInv, ThreadInv, ArgsInv
<1> QED  BY <1>1, <1>2, <1>3, FileType, DoesAndIsZero

LEMMA FremovexattrDoneKeeps ==
  ASSUME FilesInv, Alone, NEW t \in Thread, FremovexattrDone(t)
  PROVE  FilesInv'
<1>1. /\ frame[t].at = "libgfapi" /\ frame[t].fn = "fremovexattr" /\ exports' = exports
      /\ does' = does /\ size' = size /\ pos' = pos
  BY DEF FremovexattrDone, In
<1>2. frame[t].fn \in FdMethods \ (Xattr \cup {"pread"})
  BY <1>1 DEF FdMethods, Xattr
<1>3. PICK n \in Int, outcome \in Errors \cup {"ok"} :
        /\ Over(t, n, outcome, NULL)
        /\ attrs' \in {attrs, [attrs EXCEPT !["value"] = NULL]}
  BY DEF FremovexattrDone, Errors
<1>4. attrs' \in [{"value", "names"} -> Lengths \cup {NULL}]
  BY <1>3, FileType
<1> QED  BY <1>1, <1>2, <1>3, <1>4, FileType, DoesKeeps

LEMMA LseekDoneKeeps ==
  ASSUME FilesInv, Alone, NEW t \in Thread, LseekDone(t)
  PROVE  FilesInv'
<1> DEFINE w == frame[t].arg[2]
           new == frame[t].arg[1] + <<0, pos, size>>[w + 1]
<1>1. /\ In(t, {"lseek"}) /\ new <= MaxSize /\ exports' = exports
      /\ does' = does /\ size' = size /\ attrs' = attrs
  BY DEF LseekDone
<1>2. /\ frame[t].at = "libgfapi" /\ w \in 0..2
      /\ frame[t].fn \in FdMethods \ (Xattr \cup {"pread"})
  BY <1>1 DEF In, FilesInv, ThreadInv, ArgsInv, FdMethods, Xattr
<1>3. new \in Int
  <2>1. <<0, pos, size>>[w + 1] \in Int
    BY <1>2, FileType
  <2>2. frame[t].arg[1] \in Int
    BY FdAssumption DEF FilesInv, FilesTypeOK, Frames, Larger
  <2> QED  BY <2>1, <2>2
<1>4. \/ new < 0 /\ Over(t, -1, "EINVAL", NULL) /\ pos' = pos
      \/ ~(new < 0) /\ pos' = new /\ Over(t, new, "ok", new)
  BY DEF LseekDone
<1> HIDE DEF new, w
<1>5. ~(new < 0) => new \in Sizes
  BY <1>1, <1>3, FdAssumption DEF Sizes
<1>6. PICK n \in Int, outcome \in Errors \cup {"ok"}, what \in Sizes \cup {NULL} :
        Over(t, n, outcome, what) /\ pos' \in Sizes
  BY <1>3, <1>4, <1>5, FileType DEF Errors
<1> QED  BY <1>1, <1>2, <1>6, FileType, DoesKeeps

LEMMA PwriteDoneKeeps ==
  ASSUME FilesInv, Alone, NEW t \in Thread, NEW n \in Sizes, PwriteDone(t, n)
  PROVE  FilesInv'
<1>1. /\ In(t, {"pwrite"}) /\ n <= frame[t].arg[1] /\ Over(t, n, "ok", NULL)
      /\ size' = IF n = 0 THEN size ELSE Larger(size, frame[t].arg[2] + n)
      /\ exports' = exports /\ does' = does /\ attrs' = attrs /\ pos' = pos
  BY DEF PwriteDone
<1>2. frame[t].at = "libgfapi" /\ frame[t].fn \in FdMethods \ (Xattr \cup {"pread"})
  BY <1>1 DEF In, FdMethods, Xattr
<1>3. /\ frame[t].arg[1] \in Nat /\ frame[t].arg[2] \in Nat
      /\ frame[t].arg[1] + frame[t].arg[2] <= MaxSize
  BY <1>1 DEF FilesInv, ThreadInv, ArgsInv
<1>4. n \in Int /\ size' \in Sizes
  BY <1>1, <1>3, FileType, FdAssumption DEF Sizes, Larger
<1>5. PICK outcome \in Errors \cup {"ok"}, what \in Sizes \cup {NULL} :
        Over(t, n, outcome, what)
  BY <1>1
<1> QED  BY <1>1, <1>2, <1>4, <1>5, FileType, DoesKeeps

LEMMA FsetxattrDoneKeeps ==
  ASSUME FilesInv, Alone, NEW t \in Thread, NEW which \in {"value", "names"},
         FsetxattrDone(t, which)
  PROVE  FilesInv'
<1>1. /\ In(t, {"fsetxattr"}) /\ Over(t, 0, "ok", NULL)
      /\ attrs' = [attrs EXCEPT ![which] = frame[t].arg[1]]
      /\ exports' = exports /\ does' = does /\ size' = size /\ pos' = pos
  BY DEF FsetxattrDone
<1>2. frame[t].at = "libgfapi" /\ frame[t].fn \in FdMethods \ (Xattr \cup {"pread"})
  BY <1>1 DEF In, FdMethods, Xattr
<1>3. frame[t].arg[1] \in Lengths
  BY <1>1 DEF FilesInv, ThreadInv, ArgsInv
<1>4. attrs' \in [{"value", "names"} -> Lengths \cup {NULL}]
  BY <1>1, <1>3, FileType
<1> QED  BY <1>1, <1>2, <1>4, FileType, DoesAndIsZero

LEMMA FstatDoneKeeps ==
  ASSUME FilesInv, Alone, NEW t \in Thread, FstatDone(t)
  PROVE  FilesInv'
<1>1. /\ frame[t].at = "libgfapi" /\ frame[t].fn = "fstat" /\ Over(t, size, "ok", size)
      /\ file' = file /\ exports' = exports
  BY DEF FstatDone, In
<1>2. AnswersRight(t, size, "ok", size)
  BY <1>1, FileType DEF AnswersRight, Xattr
<1>3. fds' = IF Opens(t, "ok") THEN fds \cup {t} ELSE fds
  BY <1>1 DEF Alone, temp, Opens
<1> QED  BY <1>1, <1>2, <1>3, LooksKeeps DEF Alone, temp

LEMMA PreadDoneKeeps ==
  ASSUME FilesInv, Alone, NEW t \in Thread, PreadDone(t)
  PROVE  FilesInv'
<1>1. PICK n : n = Smaller(frame[t].arg[1], Larger(size - frame[t].arg[2], 0))
  OBVIOUS
<1>2. /\ frame[t].at = "libgfapi" /\ frame[t].fn = "pread" /\ Over(t, n, "ok", size)
      /\ file' = file /\ exports' = exports
  BY <1>1 DEF PreadDone, In
<1>3. frame[t].arg[1] \in Nat /\ frame[t].arg[2] \in Nat
  BY <1>2 DEF FilesInv, ThreadInv, ArgsInv, In, Sizes
<1>4. n \in Int
  BY <1>1, <1>3, FileType DEF Smaller, Larger
<1>5. AnswersRight(t, n, "ok", size)
  BY <1>1, <1>2, <1>4, FileType DEF AnswersRight, Xattr
<1>6. fds' = IF Opens(t, "ok") THEN fds \cup {t} ELSE fds
  BY <1>2 DEF Alone, temp, Opens
<1> QED  BY <1>2, <1>5, <1>6, LooksKeeps DEF Alone, temp

LEMMA XattrDoneKeeps ==
  ASSUME FilesInv, Alone, NEW t \in Thread, XattrDone(t)
  PROVE  FilesInv'
<1>1. PICK n : n = Wanted(t)
  OBVIOUS
<1>2. /\ frame[t].at = "libgfapi" /\ frame[t].fn \in Xattr
      /\ file' = file /\ exports' = exports
  BY DEF XattrDone, In
<1>3. n \in Lengths \cup {NULL} /\ frame[t].room \in Nat
  BY <1>1, FileType DEF Wanted, FilesInv, FilesTypeOK, Frames
<1>4. \/ n = NULL /\ Over(t, -1, "ENODATA", n)
      \/ n # NULL /\ n > frame[t].room /\ Over(t, -1, "ERANGE", n)
      \/ n # NULL /\ n <= frame[t].room /\ Over(t, n, "ok", n)
  <2>1. n = NULL \/ (n # NULL /\ n > frame[t].room) \/ (n # NULL /\ n <= frame[t].room)
    BY <1>3 DEF Lengths
  <2>2. ~(n = NULL /\ n # NULL) /\ ~(n # NULL /\ n > frame[t].room /\ n <= frame[t].room)
    BY <1>3 DEF Lengths
  <2>3. CASE n = NULL
    BY <1>1, <2>3 DEF XattrDone
  <2>4. CASE n # NULL /\ n > frame[t].room
    BY <1>1, <2>2, <2>4 DEF XattrDone
  <2>5. CASE n # NULL /\ n <= frame[t].room
    BY <1>1, <2>2, <2>5 DEF XattrDone
  <2> QED  BY <2>1, <2>3, <2>4, <2>5
<1>5. PICK m \in Int, outcome \in {"ENODATA", "ERANGE", "ok"} :
        /\ Over(t, m, outcome, n)
        /\ outcome = "ok" => m = n
        /\ outcome = "ERANGE" => n \in Lengths /\ n > frame[t].room
  <2>1. n # NULL => n \in Int
    BY <1>3 DEF Lengths
  <2> QED  BY <1>3, <1>4, <2>1
<1>6. frame[t].fn \notin {"pread", "stat", "contents"}
  BY <1>2 DEF Xattr
<1>7. AnswersRight(t, m, outcome, n)
  BY <1>3, <1>5, <1>6 DEF AnswersRight, Errors
<1>8. fds' = IF Opens(t, outcome) THEN fds \cup {t} ELSE fds
  BY <1>6 DEF Alone, temp, Opens
<1> QED  BY <1>2, <1>5, <1>7, <1>8, LooksKeeps DEF Alone, temp

(* A return from any of these methods.                                     *)
LEMMA FdReturnKeeps ==
  ASSUME FilesInv, NEW t \in Thread, NEW n, NEW outcome,
         frame[t].at = "back", frame[t].fn \in FdMethods,
         Ends(t, n, outcome),
         \/ outcome # "ok" /\ n = 0 /\ RaisesRight(t, outcome)
         \/ outcome = "ok" /\ ReturnsRight(t, n),
         file' = file, saw' = saw, Alone,
         exports' = exports \ {t}
  PROVE  FilesInv'
<1>1. ThreadInv(t)
  BY DEF FilesInv
<1>2. array[t] = NULL /\ (t \in fds => frame[t].fn = "pread") /\ t \notin heap
  <2>1. frame[t].fn # "contents"
    BY DEF FdMethods, Plain, Xattr
  <2>2. array[t] = NULL /\ (t \in fds => frame[t].fn = "pread")
    BY <1>1, <2>1 DEF ThreadInv, ArrayInv, OpenedInv, Back
  <2> QED  BY <2>2, NoArray DEF Returned
<1>3. GivesUp(t) /\ Frees(t, outcome) /\ Learns
  <2>1. array \in [Thread -> [next_idx : Nat, alloc : Nat] \cup {NULL}]
    BY DEF FilesInv, FilesTypeOK
  <2>2. array' = array /\ fds' = fds /\ heap' = heap /\ cached' = cached /\ known' = known
    BY DEF Alone, temp, handle, past
  <2>3. array' = [array EXCEPT ![t] = NULL]
    BY <1>2, <2>1, <2>2
  <2> QED  BY <1>2, <2>2, <2>3 DEF GivesUp, Frees, Learns
<1>4. size' = size /\ attrs' = attrs /\ pos' = pos /\ does' = does /\ type' = type
  BY DEF file, Alone, handle
<1> QED  BY <1>3, <1>4, EndsKeeps

(* An exception, in particular.                                            *)
LEMMA FdRaises ==
  ASSUME FilesInv, Alone, NEW t \in Thread, NEW error \in Errors,
         frame[t].at = "back", frame[t].fn \in FdMethods, Raise(t, error),
         frame[t].fn \in Xattr /\ error = "ERANGE" => saw[t] > Rooms[Len(Rooms)],
         file' = file, saw' = saw, exports' = exports \ {t}
  PROVE  FilesInv'
<1>1. PICK n, outcome :
        n = 0 /\ outcome = error /\ Ends(t, n, outcome) /\ outcome # "ok"
  BY RaiseEnds DEF Errors
<1>2. RaisesRight(t, outcome)
  BY <1>1 DEF RaisesRight
<1> QED  BY <1>1, <1>2, FdReturnKeeps

(* A method that has nothing to write from has no export.                  *)
LEMMA NoExport ==
  ASSUME FilesInv, NEW t \in Thread, frame[t].fn \notin {"pwrite", "fsetxattr"},
         exports' = exports
  PROVE  exports' = exports \ {t}
<1>1. t \notin exports
  BY DEF FilesInv, ThreadInv, ExportInv, In, Back
<1> QED  BY <1>1

(* The ends of the methods that pass on what libgfapi answered.            *)
LEMMA FdPassesOn ==
  ASSUME FilesInv, Alone, NEW t \in Thread, NEW n,
         Back(t, FdMethods \ Xattr),
         IF Failed(t) THEN Raise(t, frame[t].outcome) ELSE Return(t, n),
         n = frame[t].ret,
         file' = file, saw' = saw, exports' = exports \ {t}
  PROVE  FilesInv'
<1>1. /\ frame[t].at = "back" /\ frame[t].fn \in FdMethods /\ frame[t].fn \notin Xattr
      /\ frame[t].fn # "contents"
  BY DEF Back, FdMethods, Plain, Xattr
<1>2. ThreadInv(t) /\ frame[t].ret \in Int
  BY DEF FilesInv, FilesTypeOK, Frames
<1>3. CASE Failed(t)
  <2>1. frame[t].outcome \in Errors /\ Raise(t, frame[t].outcome)
    BY <1>1, <1>2, <1>3 DEF ThreadInv, StageInv, Failed
  <2> QED  BY <1>1, <2>1, FdRaises
<1>4. CASE ~Failed(t)
  <2>1. PICK outcome : outcome = "ok" /\ Ends(t, n, outcome)
    BY <1>4, ReturnEnds
  <2>2. frame[t].fn = "pread" =>
          saw[t] \in Sizes /\ n = Smaller(frame[t].arg[1], Larger(saw[t] - frame[t].arg[2], 0))
    BY <1>1, <1>2, <1>4 DEF ThreadInv, BytesInv, Back
  <2>3. ReturnsRight(t, n)
    BY <1>1, <1>2, <1>4, <2>2 DEF ReturnsRight
  <2> QED  BY <1>1, <2>1, <2>3, FdReturnKeeps
<1> QED  BY <1>3, <1>4

LEMMA SimpleReturnsKeeps ==
  ASSUME FilesInv, Alone, NEW t \in Thread, SimpleReturns(t)
  PROVE  FilesInv'
<1>1. /\ Back(t, Plain \cup {"fstat", "ftruncate", "fremovexattr"})
      /\ IF Failed(t) THEN Raise(t, frame[t].outcome) ELSE Return(t, frame[t].ret)
      /\ file' = file /\ exports' = exports /\ saw' = saw
  BY DEF SimpleReturns
<1>2. Back(t, FdMethods \ Xattr) /\ frame[t].fn \notin {"pwrite", "fsetxattr"}
  BY <1>1 DEF Back, FdMethods, Plain, Xattr
<1>3. exports' = exports \ {t}
  BY <1>1, <1>2, NoExport
<1> QED  BY <1>1, <1>2, <1>3, FdPassesOn

LEMMA PreadReturnsKeeps ==
  ASSUME FilesInv, Alone, NEW t \in Thread, PreadReturns(t)
  PROVE  FilesInv'
<1> DEFINE n == IF frame[t].ret # frame[t].room THEN frame[t].ret ELSE frame[t].room
<1>1. /\ Back(t, {"pread"})
      /\ IF Failed(t) THEN Raise(t, frame[t].outcome) ELSE Return(t, n)
      /\ file' = file /\ exports' = exports /\ saw' = saw
  BY DEF PreadReturns
<1>2. n = frame[t].ret
  OBVIOUS
<1> HIDE DEF n
<1>3. Back(t, FdMethods \ Xattr) /\ frame[t].fn \notin {"pwrite", "fsetxattr"}
  BY <1>1 DEF Back, FdMethods, Xattr
<1>4. exports' = exports \ {t}
  BY <1>1, <1>3, NoExport
<1> QED  BY <1>1, <1>2, <1>3, <1>4, FdPassesOn

LEMMA WriteReturnsKeeps ==
  ASSUME FilesInv, Alone, NEW t \in Thread, WriteReturns(t)
  PROVE  FilesInv'
<1>1. /\ Back(t, {"pwrite", "fsetxattr"})
      /\ IF Failed(t) THEN Raise(t, frame[t].outcome) ELSE Return(t, frame[t].ret)
      /\ exports' = exports \ {t}
      /\ file' = file /\ saw' = saw
  BY DEF WriteReturns
<1>2. Back(t, FdMethods \ Xattr)
  BY <1>1 DEF Back, FdMethods, Xattr
<1> QED  BY <1>1, <1>2, FdPassesOn

LEMMA WriteNoMemoryKeeps ==
  ASSUME FilesInv, Alone, NEW t \in Thread, WriteNoMemory(t)
  PROVE  FilesInv'
<1>1. /\ frame[t].at = "back" /\ frame[t].fn = "pwrite" /\ Raise(t, "MemoryError")
      /\ exports' = exports \ {t} /\ file' = file /\ saw' = saw
  BY DEF WriteNoMemory, Back
<1>2. frame[t].fn \in FdMethods /\ frame[t].fn \notin Xattr /\ "MemoryError" \in Errors
  BY <1>1 DEF FdMethods, Xattr, Errors
<1> QED  BY <1>1, <1>2, FdRaises

(* A method that raises whatever libgfapi answered.                        *)
LEMMA NoMemoryKeeps ==
  ASSUME FilesInv, Alone, NEW t \in Thread, NoMemory(t)
  PROVE  FilesInv'
<1>1. /\ frame[t].at = "back" /\ frame[t].fn \in Xattr \cup {"fstat", "pread"}
      /\ Raise(t, "MemoryError") /\ file' = file /\ exports' = exports /\ saw' = saw
  BY DEF NoMemory, Back
<1>2. frame[t].fn \in FdMethods /\ "MemoryError" \in Errors \ {"ERANGE"}
  BY <1>1 DEF FdMethods, Xattr, Errors
<1>3. exports' = exports \ {t}
  BY <1>1, NoExport DEF Xattr
<1> QED  BY <1>1, <1>2, <1>3, FdRaises

LEMMA LseekReturnsKeeps ==
  ASSUME FilesInv, Alone, NEW t \in Thread, LseekReturns(t)
  PROVE  FilesInv'
<1>1. /\ frame[t].at = "back" /\ frame[t].fn = "lseek"
      /\ Raise(t, "EINVAL") \/ Return(t, 0)
      /\ file' = file /\ exports' = exports /\ saw' = saw
  BY DEF LseekReturns, Back
<1>2. /\ frame[t].fn \in FdMethods /\ frame[t].fn \notin Xattr
      /\ frame[t].fn \notin {"pread", "contents", "pwrite", "fsetxattr"}
  BY <1>1 DEF FdMethods, Xattr
<1>3. exports' = exports \ {t}
  BY <1>1, <1>2, NoExport
<1>4. CASE Raise(t, "EINVAL")
  <2>1. "EINVAL" \in Errors
    BY DEF Errors
  <2> QED  BY <1>1, <1>2, <1>3, <1>4, <2>1, FdRaises
<1>5. CASE Return(t, 0)
  <2>1. PICK n, outcome : n = 0 /\ outcome = "ok" /\ Ends(t, n, outcome)
    BY <1>5, ReturnEnds
  <2>2. ReturnsRight(t, n)
    BY <1>2, <2>1 DEF ReturnsRight
  <2> QED  BY <1>1, <1>2, <1>3, <2>1, <2>2, FdReturnKeeps
<1> QED  BY <1>1, <1>4, <1>5

LEMMA XattrReturnsKeeps ==
  ASSUME FilesInv, Alone, NEW t \in Thread, XattrReturns(t)
  PROVE  FilesInv'
<1>1. /\ frame[t].at = "back" /\ frame[t].fn \in Xattr /\ frame[t].outcome # "ERANGE"
      /\ IF Failed(t) THEN Raise(t, frame[t].outcome) ELSE Return(t, frame[t].ret)
      /\ file' = file /\ exports' = exports /\ saw' = saw
  BY DEF XattrReturns, Back
<1>2. ThreadInv(t) /\ frame[t].ret \in Int
  BY DEF FilesInv, FilesTypeOK, Frames
<1>3. /\ frame[t].fn \in FdMethods
      /\ frame[t].fn \notin {"pread", "contents", "pwrite", "fsetxattr"}
  BY <1>1 DEF FdMethods, Xattr
<1>4. exports' = exports \ {t}
  BY <1>1, <1>3, NoExport
<1>5. CASE Failed(t)
  <2>1. frame[t].outcome \in Errors
    BY <1>1, <1>2, <1>5 DEF ThreadInv, StageInv, Failed
  <2> QED  BY <1>1, <1>3, <1>4, <1>5, <2>1, FdRaises
<1>6. CASE ~Failed(t)
  <2>1. PICK n, outcome : n = frame[t].ret /\ outcome = "ok" /\ Ends(t, n, outcome)
    BY <1>1, <1>6, ReturnEnds
  <2>2. frame[t].ret = saw[t]
    BY <1>1, <1>2, <1>6 DEF ThreadInv, XattrInv, Back
  <2>3. ReturnsRight(t, n)
    BY <1>2, <1>3, <2>1, <2>2 DEF ReturnsRight
  <2> QED  BY <1>1, <1>3, <1>4, <2>1, <2>3, FdReturnKeeps
<1> QED  BY <1>5, <1>6

(* The next attempt has the next buffer; after the last one ERANGE says    *)
(* that the largest was too small.                                         *)
LEMMA XattrAgainKeeps ==
  ASSUME FilesInv, Alone, NEW t \in Thread, XattrAgain(t)
  PROVE  FilesInv'
<1> DEFINE i == frame[t].attempt + 1
<1>1. /\ frame[t].at = "back" /\ frame[t].fn \in Xattr /\ frame[t].outcome = "ERANGE"
      /\ file' = file /\ exports' = exports /\ saw' = saw
  BY DEF XattrAgain, Back
<1>2. ThreadInv(t) /\ frame[t] \in Frames /\ frame[t].attempt \in 0..1
  BY DEF FilesInv, FilesTypeOK, Frames
<1>3. /\ frame[t].fn \in FdMethods
      /\ frame[t].fn \notin {"lseek", "pread", "contents", "stat", "pwrite", "fsetxattr", "ftruncate"}
  BY <1>1 DEF FdMethods, Xattr
<1>4. frame[t].room = Rooms[i] /\ saw[t] \in Lengths /\ saw[t] > frame[t].room
  BY <1>1, <1>2 DEF ThreadInv, XattrInv, Back
<1>5. CASE i = Len(Rooms)
  <2>1. Raise(t, "ERANGE") /\ "ERANGE" \in Errors
    BY <1>5 DEF XattrAgain, Errors
  <2>2. saw[t] > Rooms[Len(Rooms)]
    BY <1>4, <1>5
  <2>3. exports' = exports \ {t}
    BY <1>1, <1>3, NoExport
  <2> QED  BY <1>1, <1>3, <2>1, <2>2, <2>3, FdRaises
<1>6. CASE i # Len(Rooms)
  <2> DEFINE f == [frame[t] EXCEPT !.at = "libgfapi", !.attempt = i, !.room = Rooms[i + 1]]
  <2>1. frame' = [frame EXCEPT ![t] = f]
    BY <1>6 DEF XattrAgain
  <2>2. i = 1 /\ Rooms[i + 1] \in Nat
    BY <1>2, <1>6, RoomsAre
  <2>3. f \in Frames
    <3>1. i \in 0..1
      BY <2>2
    <3> HIDE DEF i
    <3> QED  BY <1>2, <2>2, <3>1 DEF Frames
  <2>4. /\ f.at = "libgfapi" /\ f.attempt = i /\ f.room = Rooms[i + 1]
        /\ f.fn = frame[t].fn /\ f.outcome = "ERANGE"
    BY <1>1, <1>2 DEF Frames
  <2> HIDE DEF f
  <2>5. /\ frame'[t] = f /\ FramesOK'
        /\ \A u \in Thread \ {t} : frame'[u] = frame[u]
    BY <2>1, <2>3 DEF FilesInv, FilesTypeOK, FramesOK
  <2>6. /\ size' = size /\ attrs' = attrs /\ pos' = pos /\ does' = does
        /\ type' = type /\ cached' = cached /\ fds' = fds /\ array' = array
        /\ heap' = heap /\ known' = known
    BY <1>1 DEF file, Alone, handle, temp, past
  <2>7. Others(t)
    BY <1>1, <2>5, <2>6 DEF Others
  <2>8. FilesTypeOK'
    BY <1>1, <2>5, <2>6 DEF FilesInv, FilesTypeOK, FramesOK
  <2>9. t \notin exports /\ t \notin fds /\ array[t] = NULL /\ t \notin heap
    BY <1>1, <1>2, <1>3
       DEF ThreadInv, ExportInv, OpenedInv, ArrayInv, HeapInv, In, Back, Returned
  <2>10. StageInv(t)' /\ ArgsInv(t)' /\ ExportInv(t)'
    BY <1>1, <1>3, <2>4, <2>5, <2>9 DEF StageInv, ArgsInv, ExportInv, In, Back
  <2>11. XattrInv(t)' /\ HeapInv(t)' /\ KnownInv(t)'
    BY <1>3, <2>4, <2>5, <2>6, <2>9 DEF XattrInv, HeapInv, KnownInv, In, Back, Returned
  <2>12. BytesInv(t)' /\ OpenedInv(t)' /\ ArrayInv(t)' /\ ResultInv(t)'
    BY <1>3, <2>4, <2>5, <2>6, <2>9 DEF BytesInv, OpenedInv, ArrayInv, ResultInv, In, Back, Returned
  <2>13. ThreadInv(t)'
    BY <2>10, <2>11, <2>12 DEF ThreadInv
  <2> QED  BY <2>6, <2>7, <2>8, <2>13, StepKeeps
<1> QED  BY <1>5, <1>6

LEMMA FdStepKeeps ==
  ASSUME FilesInv, Alone, NEW t \in Thread, FdStep(t)
  PROVE  FilesInv'
<1>1. ASSUME NEW fn \in FdMethods, CallXattr(t, fn) \/ WriteRefused(t, fn) PROVE FilesInv'
  BY <1>1, CallXattrKeeps, RefusedKeeps
<1>2. ASSUME NEW fn \in FdMethods, NEW n \in Sizes, CallSimple(t, fn, n) PROVE FilesInv'
  BY <1>2, CallSimpleKeeps
<1>3. ASSUME NEW fn \in FdMethods, NEW n \in Lengths, NEW offset \in Sizes,
             CallWrite(t, fn, n, offset)
      PROVE  FilesInv'
  BY <1>3, CallWriteKeeps
<1>4. ASSUME NEW n \in -1..MaxSize, NEW whence \in 0..2, CallLseek(t, n, whence)
      PROVE  FilesInv'
  BY <1>4, CallLseekKeeps
<1>5. ASSUME NEW n \in Sizes, NEW offset \in Sizes, CallPread(t, offset, n) PROVE FilesInv'
  BY <1>5, CallPreadKeeps
<1>6. ASSUME PreadRefused(t) \/ NativeFails(t) PROVE FilesInv'
  BY <1>6, RefusedKeeps, NativeFailsKeeps
<1>7. ASSUME \/ PlainDone(t) \/ FstatDone(t) \/ FtruncateDone(t) \/ FremovexattrDone(t)
             \/ SimpleReturns(t)
      PROVE  FilesInv'
  BY <1>7, PlainDoneKeeps, FstatDoneKeeps, FtruncateDoneKeeps, FremovexattrDoneKeeps,
     SimpleReturnsKeeps
<1>8. ASSUME LseekDone(t) \/ LseekReturns(t) \/ PreadDone(t) \/ PreadReturns(t)
      PROVE  FilesInv'
  BY <1>8, LseekDoneKeeps, LseekReturnsKeeps, PreadDoneKeeps, PreadReturnsKeeps
<1>9. ASSUME NEW n \in Sizes, PwriteDone(t, n) PROVE FilesInv'
  BY <1>9, PwriteDoneKeeps
<1>10. ASSUME NEW which \in {"value", "names"}, FsetxattrDone(t, which) PROVE FilesInv'
  BY <1>10, FsetxattrDoneKeeps
<1>11. ASSUME \/ WriteReturns(t) \/ WriteNoMemory(t)
              \/ XattrDone(t) \/ XattrAgain(t) \/ XattrReturns(t) \/ NoMemory(t)
       PROVE  FilesInv'
  BY <1>11, WriteReturnsKeeps, WriteNoMemoryKeeps, XattrDoneKeeps, XattrAgainKeeps,
     XattrReturnsKeeps, NoMemoryKeeps
<1> QED  BY <1>1, <1>2, <1>3, <1>4, <1>5, <1>6, <1>7, <1>8, <1>9, <1>10, <1>11 DEF FdStep
-----------------------------------------------------------------------------
(* stat() and contents().                                                  *)

LEMMA CallStatKeeps ==
  ASSUME FilesInv, NEW t \in Thread, CallStat(t) \/ CallContents(t)
  PROVE  FilesInv'
<1>1. /\ frame[t] = Idle /\ file' = file /\ exports' = exports
      /\ handle' = handle /\ temp' = temp /\ heap' = heap
  BY DEF CallStat, CallContents, Calls, past
<1>2. PICK fn \in {"stat", "contents"} :
        /\ Enter(t, fn, <<0, 0>>, 0)
        /\ \/ fn = "stat" /\ known' = known
           \/ fn = "contents" /\ cached # NULL /\ known' = [known EXCEPT ![t] = {cached}]
  BY DEF CallStat, CallContents, past
<1>3. array[t] = NULL /\ t \notin heap /\ t \notin fds /\ t \notin exports
  BY <1>1, IdleHolds
<1>4. /\ known' \in [Thread -> SUBSET Sizes] /\ \A u \in Thread \ {t} : known'[u] = known[u]
      /\ fn = "contents" => cached \in known'[t]
  BY <1>2, PastType, HandleType
<1>5. <<0, 0>> \in (-1..Larger(MaxSize, MaxAttr)) \X (Sizes \cup 0..2)
  BY ArgsFit, FdAssumption DEF Sizes
<1>6. GoodCall(t, fn, <<0, 0>>, 0)
  BY <1>2, <1>5 DEF GoodCall, Methods, Xattr
<1> QED  BY <1>1, <1>2, <1>3, <1>4, <1>6, EnterKeeps

LEMMA StatDoneKeeps ==
  ASSUME FilesInv, NEW t \in Thread, StatDone(t)
  PROVE  FilesInv'
<1>1. /\ frame[t].at = "libgfapi" /\ frame[t].fn = "stat" /\ Over(t, size, "ok", size)
      /\ file' = file /\ exports' = exports
      /\ handle' = handle /\ temp' = temp /\ past' = past
  BY DEF StatDone, In
<1>2. AnswersRight(t, size, "ok", size)
  BY <1>1, FileType DEF AnswersRight, Xattr
<1>3. fds' = IF Opens(t, "ok") THEN fds \cup {t} ELSE fds
  BY <1>1 DEF temp, Opens
<1> QED  BY <1>1, <1>2, <1>3, LooksKeeps DEF temp

LEMMA OpenDoneKeeps ==
  ASSUME FilesInv, NEW t \in Thread, ReadlinkDone(t) \/ OpenDone(t)
  PROVE  FilesInv'
<1>1. /\ frame[t].at = "libgfapi" /\ frame[t].fn = "contents" /\ Over(t, 0, "ok", NULL)
      /\ file' = file /\ exports' = exports
      /\ handle' = handle /\ array' = array /\ past' = past
  BY DEF ReadlinkDone, OpenDone, In, temp
<1>2. fds' = IF Opens(t, "ok") THEN fds \cup {t} ELSE fds
  BY <1>1 DEF ReadlinkDone, OpenDone, temp, Opens
<1>3. PICK n \in Int : n = 0 /\ Over(t, n, "ok", NULL)
  BY <1>1
<1>4. AnswersRight(t, n, "ok", NULL)
  BY <1>1 DEF AnswersRight, Xattr
<1> QED  BY <1>1, <1>2, <1>3, <1>4, LooksKeeps

(* A return from stat() or contents() gives up a descriptor or an array,   *)
(* if there is one.                                                        *)
Leaves(t) ==
  /\ frame[t].at \in {"back", "listing", "listed"} /\ frame[t].fn \in {"stat", "contents"}
  /\ file' = file /\ saw' = saw /\ exports' = exports /\ type' = type /\ Learns
  /\ fds' = fds \ {t} /\ array' = [array EXCEPT ![t] = NULL]

LEMMA LeavesFacts ==
  ASSUME FilesInv, NEW t \in Thread, Leaves(t)
  PROVE  /\ GivesUp(t) /\ Learns
         /\ frame[t].fn \notin Xattr /\ frame[t].fn # "pread"
         /\ size' = size /\ attrs' = attrs /\ pos' = pos /\ does' = does /\ type' = type
         /\ saw' = saw
         /\ frame[t].at \in {"back", "listing", "listed"}
<1>1. frame[t].fn \notin Xattr /\ frame[t].fn \notin {"pread", "pwrite", "fsetxattr"}
  BY DEF Leaves, Xattr
<1>2. exports' = exports \ {t}
  BY <1>1, NoExport DEF Leaves
<1>3. GivesUp(t)
  BY <1>1, <1>2 DEF GivesUp, Leaves
<1>4. size' = size /\ attrs' = attrs /\ pos' = pos /\ does' = does
  BY DEF Leaves, file
<1> QED  BY <1>1, <1>3, <1>4 DEF Leaves

LEMMA HandleRaises ==
  ASSUME FilesInv, NEW t \in Thread, NEW error \in Errors, Leaves(t), Frees(t, error),
         Raise(t, error)
  PROVE  FilesInv'
<1>1. Ends(t, 0, error) /\ error # "ok"
  BY RaiseEnds DEF Errors
<1>2. RaisesRight(t, error)
  BY LeavesFacts DEF RaisesRight
<1>3. PICK n, outcome : n = 0 /\ outcome = error /\ Ends(t, n, outcome)
  BY <1>1
<1> QED  BY <1>1, <1>2, <1>3, LeavesFacts, EndsKeeps

LEMMA HandleReturns ==
  ASSUME FilesInv, NEW t \in Thread, NEW n \in Int, Leaves(t), heap' = heap \ {t},
         Return(t, n),
         frame[t].fn = "contents" => type # "FILE" /\ (type = "DIRECTORY" => n = saw[t])
  PROVE  FilesInv'
<1>1. PICK outcome : outcome = "ok" /\ Ends(t, n, outcome)
  BY ReturnEnds
<1>2. ReturnsRight(t, n) /\ Frees(t, outcome)
  BY LeavesFacts DEF ReturnsRight, Frees
<1> QED  BY <1>1, <1>2, LeavesFacts, EndsKeeps

(* What a thread that is back from libgfapi has opened.                    *)
LEMMA BackHolds ==
  ASSUME FilesInv, NEW t \in Thread, frame[t].at = "back",
         frame[t].fn \in {"stat", "contents"}
  PROVE  /\ array[t] = NULL /\ t \notin heap
         /\ t \in fds <=> frame[t].fn = "contents" /\ ~Failed(t) /\ type # "SYMLINK"
         /\ Failed(t) => frame[t].outcome \in Errors /\ frame[t].outcome # "ok"
         /\ frame[t].fn = "stat" /\ ~Failed(t) => frame[t].ret \in Sizes
         /\ frame[t].fn = "contents" => cached # NULL /\ cached \in known[t]
<1>1. ThreadInv(t)
  BY DEF FilesInv
<1>2. array[t] = NULL /\ (Failed(t) => frame[t].outcome \in Errors /\ frame[t].outcome # "ok")
  BY <1>1 DEF ThreadInv, ArrayInv, StageInv, Failed
<1>3. t \in fds <=> frame[t].fn = "contents" /\ ~Failed(t) /\ type # "SYMLINK"
  BY <1>1 DEF ThreadInv, OpenedInv, Back
<1>4. /\ frame[t].fn = "stat" /\ ~Failed(t) => frame[t].ret \in Sizes
      /\ frame[t].fn = "contents" => cached # NULL /\ cached \in known[t]
  BY <1>1 DEF ThreadInv, OpenedInv, KnownInv, Back
<1>5. t \notin heap
  BY <1>2, NoArray DEF Returned
<1> QED  BY <1>2, <1>3, <1>4, <1>5

LEMMA StatReturnsKeeps ==
  ASSUME FilesInv, NEW t \in Thread, StatReturns(t) \/ StatNoMemory(t)
  PROVE  FilesInv'
<1>1. /\ frame[t].at = "back" /\ frame[t].fn = "stat"
      /\ file' = file /\ exports' = exports /\ saw' = saw
      /\ type' = type /\ fds' = fds /\ array' = array /\ heap' = heap
  BY DEF StatReturns, StatNoMemory, Back, temp
<1>2. /\ array[t] = NULL /\ t \notin fds /\ t \notin heap
      /\ Failed(t) => frame[t].outcome \in Errors /\ frame[t].outcome # "ok"
      /\ ~Failed(t) => frame[t].ret \in Sizes
  BY <1>1, BackHolds
<1>3. fds' = fds \ {t} /\ array' = [array EXCEPT ![t] = NULL] /\ heap' = heap \ {t}
  BY <1>1, <1>2, HandleType
<1>4. CASE StatReturns(t) /\ Failed(t)
  <2>1. Raise(t, frame[t].outcome) /\ cached' = cached /\ known' = known
    BY <1>4 DEF StatReturns
  <2>2. Leaves(t) /\ Frees(t, frame[t].outcome)
    BY <1>1, <1>3, <2>1 DEF Leaves, Learns, Frees
  <2> QED  BY <1>1, <1>2, <1>4, <2>1, <2>2, HandleRaises
<1>5. CASE StatReturns(t) /\ ~Failed(t)
  <2>1. Return(t, frame[t].ret) /\ CacheIs(frame[t].ret)
    BY <1>5 DEF StatReturns
  <2>2. frame[t].ret \in Int
    BY <1>2, <1>5 DEF Sizes
  <2>3. Leaves(t)
    BY <1>1, <1>2, <1>3, <1>5, <2>1 DEF Leaves, Learns
  <2> QED  BY <1>1, <1>3, <2>1, <2>2, <2>3, HandleReturns
<1>6. CASE StatNoMemory(t)
  <2>1. Raise(t, "MemoryError") /\ CacheIs(frame[t].ret) /\ ~Failed(t)
    BY <1>6 DEF StatNoMemory
  <2>2. Leaves(t) /\ Frees(t, "MemoryError") /\ "MemoryError" \in Errors
    BY <1>1, <1>2, <1>3, <2>1 DEF Leaves, Learns, Frees, Errors
  <2> QED  BY <2>1, <2>2, HandleRaises
<1> QED  BY <1>4, <1>5, <1>6

LEMMA ContentsRefusedKeeps ==
  ASSUME FilesInv, NEW t \in Thread, ContentsRefused(t)
  PROVE  FilesInv'
<1>1. /\ frame[t] = Idle /\ Refuse(t, "contents", "NotImplementedError")
      /\ file' = file /\ exports' = exports /\ handle' = handle /\ temp' = temp /\ past' = past
  BY DEF ContentsRefused, Calls
<1>2. "contents" \in Methods /\ "NotImplementedError" # "ERANGE"
  BY DEF Methods
<1> QED  BY <1>1, <1>2, RefuseKeeps

LEMMA ContentsReturnsKeeps ==
  ASSUME FilesInv, NEW t \in Thread, ContentsReturns(t) \/ ReadFileFails(t)
  PROVE  FilesInv'
<1>1. /\ frame[t].at = "back" /\ frame[t].fn = "contents"
      /\ file' = file /\ exports' = exports /\ saw' = saw
      /\ type' = type /\ cached' = cached /\ array' = array /\ heap' = heap /\ known' = known
  BY DEF ContentsReturns, ReadFileFails, Back, handle, temp, past
<1>2. /\ array[t] = NULL /\ (t \in fds <=> ~Failed(t) /\ type # "SYMLINK") /\ t \notin heap
      /\ Failed(t) => frame[t].outcome \in Errors
  BY <1>1, BackHolds
<1>3. fds' = fds \ {t}
  BY <1>2 DEF ContentsReturns, ReadFileFails, temp
<1>4. heap' = heap \ {t} /\ Leaves(t) /\ \A error : Frees(t, error)
  BY <1>1, <1>2, <1>3, HandleType DEF Leaves, Learns, Frees
<1>5. CASE ReadFileFails(t)
  <2>1. Raise(t, "MemoryError") /\ "MemoryError" \in Errors
    BY <1>5 DEF ReadFileFails, Errors
  <2> QED  BY <1>4, <2>1, HandleRaises
<1>6. CASE ContentsReturns(t) /\ Failed(t)
  <2>1. Raise(t, frame[t].outcome)
    BY <1>6 DEF ContentsReturns
  <2> QED  BY <1>2, <1>4, <1>6, <2>1, HandleRaises
<1>7. CASE ContentsReturns(t) /\ ~Failed(t)
  <2>1. PICK n \in Int : n = 0 /\ Return(t, n)
    BY <1>7 DEF ContentsReturns
  <2>2. type = "SYMLINK"
    BY <1>7 DEF ContentsReturns
  <2> QED  BY <1>4, <2>1, <2>2, HandleReturns
<1> QED  BY <1>5, <1>6, <1>7

LEMMA ReadFileKeeps ==
  ASSUME FilesInv, NEW t \in Thread, ReadFile(t)
  PROVE  FilesInv'
<1>1. /\ frame[t].at = "back" /\ frame[t].fn = "contents" /\ type = "FILE"
      /\ Enter(t, "pread", <<cached, 0>>, cached)
      /\ file' = file /\ exports' = exports /\ handle' = handle /\ temp' = temp
      /\ heap' = heap /\ known' = known
  BY DEF ReadFile, Back, past
<1>2. array[t] = NULL /\ t \notin heap /\ cached \in Sizes /\ cached \in known[t]
  BY <1>1, BackHolds, HandleType
<1>3. t \notin exports
  BY <1>1 DEF FilesInv, ThreadInv, ExportInv, In, Back
<1>4. cached \in Nat /\ 0 \in Sizes /\ 0 \in Sizes \cup 0..2
  BY <1>2, FdAssumption DEF Sizes
<1>5. <<cached, 0>> \in (-1..Larger(MaxSize, MaxAttr)) \X (Sizes \cup 0..2)
  BY <1>2, <1>4, ArgsFit
<1>6. GoodCall(t, "pread", <<cached, 0>>, cached)
  BY <1>2, <1>4, <1>5 DEF GoodCall, Methods, FdMethods, Xattr
<1>7. known' \in [Thread -> SUBSET Sizes]
  BY <1>1, PastType
<1> QED  BY <1>1, <1>2, <1>3, <1>6, <1>7, EnterKeeps

(* A step that only moves the thread on, to another place in contents().   *)
LEMMA MovesFacts ==
  ASSUME FilesInv, NEW t \in Thread, NEW at \in {"listing", "listed"},
         frame' = [frame EXCEPT ![t].at = at]
  PROVE  /\ frame'[t].at = at /\ frame'[t].fn = frame[t].fn
         /\ \A u \in Thread \ {t} : frame'[u] = frame[u]
         /\ FramesOK'
<1> DEFINE f == [frame[t] EXCEPT !.at = at]
<1>1. frame[t] \in Frames /\ frame \in [Thread -> Frames]
  BY DEF FilesInv, FilesTypeOK
<1>2. frame' = [frame EXCEPT ![t] = f]
  OBVIOUS
<1>3. f \in Frames
  BY <1>1 DEF Frames
<1>4. f.at = at /\ f.fn = frame[t].fn
  BY <1>1 DEF Frames
<1> HIDE DEF f
<1>5. frame'[t] = f /\ FramesOK'
  BY <1>1, <1>2, <1>3 DEF FramesOK
<1> QED  BY <1>1, <1>2, <1>4, <1>5

(* One that holds an array afterwards.                                     *)
LEMMA ListKeeps ==
  ASSUME FilesInv, NEW t \in Thread, NEW a \in [next_idx : Nat, alloc : Nat],
         NEW at \in {"listing", "listed"},
         frame'[t].at = at, frame'[t].fn = "contents",
         \A u \in Thread \ {t} : frame'[u] = frame[u], FramesOK',
         array' = [array EXCEPT ![t] = a], a.next_idx < a.alloc,
         type = "DIRECTORY", saw' = [saw EXCEPT ![t] = a.next_idx], a.next_idx \in Sizes,
         fds' = IF at = "listing" THEN fds ELSE fds \ {t}, at = "listing" => t \in fds,
         t \notin exports,
         file' = file, handle' = handle, exports' = exports,
         heap' = heap \cup {t}, known' = known
  PROVE  FilesInv'
<1>1. /\ size' = size /\ attrs' = attrs /\ pos' = pos /\ does' = does
      /\ type' = type /\ cached' = cached
  BY DEF file, handle
<1>2. /\ array'[t] = a /\ saw'[t] = a.next_idx /\ a # NULL
      /\ array' \in [Thread -> [next_idx : Nat, alloc : Nat] \cup {NULL}]
      /\ saw' \in [Thread -> Sizes \cup Lengths \cup {NULL}]
      /\ \A u \in Thread \ {t} : array'[u] = array[u] /\ saw'[u] = saw[u]
  BY ContentsAssumption DEF FilesInv, FilesTypeOK
<1>3. /\ t \in fds' <=> at = "listing"
      /\ fds' \subseteq Thread /\ heap' \subseteq Thread
      /\ \A u \in Thread \ {t} : /\ u \in fds' <=> u \in fds
                                 /\ u \in heap' <=> u \in heap
  BY HandleType, PastType
<1>4. Others(t)
  BY <1>1, <1>2, <1>3 DEF Others
<1>5. FilesTypeOK'
  BY <1>1, <1>2, <1>3 DEF FilesInv, FilesTypeOK, FramesOK
<1>6. StageInv(t)' /\ ArgsInv(t)' /\ ExportInv(t)'
  BY DEF StageInv, ArgsInv, ExportInv, In, Back
<1>7. XattrInv(t)' /\ ResultInv(t)'
  BY DEF XattrInv, ResultInv, In, Back, Returned
<1>8. BytesInv(t)' /\ OpenedInv(t)' /\ ArrayInv(t)' /\ HeapInv(t)' /\ KnownInv(t)'
  BY <1>1, <1>2, <1>3
     DEF BytesInv, OpenedInv, ArrayInv, HeapInv, KnownInv, In, Back, Returned
<1>9. ThreadInv(t)'
  BY <1>6, <1>7, <1>8 DEF ThreadInv
<1> QED  BY <1>1, <1>4, <1>5, <1>9, StepKeeps

LEMMA BeginListingKeeps ==
  ASSUME FilesInv, NEW t \in Thread, BeginListing(t)
  PROVE  FilesInv'
<1>1. /\ frame[t].at = "back" /\ frame[t].fn = "contents" /\ ~Failed(t) /\ type = "DIRECTORY"
      /\ frame' = [frame EXCEPT ![t].at = "listing"]
      /\ file' = file /\ exports' = exports /\ handle' = handle
      /\ fds' = fds /\ heap' = heap \cup {t} /\ known' = known
  BY DEF BeginListing, Back
<1>2. PICK a : a = [next_idx |-> 0, alloc |-> FirstAlloc]
  OBVIOUS
<1>3. a \in [next_idx : Nat, alloc : Nat] /\ a.next_idx = 0 /\ a.next_idx < a.alloc
  BY <1>2, ContentsAssumption
<1>4. array' = [array EXCEPT ![t] = a] /\ saw' = [saw EXCEPT ![t] = a.next_idx]
  BY <1>2, <1>3 DEF BeginListing
<1>5. t \in fds /\ t \notin exports /\ a.next_idx \in Sizes
  BY <1>1, <1>3, BackHolds, FdAssumption DEF FilesInv, ThreadInv, ExportInv, In, Back, Sizes
<1>6. /\ frame'[t].at = "listing" /\ frame'[t].fn = "contents" /\ FramesOK'
      /\ \A u \in Thread \ {t} : frame'[u] = frame[u]
  BY <1>1, MovesFacts
<1> QED  BY <1>1, <1>3, <1>4, <1>5, <1>6, ListKeeps

LEMMA ListingHolds ==
  ASSUME FilesInv, NEW t \in Thread, frame[t].at \in {"listing", "listed"}
  PROVE  /\ frame[t].fn = "contents" /\ type = "DIRECTORY" /\ t \notin exports
         /\ t \in fds <=> frame[t].at = "listing"
         /\ array[t] \in [next_idx : Nat, alloc : Nat] /\ array[t] # NULL
         /\ saw[t] = array[t].next_idx /\ array[t].next_idx < array[t].alloc
         /\ array[t].next_idx \in Sizes /\ t \in heap
<1>1. ThreadInv(t)
  BY DEF FilesInv
<1>2. frame[t].fn = "contents" /\ t \notin exports
  BY <1>1 DEF ThreadInv, StageInv, ExportInv, In, Back
<1>3. t \in fds <=> frame[t].at = "listing"
  BY <1>1, <1>2 DEF ThreadInv, OpenedInv, ArrayInv, Back
<1>4. /\ array[t] # NULL /\ type = "DIRECTORY"
      /\ array[t].next_idx = saw[t] /\ array[t].next_idx < array[t].alloc
      /\ array[t].next_idx \in Sizes /\ t \in heap
  BY <1>1 DEF ThreadInv, ArrayInv, HeapInv
<1>5. array[t] \in [next_idx : Nat, alloc : Nat]
  BY <1>4, HandleType
<1> QED  BY <1>2, <1>3, <1>4, <1>5

LEMMA ReaddirKeeps ==
  ASSUME FilesInv, NEW t \in Thread, Readdir(t)
  PROVE  FilesInv'
<1> DEFINE n == array[t].next_idx + 1
           alloc == IF n = array[t].alloc THEN Growth * array[t].alloc ELSE array[t].alloc
<1>1. /\ frame[t].at = "listing" /\ array[t].next_idx < size
      /\ array' = [array EXCEPT ![t] = [next_idx |-> n, alloc |-> alloc]]
      /\ saw' = [saw EXCEPT ![t] = @ + 1] /\ frame' = frame
      /\ file' = file /\ exports' = exports /\ handle' = handle
      /\ fds' = fds /\ heap' = heap /\ known' = known
  BY DEF Readdir, Listing, past
<1>2. /\ frame[t].fn = "contents" /\ type = "DIRECTORY" /\ t \notin exports /\ t \in fds
      /\ array[t].next_idx \in Nat /\ array[t].alloc \in Nat
      /\ saw[t] = array[t].next_idx /\ array[t].next_idx < array[t].alloc
  BY <1>1, ListingHolds
<1>3. n \in Sizes /\ n \in Nat
  BY <1>1, <1>2, FileType, FdAssumption DEF Sizes
<1>4. alloc \in Nat /\ n < alloc
  <2>1. CASE n = array[t].alloc
    <3>1. Growth * n \in Nat /\ Growth * n >= 2 * n
      BY <1>3, ContentsAssumption
    <3> QED  BY <1>2, <1>3, <2>1, <3>1
  <2>2. CASE n # array[t].alloc
    BY <1>2, <2>2
  <2> QED  BY <2>1, <2>2
<1>5. saw' = [saw EXCEPT ![t] = n]
  BY <1>1, <1>2 DEF FilesInv, FilesTypeOK
<1> HIDE DEF n, alloc
<1>6. PICK a : a = [next_idx |-> n, alloc |-> alloc]
  OBVIOUS
<1>7. a \in [next_idx : Nat, alloc : Nat] /\ a.next_idx = n /\ a.next_idx < a.alloc
  BY <1>3, <1>4, <1>6
<1>8. array' = [array EXCEPT ![t] = a] /\ saw' = [saw EXCEPT ![t] = a.next_idx]
  BY <1>1, <1>5, <1>6, <1>7
<1>9. FramesOK' /\ frame'[t].at = "listing" /\ frame'[t].fn = "contents"
  BY <1>1, <1>2 DEF FramesOK, FilesInv, FilesTypeOK
<1>10. heap' = heap \cup {t}
  BY <1>1, ListingHolds
<1> QED  BY <1>1, <1>2, <1>3, <1>7, <1>8, <1>9, <1>10, ListKeeps

LEMMA ListingEndsKeeps ==
  ASSUME FilesInv, NEW t \in Thread, ListingEnds(t)
  PROVE  FilesInv'
<1>1. /\ frame[t].at = "listing" /\ frame' = [frame EXCEPT ![t].at = "listed"]
      /\ fds' = fds \ {t} /\ saw' = saw /\ array' = array
      /\ file' = file /\ exports' = exports /\ handle' = handle
      /\ heap' = heap /\ known' = known
  BY DEF ListingEnds, Listing, past
<1>2. PICK a : a = array[t]
  OBVIOUS
<1>3. /\ frame[t].fn = "contents" /\ type = "DIRECTORY" /\ t \notin exports
      /\ a \in [next_idx : Nat, alloc : Nat] /\ a.next_idx < a.alloc
      /\ saw[t] = a.next_idx /\ a.next_idx \in Sizes
  BY <1>1, <1>2, ListingHolds
<1>4. /\ frame'[t].at = "listed" /\ frame'[t].fn = "contents" /\ FramesOK'
      /\ \A u \in Thread \ {t} : frame'[u] = frame[u]
  BY <1>1, <1>3, MovesFacts
<1>5. array' = [array EXCEPT ![t] = a] /\ saw' = [saw EXCEPT ![t] = a.next_idx]
  BY <1>1, <1>2, <1>3 DEF FilesInv, FilesTypeOK
<1>6. heap' = heap \cup {t}
  BY <1>1, ListingHolds
<1> QED  BY <1>1, <1>3, <1>4, <1>5, <1>6, ListKeeps

LEMMA ListingFailsKeeps ==
  ASSUME FilesInv, NEW t \in Thread, ListingFails(t)
  PROVE  FilesInv'
<1>1. /\ frame[t].at \in {"back", "listing"} /\ frame[t].fn = "contents"
      /\ Raise(t, "EIO") /\ "EIO" \in Errors
  BY ListingHolds DEF ListingFails, Listing, Back, Errors
<1>2. Leaves(t) /\ Frees(t, "EIO")
  BY <1>1 DEF Leaves, Learns, Frees, ListingFails, handle
<1> QED  BY <1>1, <1>2, HandleRaises

(* The array leaves with the call, if its address is lost or not.          *)
LEMMA ListedLeaves ==
  ASSUME FilesInv, NEW t \in Thread, frame[t].at = "listed",
         array' = [array EXCEPT ![t] = NULL], cached' = cached, known' = known,
         file' = file, exports' = exports, saw' = saw, type' = type, fds' = fds
  PROVE  Leaves(t)
<1>1. frame[t].fn = "contents" /\ t \notin fds
  BY ListingHolds
<1> QED  BY <1>1, HandleType DEF Leaves, Learns

LEMMA ListReturnsKeeps ==
  ASSUME FilesInv, NEW t \in Thread, NEW error \in {"none", "UnicodeError", "MemoryError"},
         ListReturns(t, error)
  PROVE  FilesInv'
<1>1. Leaves(t) /\ heap' = heap \ {t} /\ Frees(t, error)
  BY ListedLeaves DEF ListReturns, handle, Frees
<1>2. /\ frame[t].fn = "contents" /\ type = "DIRECTORY"
      /\ array[t].next_idx \in Nat /\ saw[t] = array[t].next_idx
  BY ListingHolds DEF ListReturns
<1>3. CASE error = "none"
  <2>1. Return(t, array[t].next_idx)
    BY <1>3 DEF ListReturns
  <2> QED  BY <1>1, <1>2, <2>1, HandleReturns
<1>4. CASE error # "none"
  <2>1. Raise(t, error) /\ error \in Errors
    BY <1>4 DEF ListReturns, Errors
  <2> QED  BY <1>1, <2>1, HandleRaises
<1> QED  BY <1>3, <1>4

LEMMA ListFailsKeeps ==
  ASSUME FilesInv, NEW t \in Thread, ListFails(t)
  PROVE  FilesInv'
<1>1. frame[t].fn = "contents" /\ type = "DIRECTORY"
  BY ListingHolds DEF ListFails
<1>2. Leaves(t) /\ Frees(t, "MemoryError")
  BY <1>1, ListedLeaves DEF ListFails, handle, past, Frees
<1>3. Raise(t, "MemoryError") /\ "MemoryError" \in Errors
  BY DEF ListFails, Errors
<1> QED  BY <1>2, <1>3, HandleRaises

LEMMA FileReadKeeps ==
  ASSUME FilesInv, NEW t \in Thread, FileRead(t)
  PROVE  FilesInv'
<1> DEFINE f == [frame[t] EXCEPT !.fn = "contents"]
<1>1. /\ frame[t].at = "returned" /\ frame[t].fn = "pread" /\ t \in fds
      /\ frame' = [frame EXCEPT ![t] = f] /\ fds' = fds \ {t}
      /\ exports' = exports /\ saw' = saw /\ array' = array
      /\ heap' = heap /\ known' = known
      /\ size' = size /\ attrs' = attrs /\ pos' = pos /\ does' = does
      /\ type' = type /\ cached' = cached
  BY DEF FileRead, InContents, file, handle, past
<1>2. ThreadInv(t) /\ frame[t] \in Frames /\ frame \in [Thread -> Frames]
  BY DEF FilesInv, FilesTypeOK
<1>3. /\ f.fn = "contents" /\ f.at = "returned" /\ f.arg = frame[t].arg
      /\ f.ret = frame[t].ret /\ f.outcome = frame[t].outcome
  BY <1>1, <1>2 DEF Frames
<1>4. f \in Frames
  <2>1. "contents" \in Methods \cup {"none"}
    BY DEF Methods
  <2> QED  BY <1>2, <2>1 DEF Frames
<1> HIDE DEF f
<1>5. /\ frame'[t] = f /\ FramesOK'
      /\ \A u \in Thread \ {t} : frame'[u] = frame[u]
  BY <1>1, <1>2, <1>4 DEF FramesOK
<1>6. /\ t \notin fds' /\ fds' \subseteq Thread
      /\ \A u \in Thread \ {t} : u \in fds' <=> u \in fds
  BY <1>1, HandleType
<1>7. Others(t)
  BY <1>1, <1>5, <1>6 DEF Others
<1>8. FilesTypeOK'
  BY <1>1, <1>5, <1>6 DEF FilesInv, FilesTypeOK, FramesOK
<1>9. /\ type = "FILE" /\ array[t] = NULL /\ t \notin exports /\ t \notin heap
      /\ frame[t].arg[1] \in known[t]
      /\ ~Failed(t) => /\ frame[t].arg[1] \in Int /\ saw[t] \in Sizes
                       /\ frame[t].ret = Smaller(frame[t].arg[1], saw[t])
  <2>1. /\ type = "FILE" /\ frame[t].arg[2] = 0 /\ array[t] = NULL /\ t \notin exports
        /\ t \notin heap /\ frame[t].arg[1] \in known[t]
    BY <1>1, <1>2
       DEF ThreadInv, BytesInv, ArrayInv, HeapInv, KnownInv, ExportInv, In, Back, Returned
  <2>2. frame[t].arg[1] \in Int
    BY <1>2, FdAssumption DEF Frames, Larger
  <2>3. ~Failed(t) => /\ saw[t] \in Sizes
                      /\ frame[t].ret = Smaller(frame[t].arg[1], Larger(saw[t] - 0, 0))
    BY <1>1, <1>2, <2>1 DEF ThreadInv, BytesInv, Returned
  <2>4. saw[t] \in Sizes => Larger(saw[t] - 0, 0) = saw[t]
    BY FdAssumption DEF Sizes, Larger
  <2> QED  BY <2>1, <2>2, <2>3, <2>4
<1>10. StageInv(t)' /\ ArgsInv(t)' /\ ExportInv(t)'
  BY <1>1, <1>3, <1>5, <1>9 DEF StageInv, ArgsInv, ExportInv, In, Back
<1>11. XattrInv(t)' /\ BytesInv(t)' /\ HeapInv(t)' /\ KnownInv(t)'
  BY <1>1, <1>3, <1>5, <1>6, <1>9
     DEF XattrInv, BytesInv, HeapInv, KnownInv, In, Back, Returned, Xattr
<1>12. OpenedInv(t)' /\ ArrayInv(t)'
  BY <1>1, <1>3, <1>5, <1>6, <1>9 DEF OpenedInv, ArrayInv, In, Back
<1>13. ResultInv(t)'
  BY <1>1, <1>3, <1>5, <1>9 DEF ResultInv, Returned, Failed
<1>14. ThreadInv(t)'
  BY <1>10, <1>11, <1>12, <1>13 DEF ThreadInv
<1> QED  BY <1>1, <1>7, <1>8, <1>14, StepKeeps

LEMMA ContentsEmptyKeeps ==
  ASSUME FilesInv, NEW t \in Thread, ContentsEmpty(t)
  PROVE  FilesInv'
<1> DEFINE f == [Idle EXCEPT !.at = "returned", !.fn = "contents", !.outcome = "ok"]
<1>1. /\ frame[t] = Idle /\ type = "FILE" /\ frame' = [frame EXCEPT ![t] = f]
      /\ saw' = [saw EXCEPT ![t] = size]
      /\ cached = 0 /\ known' = [known EXCEPT ![t] = {cached}] /\ heap' = heap
      /\ exports' = exports /\ array' = array /\ fds' = fds
      /\ size' = size /\ attrs' = attrs /\ pos' = pos /\ does' = does
      /\ type' = type /\ cached' = cached
  BY DEF ContentsEmpty, Calls, file, handle, temp
<1>2. array[t] = NULL /\ t \notin heap /\ t \notin fds /\ t \notin exports
  BY <1>1, IdleHolds
<1>3. /\ f.at = "returned" /\ f.fn = "contents" /\ f.outcome = "ok"
      /\ f.arg = <<0, 0>> /\ f.ret = 0
  BY IdleFacts DEF Frames, FilesInv
<1>4. f \in Frames
  <2>1. "contents" \in Methods \cup {"none"}
    BY DEF Methods
  <2> QED  BY IdleFacts, <2>1 DEF Frames, FilesInv
<1> HIDE DEF f
<1>5. /\ frame'[t] = f /\ FramesOK'
      /\ \A u \in Thread \ {t} : frame'[u] = frame[u]
  BY <1>1, <1>4 DEF FramesOK, FilesInv, FilesTypeOK
<1>6. /\ saw'[t] = size /\ saw' \in [Thread -> Sizes \cup Lengths \cup {NULL}]
      /\ known'[t] = {0} /\ known' \in [Thread -> SUBSET Sizes]
      /\ \A u \in Thread \ {t} : saw'[u] = saw[u] /\ known'[u] = known[u]
  BY <1>1, FdAssumption DEF FilesInv, FilesTypeOK, Sizes
<1>7. Others(t)
  BY <1>1, <1>5, <1>6 DEF Others
<1>8. FilesTypeOK'
  BY <1>1, <1>5, <1>6 DEF FilesInv, FilesTypeOK, FramesOK
<1>9. StageInv(t)' /\ ArgsInv(t)' /\ ExportInv(t)'
  BY <1>1, <1>2, <1>3, <1>5 DEF StageInv, ArgsInv, ExportInv, In, Back
<1>10. XattrInv(t)' /\ BytesInv(t)' /\ HeapInv(t)' /\ KnownInv(t)'
  BY <1>1, <1>2, <1>3, <1>5
     DEF XattrInv, BytesInv, HeapInv, KnownInv, In, Back, Returned, Xattr
<1>11. OpenedInv(t)' /\ ArrayInv(t)'
  BY <1>1, <1>2, <1>3, <1>5 DEF OpenedInv, ArrayInv, In, Back
<1>12. ResultInv(t)'
  <2>1. Smaller(0, size) = 0
    BY FileType DEF Smaller
  <2> QED  BY <1>1, <1>3, <1>5, <1>6, <2>1 DEF ResultInv
<1>13. ThreadInv(t)'
  BY <1>9, <1>10, <1>11, <1>12 DEF ThreadInv
<1> QED  BY <1>1, <1>7, <1>8, <1>13, StepKeeps

LEMMA GoesOnKeeps ==
  ASSUME FilesInv, NEW t \in Thread, GoesOn(t)
  PROVE  FilesInv'
<1>1. /\ frame[t].at = "returned" /\ frame' = [frame EXCEPT ![t] = Idle]
      /\ saw' = [saw EXCEPT ![t] = NULL] /\ ~InContents(t)
      /\ heap' = heap \ {t} /\ known' = [known EXCEPT ![t] = {}]
      /\ exports' = exports /\ array' = array /\ fds' = fds
      /\ size' = size /\ attrs' = attrs /\ pos' = pos /\ does' = does
      /\ type' = type /\ cached' = cached
  BY DEF GoesOn, Resume, file, handle, temp
<1>2. ThreadInv(t)
  BY DEF FilesInv
<1>3. array[t] = NULL /\ t \notin fds /\ t \notin exports
  BY <1>1, <1>2 DEF ThreadInv, ArrayInv, OpenedInv, ExportInv, InContents, In, Back
<1>4. Idle \in Frames /\ Idle.at = "python" /\ Idle.fn = "none"
  BY IdleFacts DEF FilesInv
<1>5. /\ frame'[t] = Idle /\ FramesOK'
      /\ saw' \in [Thread -> Sizes \cup Lengths \cup {NULL}]
      /\ heap' \subseteq Thread /\ t \notin heap' /\ known' \in [Thread -> SUBSET Sizes]
      /\ \A u \in Thread \ {t} :
           /\ frame'[u] = frame[u] /\ saw'[u] = saw[u] /\ known'[u] = known[u]
           /\ u \in heap' <=> u \in heap
  BY <1>1, <1>4 DEF FramesOK, FilesInv, FilesTypeOK
<1>6. Others(t)
  BY <1>1, <1>5 DEF Others
<1>7. FilesTypeOK'
  BY <1>1, <1>5 DEF FilesInv, FilesTypeOK, FramesOK
<1>8. StageInv(t)' /\ ArgsInv(t)' /\ ExportInv(t)'
  BY <1>1, <1>3, <1>4, <1>5 DEF StageInv, ArgsInv, ExportInv, In, Back
<1>9. XattrInv(t)' /\ BytesInv(t)' /\ OpenedInv(t)' /\ ArrayInv(t)' /\ ResultInv(t)'
  BY <1>1, <1>3, <1>4, <1>5
     DEF XattrInv, BytesInv, OpenedInv, ArrayInv, ResultInv, In, Back, Returned
<1>10. HeapInv(t)' /\ KnownInv(t)'
  BY <1>1, <1>3, <1>4, <1>5 DEF HeapInv, KnownInv, In, Back
<1>11. ThreadInv(t)'
  BY <1>8, <1>9, <1>10 DEF ThreadInv
<1> QED  BY <1>1, <1>6, <1>7, <1>11, StepKeeps

(* A step that is no thread's own.                                         *)
LEMMA NobodysKeeps ==
  ASSUME FilesInv, size' \in Sizes, attrs' = attrs, pos' = pos, does' = does,
         frame' = frame, exports' = exports, saw' = saw, heap' = heap, known' = known,
         type' = type, cached' = cached, fds' = fds, array' = array
  PROVE  FilesInv'
<1>1. FilesTypeOK'
  BY DEF FilesInv, FilesTypeOK
<1>2. ASSUME NEW t \in Thread PROVE ThreadInv(t)'
  <2>1. ThreadInv(t)
    BY DEF FilesInv
  <2>2. StageInv(t)' /\ ArgsInv(t)' /\ ExportInv(t)' /\ XattrInv(t)'
    BY <2>1 DEF ThreadInv, StageInv, ArgsInv, ExportInv, XattrInv, In, Back, Returned, Failed
  <2>3. BytesInv(t)' /\ OpenedInv(t)' /\ ArrayInv(t)' /\ ResultInv(t)'
    BY <2>1 DEF ThreadInv, BytesInv, OpenedInv, ArrayInv, ResultInv, In, Back, Returned, Failed
  <2>4. HeapInv(t)' /\ KnownInv(t)'
    BY <2>1 DEF ThreadInv, HeapInv, KnownInv, In, Back, Returned
  <2> QED  BY <2>2, <2>3, <2>4 DEF ThreadInv
<1> QED  BY <1>1, <1>2 DEF FilesInv
-----------------------------------------------------------------------------
(* The inductive invariant, put together.                                  *)

LEMMA FilesInvInit == Init => FilesInv
<1> SUFFICES ASSUME Init PROVE FilesInv
  OBVIOUS
<1>1. /\ does \in Programs /\ size \in Sizes /\ pos \in Sizes
      /\ attrs \in [{"value", "names"} -> Lengths \cup {NULL}]
      /\ cached \in Sizes \cup {NULL}
  BY FdAssumption DEF Init, FdInit, Sizes, Lengths
<1>2. /\ type \in {"FILE", "DIRECTORY", "SYMLINK"}
      /\ exports = {} /\ fds = {} /\ heap = {} /\ known = [t \in Thread |-> {}]
      /\ frame = [t \in Thread |-> Idle] /\ saw = [t \in Thread |-> NULL]
      /\ array = [t \in Thread |-> NULL]
  BY DEF Init, FdInit
<1>3. /\ Idle \in Frames /\ Idle.at = "python" /\ Idle.fn = "none"
  <2>1. <<0, 0>> \in (-1..Larger(MaxSize, MaxAttr)) \X (Sizes \cup 0..2)
    BY FdAssumption DEF Larger, Sizes
  <2> QED  BY <2>1 DEF Idle, Frames
<1>4. FilesTypeOK
  BY <1>1, <1>2, <1>3 DEF FilesTypeOK
<1>5. ASSUME NEW t \in Thread PROVE ThreadInv(t)
  <2>1. /\ frame[t] = Idle /\ array[t] = NULL /\ t \notin heap
        /\ t \notin exports /\ t \notin fds
    BY <1>2
  <2>2. StageInv(t) /\ ArgsInv(t) /\ ExportInv(t)
    BY <1>3, <2>1 DEF StageInv, ArgsInv, ExportInv, In, Back
  <2>3. XattrInv(t) /\ BytesInv(t) /\ HeapInv(t) /\ KnownInv(t)
    BY <1>3, <2>1 DEF XattrInv, BytesInv, HeapInv, KnownInv, In, Back, Returned
  <2>4. OpenedInv(t) /\ ArrayInv(t) /\ ResultInv(t)
    BY <1>3, <2>1 DEF OpenedInv, ArrayInv, ResultInv, In, Back, Returned
  <2> QED  BY <2>2, <2>3, <2>4 DEF ThreadInv
<1> QED  BY <1>4, <1>5 DEF FilesInv

LEMMA HandleStepKeeps ==
  ASSUME FilesInv, NEW t \in Thread, HandleStep(t)
  PROVE  FilesInv'
<1>1. ASSUME \/ CallStat(t) \/ StatDone(t) \/ StatReturns(t) \/ StatNoMemory(t)
             \/ ContentsRefused(t) \/ ContentsEmpty(t) \/ CallContents(t)
      PROVE  FilesInv'
  BY <1>1, CallStatKeeps, StatDoneKeeps, StatReturnsKeeps, ContentsRefusedKeeps,
     ContentsEmptyKeeps
<1>2. ASSUME \/ ReadlinkDone(t) \/ OpenDone(t) \/ ContentsReturns(t)
             \/ ReadFile(t) \/ ReadFileFails(t) \/ FileRead(t)
      PROVE  FilesInv'
  BY <1>2, OpenDoneKeeps, ContentsReturnsKeeps, ReadFileKeeps, FileReadKeeps
<1>3. ASSUME BeginListing(t) \/ Readdir(t) \/ ListingFails(t) \/ ListingEnds(t)
      PROVE  FilesInv'
  BY <1>3, BeginListingKeeps, ReaddirKeeps, ListingFailsKeeps, ListingEndsKeeps
<1>4. ASSUME NEW error \in {"none", "UnicodeError", "MemoryError"}, ListReturns(t, error)
      PROVE  FilesInv'
  BY <1>4, ListReturnsKeeps
<1>5. ASSUME ListFails(t) PROVE FilesInv'
  BY <1>5, ListFailsKeeps
<1> QED  BY <1>1, <1>2, <1>3, <1>4, <1>5 DEF HandleStep

LEMMA FilesInvStep == FilesInv /\ [Next]_vars => FilesInv'
<1> SUFFICES ASSUME FilesInv, [Next]_vars PROVE FilesInv'
  OBVIOUS
<1>1. ASSUME NEW t \in Thread, HandleStep(t) PROVE FilesInv'
  BY <1>1, HandleStepKeeps
<1>2. ASSUME NEW t \in Thread, FdStep(t), UNCHANGED <<handle, temp, past>> PROVE FilesInv'
  BY <1>2, FdStepKeeps DEF Alone
<1>3. ASSUME NEW t \in Thread, GoesOn(t) PROVE FilesInv'
  BY <1>3, GoesOnKeeps
<1>4. ASSUME Elsewhere, UNCHANGED <<handle, temp, past>> PROVE FilesInv'
  BY <1>4, NobodysKeeps DEF Elsewhere, handle, temp, past
<1>5. ASSUME UNCHANGED vars PROVE FilesInv'
  BY <1>5, FileType, NobodysKeeps DEF vars, fdVars, file, handle, temp, past
<1> QED  BY <1>1, <1>2, <1>3, <1>4, <1>5 DEF Next

LEMMA FilesInvariance == Spec => []FilesInv
BY FilesInvInit, FilesInvStep, PTL DEF Spec
-----------------------------------------------------------------------------
(* What it says.                                                           *)

(* Every local variable of a method in C, the cached stat and the array of *)
(* entries keep their types; in particular the offset and the size stay    *)
(* within the file, and the cached size is never one that a call that      *)
(* failed returned.                                                        *)
THEOREM FilesTypeCorrect == Spec => []FilesTypeOK
<1>1. FilesInv => FilesTypeOK
  BY DEF FilesInv
<1> QED  BY <1>1, FilesInvariance, PTL

(* contents() returns the bytes that are within the file and within a size *)
(* that the cached stat had during the call, or all names that were read,  *)
(* none of them written behind the end of the array, for any Growth and    *)
(* any first length of it.                                                 *)
THEOREM ContentsAreReal == Spec => []ContentsExplained
<1>1. ASSUME FilesInv PROVE ContentsExplained
  <2> SUFFICES ASSUME NEW t \in Thread
               PROVE  /\ array[t] # NULL => array[t].next_idx < array[t].alloc
                      /\ Returned(t, {"contents"}) /\ ~Failed(t) =>
                           CASE type = "FILE" -> \E c \in known[t] : frame[t].ret = Smaller(c, saw[t])
                             [] type = "DIRECTORY" -> frame[t].ret = saw[t]
                             [] type = "SYMLINK" -> TRUE
    BY DEF ContentsExplained
  <2>1. ArrayInv(t) /\ ResultInv(t) /\ type \in {"FILE", "DIRECTORY", "SYMLINK"}
    BY <1>1, HandleType DEF FilesInv, ThreadInv
  <2>2. array[t] # NULL => array[t].next_idx < array[t].alloc
    BY <2>1 DEF ArrayInv
  <2>3. CASE type = "FILE"
    BY <2>1, <2>2, <2>3 DEF ResultInv
  <2>4. CASE type = "DIRECTORY"
    BY <2>1, <2>2, <2>4 DEF ResultInv
  <2>5. CASE type = "SYMLINK"
    BY <2>2, <2>5
  <2> QED  BY <2>1, <2>3, <2>4, <2>5
<1> QED  BY <1>1, FilesInvariance, PTL

(* fgetxattr() and flistxattr() return what was there at one instant, with *)
(* any two buffers, and ERANGE only speaks of the second.                  *)
THEOREM XattrsAreWhole == Spec => []WholeXattr
<1>1. FilesInv => WholeXattr
  BY DEF FilesInv, ThreadInv, XattrInv, WholeXattr
<1> QED  BY <1>1, FilesInvariance, PTL

(* Buffers, temporary descriptors and arrays are kept for as long as they  *)
(* are in use and no longer, whatever fails; the one array that is never   *)
(* freed is that of a contents() without memory for its list.              *)
THEOREM HeldWhileUsed == Spec => []HeldForTheCall
<1>1. ASSUME FilesInv, NEW t \in Thread
      PROVE  /\ t \in exports <=> In(t, {"pwrite", "fsetxattr"}) \/ Back(t, {"pwrite", "fsetxattr"})
             /\ frame[t].at \in {"python", "returned"} /\ ~InContents(t) => t \notin fds
             /\ frame[t].at = "listing" => t \in fds
             /\ array[t] # NULL <=> frame[t].at \in {"listing", "listed"}
             /\ array[t] # NULL => t \in heap
             /\ t \in heap /\ array[t] = NULL =>
                  /\ Returned(t, {"contents"}) /\ type = "DIRECTORY"
                  /\ frame[t].outcome = "MemoryError"
  <2>1. ExportInv(t) /\ OpenedInv(t) /\ ArrayInv(t) /\ HeapInv(t)
    BY <1>1 DEF FilesInv, ThreadInv
  <2>2. t \in exports <=> In(t, {"pwrite", "fsetxattr"}) \/ Back(t, {"pwrite", "fsetxattr"})
    BY <2>1 DEF ExportInv
  <2>3. frame[t].at \in {"python", "returned"} /\ ~InContents(t) => t \notin fds
    BY <2>1 DEF OpenedInv, InContents, Back
  <2>4. /\ frame[t].at = "listing" => t \in fds
        /\ array[t] # NULL <=> frame[t].at \in {"listing", "listed"}
    BY <2>1 DEF ArrayInv
  <2> QED  BY <2>1, <2>2, <2>3, <2>4 DEF HeapInv
<1>2. FilesInv => HeldForTheCall
  BY <1>1 DEF HeldForTheCall
<1> QED  BY <1>2, FilesInvariance, PTL
=============================================================================
