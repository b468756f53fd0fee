-------------------------------- MODULE FdCalls --------------------------------
(***************************************************************************)
(* The methods of pyglfs.FD on one file, called by several threads: what   *)
(* is checked and allocated before the GIL is released, the libgfapi call  *)
(* itself, which other threads and other clients of the volume race with,  *)
(* and what is made of its result once the GIL is back.                    *)
(*                                                                         *)
(* A byte string is its length.  Every method has three steps: the call,   *)
(* libgfapi, and the return.                                               *)
(***************************************************************************)
EXTENDS Integers, Sequences

CONSTANTS
  Thread,
  Programs,    \* which methods each thread may call, in one program or
               \* another: they bound what is interleaved with what
  MaxSize,     \* bounds the size of the file and the offsets ...
  MaxAttr,     \* ... and the length of an extended attribute
  Rooms,       \* the buffers tried for an extended attribute: <<128,
               \* XATTR_SIZE_MAX>> or <<256, XATTR_LIST_MAX>> in the code
  Wrap,        \* how many values an int has
  NULL

Plain == {"fsync", "fchdir", "fchmod", "fchown"}
Xattr == {"fgetxattr", "flistxattr"}
FdMethods == Plain \cup Xattr \cup
  {"fstat", "ftruncate", "lseek", "pread", "pwrite", "fsetxattr", "fremovexattr"}

ASSUME FdAssumption ==
  /\ MaxSize \in Nat /\ MaxAttr \in Nat \ {0}
  /\ Len(Rooms) = 2 /\ \A i \in 1..2 : Rooms[i] \in Nat \ {0}
  /\ Wrap \in Nat /\ Wrap > 1 /\ Wrap % 2 = 0
  /\ NULL \notin Int

VARIABLES
  does,        \* the program
  size,        \* of the file, or the number of entries of a directory
  attrs,       \* the length of the extended attribute that fgetxattr() asks
               \* for, NULL when there is none, and that of the list of names
  pos,         \* the offset of the file descriptor
  frame,       \* the C function each thread is in, with its local variables
  exports      \* the threads whose Py_buffer keeps the caller's object

(* History: what the last libgfapi call of a thread's method found.        *)
VARIABLE saw

file == <<does, size, attrs, pos>>
fdVars == <<file, frame, exports, saw>>
-----------------------------------------------------------------------------
Sizes == 0..MaxSize
Lengths == 0..MaxAttr

Smaller(a, b) == IF a < b THEN a ELSE b
Larger(a, b) == IF a > b THEN a ELSE b

(* The assignment of an off_t to an int.                                   *)
ToInt(n) == ((n + Wrap \div 2) % Wrap) - Wrap \div 2

(* at:      in Python, in libgfapi without the GIL, or back with the GIL   *)
(* arg:     two arguments, or a length and an offset                       *)
(* room:    the size of the buffer that was allocated                      *)
(* attempt: the i of the loops over buffer_sizes                           *)
(* ret:     what libgfapi returned, and in the end the method's result     *)
(* outcome: of libgfapi, and in the end of the method                      *)
Idle == [at |-> "python", fn |-> "none", arg |-> <<0, 0>>, room |-> 0, attempt |-> 0,
         ret |-> 0, outcome |-> "none"]

Errors ==
  {"EIO", "ERANGE", "ENODATA", "EINVAL", "TypeError", "MemoryError", "UnicodeError"}

(* A method of thread t begins, and goes into libgfapi.                    *)
Calls(t, fn) == frame[t] = Idle /\ fn \in does[t]

Enter(t, fn, arg, room) ==
  /\ frame' = [frame EXCEPT ![t] = [Idle EXCEPT !.at = "libgfapi", !.fn = fn, !.arg = arg,
                                                !.room = room]]
  /\ saw' = [saw EXCEPT ![t] = NULL]

(* It raises before it goes there.                                         *)
Refuse(t, fn, error) ==
  /\ frame' = [frame EXCEPT ![t] = [Idle EXCEPT !.at = "returned", !.fn = fn, !.outcome = error]]
  /\ UNCHANGED saw

In(t, fns) == frame[t].at = "libgfapi" /\ frame[t].fn \in fns

(* The libgfapi call is over: it returns n, having found what.             *)
Over(t, n, outcome, what) ==
  /\ frame' = [frame EXCEPT ![t].at = "back", ![t].ret = n, ![t].outcome = outcome]
  /\ saw' = [saw EXCEPT ![t] = what]

Back(t, fns) == frame[t].at = "back" /\ frame[t].fn \in fns

Failed(t) == frame[t].outcome # "ok"

Return(t, n) ==
  frame' = [frame EXCEPT ![t].at = "returned", ![t].room = 0, ![t].attempt = 0,
                         ![t].ret = n, ![t].outcome = "ok"]

Raise(t, error) ==
  frame' = [frame EXCEPT ![t].at = "returned", ![t].room = 0, ![t].attempt = 0,
                         ![t].ret = 0, ![t].outcome = error]

FdInit ==
  /\ does \in Programs
  /\ size \in Sizes /\ pos = 0
  /\ attrs \in [{"value", "names"} -> {1}]
  /\ frame = [t \in Thread |-> Idle]
  /\ exports = {}
  /\ saw = [t \in Thread |-> NULL]

(* Any libgfapi call may fail, and has changed nothing here then: what a   *)
(* failed write leaves of itself in the file counts as Elsewhere.          *)
NativeFails(t) ==
  /\ frame[t].at = "libgfapi"
  /\ Over(t, -1, "EIO", NULL)
  /\ UNCHANGED <<file, exports>>

(* The methods that are a libgfapi call and a test of its result.          *)
CallSimple(t, fn, n) ==
  /\ Calls(t, fn)
  /\ fn \in Plain \cup {"fstat", "ftruncate", "fremovexattr"}
  /\ n # 0 => fn = "ftruncate"
  /\ Enter(t, fn, <<n, 0>>, 0)
  /\ UNCHANGED <<file, exports>>

PlainDone(t) ==
  /\ In(t, Plain)
  /\ Over(t, 0, "ok", NULL)
  /\ UNCHANGED <<file, exports>>

FstatDone(t) ==
  /\ In(t, {"fstat"})
  /\ Over(t, size, "ok", size)
  /\ UNCHANGED <<file, exports>>

FtruncateDone(t) ==
  /\ In(t, {"ftruncate"})
  /\ size' = frame[t].arg[1]
  /\ Over(t, 0, "ok", NULL)
  /\ UNCHANGED <<does, attrs, pos, exports>>

FremovexattrDone(t) ==
  /\ In(t, {"fremovexattr"})
  /\ IF attrs["value"] = NULL
     THEN Over(t, -1, "ENODATA", NULL) /\ UNCHANGED attrs
     ELSE /\ attrs' = [attrs EXCEPT !["value"] = NULL]
          /\ Over(t, 0, "ok", NULL)
  /\ UNCHANGED <<does, size, pos, exports>>

SimpleReturns(t) ==
  /\ Back(t, Plain \cup {"fstat", "ftruncate", "fremovexattr"})
  /\ IF Failed(t) THEN Raise(t, frame[t].outcome) ELSE Return(t, frame[t].ret)
  /\ UNCHANGED <<file, exports, saw>>
-----------------------------------------------------------------------------
(* lseek(offset, whence): SEEK_SET, SEEK_CUR and SEEK_END are 0, 1 and 2.  *)
CallLseek(t, offset, whence) ==
  /\ Calls(t, "lseek")
  /\ Enter(t, "lseek", <<offset, whence>>, 0)
  /\ UNCHANGED <<file, exports>>

LseekDone(t) ==
  /\ In(t, {"lseek"})
  /\ LET new == frame[t].arg[1] + <<0, pos, size>>[frame[t].arg[2] + 1] IN
     /\ new <= MaxSize
     /\ IF new < 0
        THEN Over(t, -1, "EINVAL", NULL) /\ UNCHANGED pos
        ELSE /\ pos' = new
             /\ Over(t, new, "ok", new)
  /\ UNCHANGED <<does, size, attrs, exports>>

(* err is an int, and every value of it but zero an error, whatever errno  *)
(* may be.                                                                 *)
LseekReturns(t) ==
  /\ Back(t, {"lseek"})
  /\ IF ToInt(frame[t].ret) # 0 THEN Raise(t, "EINVAL") ELSE Return(t, 0)
  /\ UNCHANGED <<file, exports, saw>>

(* pread(offset, cnt): the bytes object is made first.                     *)
CallPread(t, offset, cnt) ==
  /\ Calls(t, "pread")
  /\ cnt >= 0
  /\ Enter(t, "pread", <<cnt, offset>>, cnt)
  /\ UNCHANGED <<file, exports>>

(* A negative count, or no memory for so many bytes.                       *)
PreadRefused(t) ==
  /\ Calls(t, "pread")
  /\ Refuse(t, "pread", "EINVAL")
  /\ UNCHANGED <<file, exports>>

PreadDone(t) ==
  /\ In(t, {"pread"})
  /\ LET n == Smaller(frame[t].arg[1], Larger(size - frame[t].arg[2], 0)) IN
     Over(t, n, "ok", size)
  /\ UNCHANGED <<file, exports>>

(* It is resized to what was read.                                         *)
PreadReturns(t) ==
  /\ Back(t, {"pread"})
  /\ IF Failed(t)
     THEN Raise(t, frame[t].outcome)
     ELSE Return(t, IF frame[t].ret # frame[t].room THEN frame[t].ret ELSE frame[t].room)
  /\ UNCHANGED <<file, exports, saw>>
-----------------------------------------------------------------------------
(* pwrite(buf, offset) and fsetxattr(name, value, flags) take a Py_buffer  *)
(* of the caller's object.  fsetxattr() may set the attribute that is read *)
(* here, or another one, and the list of names changes.                    *)
CallWrite(t, fn, n, offset) ==
  /\ Calls(t, fn)
  /\ \/ fn = "pwrite" /\ n + offset <= MaxSize
     \/ fn = "fsetxattr" /\ offset = 0
  /\ Enter(t, fn, <<n, offset>>, 0)
  /\ exports' = exports \cup {t}
  /\ UNCHANGED file

(* The object has no buffer, or does not give it.                          *)
WriteRefused(t, fn) ==
  /\ Calls(t, fn)
  /\ fn \in {"pwrite", "fsetxattr"}
  /\ Refuse(t, fn, "TypeError")
  /\ UNCHANGED <<file, exports>>

PwriteDone(t, n) ==
  /\ In(t, {"pwrite"})
  /\ n <= frame[t].arg[1]
  /\ size' = IF n = 0 THEN size ELSE Larger(size, frame[t].arg[2] + n)
  /\ Over(t, n, "ok", NULL)
  /\ UNCHANGED <<does, attrs, pos, exports>>

FsetxattrDone(t, which) ==
  /\ In(t, {"fsetxattr"})
  /\ attrs' = [attrs EXCEPT ![which] = frame[t].arg[1]]
  /\ Over(t, 0, "ok", NULL)
  /\ UNCHANGED <<does, size, pos, exports>>

WriteReturns(t) ==
  /\ Back(t, {"pwrite", "fsetxattr"})
  /\ IF Failed(t) THEN Raise(t, frame[t].outcome) ELSE Return(t, frame[t].ret)
  /\ exports' = exports \ {t}
  /\ UNCHANGED <<file, saw>>

(* pwrite() has written, and there is no memory to say how much: it raises *)
(* as if it had not.                                                       *)
WriteNoMemory(t) ==
  /\ Back(t, {"pwrite"}) /\ ~Failed(t)
  /\ Raise(t, "MemoryError")
  /\ exports' = exports \ {t}
  /\ UNCHANGED <<file, saw>>
-----------------------------------------------------------------------------
(* fgetxattr() and flistxattr(): the first buffer.                         *)
CallXattr(t, fn) ==
  /\ Calls(t, fn)
  /\ fn \in Xattr
  /\ Enter(t, fn, <<0, 0>>, Rooms[1])
  /\ UNCHANGED <<file, exports>>

Wanted(t) == attrs[IF frame[t].fn = "fgetxattr" THEN "value" ELSE "names"]

XattrDone(t) ==
  /\ In(t, Xattr)
  /\ LET n == Wanted(t) IN
       CASE n = NULL          -> Over(t, -1, "ENODATA", n)
         [] n # NULL /\ n > frame[t].room  -> Over(t, -1, "ERANGE", n)
         [] n # NULL /\ n <= frame[t].room -> Over(t, n, "ok", n)
  /\ UNCHANGED <<file, exports>>

(* Faulty: the loop ends one buffer too early.                             *)
XattrAgainOnce(t) ==
  /\ Back(t, Xattr)
  /\ frame[t].outcome = "ERANGE"
  /\ Raise(t, "ERANGE")
  /\ UNCHANGED <<file, exports, saw>>

(* A buffer that is too small is replaced by the next one, until there is  *)
(* none left.                                                              *)
XattrAgain(t) ==
  /\ Back(t, Xattr)
  /\ frame[t].outcome = "ERANGE"
  /\ LET i == frame[t].attempt + 1 IN
     IF i = Len(Rooms)
     THEN Raise(t, "ERANGE")
     ELSE frame' = [frame EXCEPT ![t].at = "libgfapi", ![t].attempt = i,
                                 ![t].room = Rooms[i + 1]]
  /\ UNCHANGED <<file, exports, saw>>

XattrReturns(t) ==
  /\ Back(t, Xattr)
  /\ frame[t].outcome # "ERANGE"
  /\ IF Failed(t) THEN Raise(t, frame[t].outcome) ELSE Return(t, frame[t].ret)
  /\ UNCHANGED <<file, exports, saw>>

(* Python has no memory for a buffer, a list or another result; a name is  *)
(* not decoded.                                                            *)
NoMemory(t) ==
  /\ Back(t, Xattr \cup {"fstat", "pread"})
  /\ frame[t].outcome \in {"ok", "ERANGE"}
  /\ Raise(t, "MemoryError")
  /\ UNCHANGED <<file, exports, saw>>
-----------------------------------------------------------------------------
(* The program goes on with the result.                                    *)
Resume(t) ==
  /\ frame[t].at = "returned"
  /\ frame' = [frame EXCEPT ![t] = Idle]
  /\ saw' = [saw EXCEPT ![t] = NULL]
  /\ UNCHANGED <<file, exports>>

(* Another client of the volume changes the size of the file or adds and   *)
(* removes entries of the directory.                                       *)
Elsewhere ==
  /\ size' \in Sizes \ {size}
  /\ UNCHANGED <<does, attrs, pos, frame, exports, saw>>

FdStep(t) ==
  \/ \E fn \in FdMethods : CallXattr(t, fn) \/ WriteRefused(t, fn)
  \/ \E fn \in FdMethods, n \in Sizes : CallSimple(t, fn, n)
  \/ \E fn \in FdMethods, n \in Lengths, offset \in Sizes : CallWrite(t, fn, n, offset)
  \/ \E n \in -1..MaxSize, whence \in 0..2 : CallLseek(t, n, whence)
  \/ \E n, offset \in Sizes : CallPread(t, offset, n)
  \/ PreadRefused(t) \/ NativeFails(t)
  \/ PlainDone(t) \/ FstatDone(t) \/ FtruncateDone(t) \/ FremovexattrDone(t) \/ SimpleReturns(t)
  \/ LseekDone(t) \/ LseekReturns(t) \/ PreadDone(t) \/ PreadReturns(t)
  \/ \E n \in Sizes : PwriteDone(t, n)
  \/ \E which \in {"value", "names"} : FsetxattrDone(t, which)
  \/ WriteReturns(t) \/ WriteNoMemory(t)
  \/ XattrDone(t) \/ XattrAgain(t) \/ XattrReturns(t) \/ NoMemory(t)
=============================================================================
