------------------------------- MODULE PosixLock -------------------------------
(***************************************************************************)
(* FD.posix_lock() in several threads of several processes.  It is the one *)
(* method of an FD that keeps the GIL while libgfapi is at work, so that a *)
(* thread that waits for a lock with F_SETLKW stops every thread of its    *)
(* process, the one that would release another lock included.              *)
(*                                                                         *)
(* The locks are the brick's, and as with fcntl() they belong to processes *)
(* and not to threads.  F_GETLK changes nothing and is left out, and so is *)
(* F_SETLK when the lock is not free: it raises.                           *)
(***************************************************************************)
EXTENDS FiniteSets

CONSTANTS
  Process, Thread,
  Home,        \* the process of each thread
  Lock,        \* ranges of bytes that the program locks as a whole
  NULL

ASSUME LockAssumption ==
  /\ Home \in [Thread -> Process]
  /\ NULL \notin Thread \cup Lock
  /\ NULL \notin [lock : Lock, type : {"F_RDLCK", "F_WRLCK"}]

VARIABLES
  held,        \* the type of each lock that each process holds
  gil,         \* the thread that keeps a process's GIL while it waits
  waits,       \* what each thread waits for
  mine         \* the lock that a thread has taken and not released

vars == <<held, gil, waits, mine>>
-----------------------------------------------------------------------------
Types == {"F_RDLCK", "F_WRLCK", "F_UNLCK"}
Commands == {"F_GETLK", "F_SETLK", "F_SETLKW"}

Runs(t) == gil[Home[t]] = NULL

(* Faulty: F_UNLCK is refused with any command.                            *)
LegalLocks(cmd, type) ==
  cmd \in Commands /\ type \in Types /\ ~(cmd = "F_GETLK" \/ type = "F_UNLCK")

(* The checks of py_glfs_fd_posix_lock() on its arguments.                 *)
Legal(cmd, type) ==
  cmd \in Commands /\ type \in Types /\ ~(cmd = "F_GETLK" /\ type = "F_UNLCK")

(* No other process holds a lock that conflicts.                           *)
Grantable(p, l, type) ==
  \A q \in Process \ {p} :
    /\ held[l][q] # "F_WRLCK"
    /\ type = "F_WRLCK" => held[l][q] = "F_UNLCK"

Take(t, l, type) ==
  /\ held' = [held EXCEPT ![l][Home[t]] = type]
  /\ mine' = [mine EXCEPT ![t] = l]

Init ==
  /\ held = [l \in Lock |-> [p \in Process |-> "F_UNLCK"]]
  /\ gil = [p \in Process |-> NULL]
  /\ waits = [t \in Thread |-> NULL]
  /\ mine = [t \in Thread |-> NULL]

(* F_SETLK or F_SETLKW of a lock that is free.  A thread of this program   *)
(* holds one lock at a time.                                               *)
LockAtOnce(t, cmd, type, l) ==
  /\ Runs(t) /\ mine[t] = NULL
  /\ Legal(cmd, type) /\ type # "F_UNLCK" /\ cmd # "F_GETLK"
  /\ Grantable(Home[t], l, type)
  /\ Take(t, l, type)
  /\ UNCHANGED <<gil, waits>>

(* F_SETLKW of one that is not: glfs_posix_lock() waits with the GIL.      *)
LockLater(t, type, l) ==
  /\ Runs(t) /\ mine[t] = NULL
  /\ Legal("F_SETLKW", type) /\ type # "F_UNLCK"
  /\ ~Grantable(Home[t], l, type)
  /\ gil' = [gil EXCEPT ![Home[t]] = t]
  /\ waits' = [waits EXCEPT ![t] = [lock |-> l, type |-> type]]
  /\ UNCHANGED <<held, mine>>

Wakes(t) ==
  /\ waits[t] # NULL
  /\ gil' = [gil EXCEPT ![Home[t]] = NULL]
  /\ waits' = [waits EXCEPT ![t] = NULL]

(* The brick grants it.                                                    *)
Grant(t) ==
  /\ Wakes(t)
  /\ Grantable(Home[t], waits[t].lock, waits[t].type)
  /\ Take(t, waits[t].lock, waits[t].type)

(* glfs_posix_lock() fails, and the method raises.                         *)
LockFails(t) ==
  /\ Wakes(t)
  /\ UNCHANGED <<held, mine>>

(* F_SETLK or F_SETLKW with F_UNLCK: whatever the process's threads hold   *)
(* of this lock is released.                                               *)
Unlock(t) ==
  /\ Runs(t) /\ mine[t] # NULL
  /\ \E cmd \in {"F_SETLK", "F_SETLKW"} : Legal(cmd, "F_UNLCK")
  /\ held' = [held EXCEPT ![mine[t]][Home[t]] = "F_UNLCK"]
  /\ mine' = [mine EXCEPT ![t] = NULL]
  /\ UNCHANGED <<gil, waits>>

Next ==
  \E t \in Thread :
    \/ \E type \in Types, l \in Lock :
         \/ \E cmd \in Commands : LockAtOnce(t, cmd, type, l)
         \/ LockLater(t, type, l)
    \/ Grant(t) \/ LockFails(t) \/ Unlock(t)

(* The program releases every lock it took when it can run often enough,   *)
(* and the brick grants a lock that is free again and again.               *)
Fairness == \A t \in Thread : SF_vars(Unlock(t)) /\ SF_vars(Grant(t))

Spec == Init /\ [][Next]_vars /\ Fairness
-----------------------------------------------------------------------------
(* The type of every variable.                                             *)
LockTypeOK ==
  /\ held \in [Lock -> [Process -> Types]]
  /\ gil \in [Process -> Thread \cup {NULL}]
  /\ waits \in [Thread -> [lock : Lock, type : Types \ {"F_UNLCK"}] \cup {NULL}]
  /\ mine \in [Thread -> Lock \cup {NULL}]

Stopped(p) == gil[p] # NULL

Holds(p) == \E l \in Lock : held[l][p] # "F_UNLCK"

(* A thread that waits for a lock gets it, or an error, if the program     *)
(* sees to it that a process does not wait with F_SETLKW, in any of its    *)
(* threads, while it holds a lock in another: without that condition two   *)
(* processes wait for each other for ever, although no thread ever holds   *)
(* one lock and asks for a second.                                         *)
Considerate == \A p \in Process : Stopped(p) => ~Holds(p)

WaitEnds ==
  []<>Considerate => \A t \in Thread : waits[t] # NULL ~> waits[t] = NULL
=============================================================================
