------------------------------ MODULE MCPosixLock ------------------------------
(* PosixLock with two processes of two threads and two locks.              *)
EXTENDS PosixLock, TLC

CONSTANTS p, q, p1, p2, q1, q2

Homes == (p1 :> p) @@ (p2 :> p) @@ (q1 :> q) @@ (q2 :> q)
=============================================================================
