---------------------------- MODULE MCLockOrder ----------------------------
(* LockOrder with three sessions: enough for a wait of two that a third   *)
(* joins, and for a circular wait of three.                               *)
EXTENDS LockOrder

CONSTANTS t1, t2, t3, x1, x2
=============================================================================
