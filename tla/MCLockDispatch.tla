--------------------------- MODULE MCLockDispatch ----------------------------
(* Two clients, with a thread for each of two locks. *)
EXTENDS LockDispatch, TLC

CONSTANTS c1, c2, t1, t2

TwoHome == t1 :> c1 @@ t2 :> c2
=============================================================================
