---------------------------- MODULE MCLockTester -----------------------------
(* Instances of LockTester. *)
EXTENDS LockTester, TLC

CONSTANTS c1, c2, t1, t2, t3

(* test5: threads of one client and of another *)
Test5Home == t1 :> c1 @@ t2 :> c1 @@ t3 :> c2
=============================================================================
