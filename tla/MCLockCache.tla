----------------------------- MODULE MCLockCache -----------------------------
(* Instances of LockCache for TLC. *)
EXTENDS LockCacheInv, TLC

CONSTANTS c1, c2, c3, t1, t2, t3, t4

ThreeClients == {c1, c2, c3}

(* Two threads of one client, as in lock_tester's test5, and two more clients. *)
MixedThree == (t1 :> c1) @@ (t2 :> c1) @@ (t3 :> c2) @@ (t4 :> c3)
=============================================================================
