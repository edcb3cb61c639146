----------------------------- MODULE MCYfsLocks ------------------------------
(* Bounded instances of YfsLocks: two clients in one directory. *)
EXTENDS YfsLocks
=============================================================================
