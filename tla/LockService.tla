----------------------------- MODULE LockService -----------------------------
(***************************************************************************)
(* What the lock system promises its users: a mutual exclusion lock.  A    *)
(* thread calls acquire, gets the lock when nobody has it, and releases    *)
(* it.  lock_protocol.h and lock_client.h name the two operations.         *)
(***************************************************************************)
CONSTANT Thread

VARIABLES inside,    \* the threads that hold the lock
          waiting    \* the threads that have called acquire and wait

Init == inside = {} /\ waiting = {}

Request(t) ==
  /\ t \notin inside \cup waiting
  /\ waiting' = waiting \cup {t}
  /\ UNCHANGED inside

(* acquire returns, at once or after a wait. *)
Enter(t) ==
  /\ inside = {}
  /\ inside' = {t}
  /\ waiting' = waiting \ {t}

Leave(t) ==
  /\ inside = {t}
  /\ inside' = {}
  /\ UNCHANGED waiting

Next == \E t \in Thread : Request(t) \/ Enter(t) \/ Leave(t)

Spec == Init /\ [][Next]_<<inside, waiting>>
=============================================================================
