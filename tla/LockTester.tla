----------------------------- MODULE LockTester ------------------------------
(***************************************************************************)
(* lock_tester.cc: tests 2 to 5 start threads that acquire and release     *)
(* lock a a number of times, count the holders in ct[], and are joined.    *)
(* Home decides the test: in tests 2 and 3 every thread has a client of    *)
(* its own, in test 4 two threads share one, in test 5 most of them do.    *)
(***************************************************************************)
EXTENDS LockCache

CONSTANT Rounds    \* iterations of the loop: 10 in the program

VARIABLES ct,      \* ct[a & 0xff]
          round,   \* j of each thread: loops begun
          check    \* how far the thread is between acquire and release

testerVars == <<vars, ct, round, check>>

TesterInit ==
  /\ Init
  /\ ct = 0
  /\ round = [t \in Thread |-> 0]
  /\ check = [t \in Thread |-> "none"]

(* lc[i]->acquire(a), in the next iteration. *)
Loop(t) ==
  /\ round[t] < Rounds
  /\ Call(t)
  /\ round' = [round EXCEPT ![t] = @ + 1]
  /\ UNCHANGED <<ct, check>>

(* acquire has returned. *)
CheckGrant(t) ==
  /\ pc[t] = "holding" /\ check[t] = "none"
  /\ ct = 0
  /\ ct' = ct + 1
  /\ check' = [check EXCEPT ![t] = "granted"]
  /\ UNCHANGED <<vars, round>>

CheckRelease(t) ==
  /\ check[t] = "granted"
  /\ ct = 1
  /\ ct' = ct - 1
  /\ check' = [check EXCEPT ![t] = "released"]
  /\ UNCHANGED <<vars, round>>

(* lc[i]->release(a) *)
LoopRelease(t) ==
  /\ check[t] = "released"
  /\ Release(t)
  /\ check' = [check EXCEPT ![t] = "none"]
  /\ UNCHANGED <<ct, round>>

(* acquire, release, the server and the handlers go on. *)
Inner ==
  /\ \/ \E t \in Thread : Resume(t) \/ Wakeup(t) \/ Answer(t)
     \/ \E c \in Client : Flush(c) \/ Server(c) \/ Handler(c)
  /\ UNCHANGED <<ct, round, check>>

TesterNext ==
  \/ \E t \in Thread : Loop(t) \/ CheckGrant(t) \/ CheckRelease(t) \/ LoopRelease(t)
  \/ Inner

(* The threads are scheduled, and so is everything the protocol owes. *)
TesterSpec ==
  /\ TesterInit /\ [][TesterNext]_testerVars
  /\ \A t \in Thread :
       WF_testerVars(Loop(t) \/ CheckGrant(t) \/ CheckRelease(t) \/ LoopRelease(t))
  /\ \A t \in Thread :
       WF_testerVars((Resume(t) \/ Answer(t)) /\ UNCHANGED <<ct, round, check>>)
  /\ \A c \in Client :
       /\ WF_testerVars(Flush(c) /\ UNCHANGED <<ct, round, check>>)
       /\ WF_testerVars(Server(c) /\ UNCHANGED <<ct, round, check>>)
       /\ WF_testerVars(Handler(c) /\ UNCHANGED <<ct, round, check>>)

(* Every thread finishes its loop, pthread_join returns and the tester gets to
   "passed all tests successfully". *)
AllFinish == <>(\A t \in Thread : round[t] = Rounds /\ pc[t] = "idle")
=============================================================================
