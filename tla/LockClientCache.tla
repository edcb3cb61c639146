--------------------------- MODULE LockClientCache ---------------------------
(***************************************************************************)
(* The caching lock client, lock_client_cache.cc: every client of the      *)
(* system, with the application threads that call acquire and release, for *)
(* one lock id.                                                            *)
(*                                                                         *)
(* All of a client's state is guarded by one mutex, which _rpc_call drops  *)
(* around every call to the lock server and pthread_cond_wait drops while  *)
(* it sleeps: a step is the code between two such points.  The mutex and   *)
(* the condition variable are shared by all lock ids, so a thread may be   *)
(* woken by a broadcast meant for another lock: SpuriousWakeup.            *)
(*                                                                         *)
(* The actions change the client's variables only; LockCache joins each    *)
(* one to the RPC it sends or whose reply it consumes.                     *)
(***************************************************************************)
EXTENDS LockClients

VARIABLES state,     \* lsc.state of each client
          pending,   \* lsc.pending of each client: "0", "revoke" or "retry"
          pc         \* where each application thread is

clientVars == <<state, pending, pc>>

ClientStates == {"NONE", "OWNED", "LOCKED", "ACQUIRING", "WAITING", "RELEASING"}
Pending == {"0", "revoke", "retry"}

(* idle       outside acquire and release, not holding the lock
   acquire1   in the acquire RPC of line 177
   acquire2   in the acquire RPC of line 189
   sleeping   in pthread_cond_wait
   awake      woken, but not yet back in the mutex
   holding    between the return of acquire and the call of release
   releasing  in the release RPC of line 267 *)
ThreadPcs == {"idle", "acquire1", "acquire2", "sleeping", "awake", "holding",
              "releasing"}

ClientTypeOK ==
  /\ state \in [Client -> ClientStates]
  /\ pending \in [Client -> Pending]
  /\ pc \in [Thread -> ThreadPcs]

ClientInit ==
  /\ state = [c \in Client |-> "NONE"]
  /\ pending = [c \in Client |-> "0"]
  /\ pc = [t \in Thread |-> "idle"]

(* pthread_cond_broadcast by client c, when the program counters are f. *)
Broadcast(c, f) ==
  [t \in Thread |-> IF Home[t] = c /\ f[t] = "sleeping" THEN "awake" ELSE f[t]]

(* pthread_cond_wait returns without a broadcast of this lock. *)
SpuriousWakeup(t) ==
  /\ pc[t] = "sleeping"
  /\ pc' = [pc EXCEPT ![t] = "awake"]
  /\ UNCHANGED <<state, pending>>

-----------------------------------------------------------------------------
(* acquire: the first test of the state, and the test after every wakeup,  *)
(* do the same thing.                                                      *)

Entering(t) == pc[t] \in {"idle", "awake"}

(* The lock is cached and free. *)
AcquireOwnedMutant(t) ==
  /\ Entering(t)
  /\ state[Home[t]] = "OWNED"
  /\ pc' = [pc EXCEPT ![t] = "holding"]
  /\ UNCHANGED <<state, pending>>

AcquireOwned(t) ==
  /\ Entering(t)
  /\ state[Home[t]] = "OWNED"
  /\ state' = [state EXCEPT ![Home[t]] = "LOCKED"]
  /\ pc' = [pc EXCEPT ![t] = "holding"]
  /\ UNCHANGED pending

(* The lock is not at this client: ask the server. *)
AcquireNone(t) ==
  /\ Entering(t)
  /\ state[Home[t]] = "NONE"
  /\ state' = [state EXCEPT ![Home[t]] = "ACQUIRING"]
  /\ pc' = [pc EXCEPT ![t] = "acquire1"]
  /\ UNCHANGED pending

(* Another thread uses the lock, or is busy getting or releasing it. *)
AcquireBusy(t) ==
  /\ Entering(t)
  /\ state[Home[t]] \notin {"OWNED", "NONE"}
  /\ pc' = [pc EXCEPT ![t] = "sleeping"]
  /\ UNCHANGED <<state, pending>>

AcquireAssertsClient(t) == state[Home[t]] = "ACQUIRING"

(* The first acquire RPC answered OK. *)
AcquireGranted(t) ==
  /\ pc[t] = "acquire1"
  /\ AcquireAssertsClient(t)
  /\ state' = [state EXCEPT ![Home[t]] = "LOCKED"]
  /\ pc' = [pc EXCEPT ![t] = "holding"]
  /\ UNCHANGED pending

AcquireRetryAsserts(t) == pending[Home[t]] # "revoke"

(* It answered RETRY and the retry message has not come yet. *)
AcquireWait(t) ==
  /\ pc[t] = "acquire1"
  /\ AcquireAssertsClient(t)
  /\ AcquireRetryAsserts(t)
  /\ pending[Home[t]] # "retry"
  /\ state' = [state EXCEPT ![Home[t]] = "WAITING"]
  /\ pc' = [pc EXCEPT ![t] = "sleeping"]
  /\ UNCHANGED pending

(* It answered RETRY and the retry message overtook the answer. *)
AcquireAgain(t) ==
  /\ pc[t] = "acquire1"
  /\ AcquireAssertsClient(t)
  /\ AcquireRetryAsserts(t)
  /\ pending[Home[t]] = "retry"
  /\ state' = [state EXCEPT ![Home[t]] = "WAITING"]
  /\ pending' = [pending EXCEPT ![Home[t]] = "0"]
  /\ pc' = [pc EXCEPT ![t] = "acquire2"]

(* The second acquire RPC answered. *)
AcquireAgainGranted(t) ==
  /\ pc[t] = "acquire2"
  /\ state' = [state EXCEPT ![Home[t]] = "LOCKED"]
  /\ pc' = [pc EXCEPT ![t] = "holding"]
  /\ UNCHANGED pending

-----------------------------------------------------------------------------
(* release *)

ReleaseAssertsClient(t) ==
  /\ state[Home[t]] = "LOCKED"
  /\ pending[Home[t]] # "retry"

(* Nobody else wants the lock: keep it, and wake the other threads. *)
ReleaseKeep(t) ==
  /\ pc[t] = "holding"
  /\ ReleaseAssertsClient(t)
  /\ pending[Home[t]] = "0"
  /\ state' = [state EXCEPT ![Home[t]] = "OWNED"]
  /\ pc' = Broadcast(Home[t], [pc EXCEPT ![t] = "idle"])
  /\ UNCHANGED pending

(* A revoke is pending: give the lock back. *)
ReleaseBack(t) ==
  /\ pc[t] = "holding"
  /\ ReleaseAssertsClient(t)
  /\ pending[Home[t]] # "0"
  /\ state' = [state EXCEPT ![Home[t]] = "RELEASING"]
  /\ pending' = [pending EXCEPT ![Home[t]] = "0"]
  /\ pc' = [pc EXCEPT ![t] = "releasing"]

ReleaseBackAsserts(t) == state[Home[t]] = "RELEASING"

(* The release RPC answered.  need_to_wakeup is still false here: no
   broadcast. *)
ReleaseBackDone(t) ==
  /\ pc[t] = "releasing"
  /\ ReleaseBackAsserts(t)
  /\ state' = [state EXCEPT ![Home[t]] = "NONE"]
  /\ pc' = [pc EXCEPT ![t] = "idle"]
  /\ UNCHANGED pending

-----------------------------------------------------------------------------
(* revoke_handler at client d *)

RevokeAsserts(d) ==
  /\ state[d] # "NONE"
  /\ pending[d] = "0"

(* The lock is cached and unused: give it back now. *)
RevokeNowMutant(d) ==
  /\ RevokeAsserts(d)
  /\ state[d] \in {"OWNED", "LOCKED"}
  /\ state' = [state EXCEPT ![d] = "RELEASING"]
  /\ UNCHANGED <<pending, pc>>

RevokeNowCachedMutant(d) ==
  /\ RevokeAsserts(d)
  /\ state[d] = "OWNED"
  /\ UNCHANGED clientVars

RevokeNow(d) ==
  /\ RevokeAsserts(d)
  /\ state[d] = "OWNED"
  /\ state' = [state EXCEPT ![d] = "RELEASING"]
  /\ UNCHANGED <<pending, pc>>

(* The lock is in use or on its way: the thread that gets it returns it. *)
RevokeLaterMutant(d) ==
  /\ RevokeAsserts(d)
  /\ state[d] \notin {"OWNED", "LOCKED"}
  /\ pending' = [pending EXCEPT ![d] = "revoke"]
  /\ UNCHANGED <<state, pc>>

RevokeLater(d) ==
  /\ RevokeAsserts(d)
  /\ state[d] # "OWNED"
  /\ pending' = [pending EXCEPT ![d] = "revoke"]
  /\ UNCHANGED <<state, pc>>

(* The handler's release RPC answered. *)
RevokeDone(d) ==
  /\ state' = [state EXCEPT ![d] = "NONE"]
  /\ pc' = Broadcast(d, pc)
  /\ UNCHANGED pending

-----------------------------------------------------------------------------
(* retry_handler at client d *)

RetryAsserts(d) ==
  /\ pending[d] = "0"
  /\ state[d] \in {"ACQUIRING", "WAITING"}

(* The answer RETRY has not come yet: leave the retry to acquire. *)
RetryLater(d) ==
  /\ RetryAsserts(d)
  /\ state[d] = "ACQUIRING"
  /\ pending' = [pending EXCEPT ![d] = "retry"]
  /\ UNCHANGED <<state, pc>>

(* Ask the server again. *)
RetryNowMutant(d) ==
  /\ RetryAsserts(d)
  /\ UNCHANGED clientVars

RetryNow(d) ==
  /\ RetryAsserts(d)
  /\ state[d] = "WAITING"
  /\ UNCHANGED clientVars

(* The handler's acquire RPC answered: the lock is cached, wake the threads. *)
RetryDoneMutant(d) ==
  /\ state' = [state EXCEPT ![d] = "OWNED"]
  /\ UNCHANGED <<pending, pc>>

RetryDone(d) ==
  /\ state' = [state EXCEPT ![d] = "OWNED"]
  /\ pc' = Broadcast(d, pc)
  /\ UNCHANGED pending
=============================================================================
