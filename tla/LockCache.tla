------------------------------ MODULE LockCache ------------------------------
(***************************************************************************)
(* The caching lock protocol: the lock server, its clients, their          *)
(* application threads and the RPCs between them, for one lock id.         *)
(*                                                                         *)
(* An RPC is delivered once and is answered when its handler returns (what *)
(* rpc.cc gives two live, connected processes).  The handler of an acquire *)
(* may call revoke at a client before it answers, and the handler of a     *)
(* release may call retry; both calls are synchronous, and their handlers  *)
(* may themselves call the server: acquire -> revoke -> release -> retry,  *)
(* and release -> retry -> acquire -> revoke (NestedOnce below).           *)
(*                                                                         *)
(* A client never has two acquires, or two releases, of one lock under way *)
(* (OneCallEach below), so a call is named by its client.  Who is waiting  *)
(* for the answer is not recorded: it is the thread of that client, or the *)
(* handler at that client, that is blocked in the call.                    *)
(***************************************************************************)
EXTENDS LockServerCache, LockClientCache

VARIABLES
  acq,       \* acq[c]: how far the acquire RPC of client c is
  acqRet,    \* acqRet[c]: ret in its handler
  acqDest,   \* acqDest[c]: dest_client_id, whom its handler revokes
  rel,       \* rel[c]: how far the release RPC of client c is
  relDest    \* relDest[c]: dest_client_id, whom its handler tells to retry

rpcVars == <<acq, acqRet, acqDest, rel, relDest>>
vars == <<serverVars, clientVars, rpcVars>>

(* none      no such RPC
   sent      the request is under way to the server
   revoke    the handler's revoke is under way to acqDest
   revoking  revoke_handler at acqDest is in its release RPC
   revoked   revoke_handler has returned
   replied   the answer is under way to the client *)
AcqStages == {"none", "sent", "revoke", "revoking", "revoked", "replied"}

(* flush     lu->dorelease(lid) runs before the request is sent
   sent, retry, retrying, retried, replied: as for acquire *)
RelStages == {"none", "flush", "sent", "retry", "retrying", "retried", "replied"}

TypeOK ==
  /\ ServerTypeOK
  /\ ClientTypeOK
  /\ acq \in [Client -> AcqStages]
  /\ acqRet \in [Client -> {"OK", "RETRY"}]
  /\ acqDest \in [Client -> Client \cup {NoClient}]
  /\ rel \in [Client -> RelStages]
  /\ relDest \in [Client -> Client \cup {NoClient}]

Init ==
  /\ ServerInit
  /\ ClientInit
  /\ acq = [c \in Client |-> "none"]
  /\ acqRet = [c \in Client |-> "OK"]
  /\ acqDest = [c \in Client |-> NoClient]
  /\ rel = [c \in Client |-> "none"]
  /\ relDest = [c \in Client |-> NoClient]

-----------------------------------------------------------------------------
(* The calls _rpc_call(acquire) and _rpc_call(release) of client c, and the *)
(* consumption of their answers.                                            *)

CallAcquire(c) ==
  /\ acq' = [acq EXCEPT ![c] = "sent"]
  /\ UNCHANGED <<acqRet, acqDest, rel, relDest>>

EndAcquire(c) ==
  /\ acq' = [acq EXCEPT ![c] = "none"]
  /\ acqRet' = [acqRet EXCEPT ![c] = "OK"]
  /\ UNCHANGED <<acqDest, rel, relDest>>

(* The call of line 189 follows the answer of the one of line 177. *)
ReCallAcquire(c) ==
  /\ acq' = [acq EXCEPT ![c] = "sent"]
  /\ acqRet' = [acqRet EXCEPT ![c] = "OK"]
  /\ UNCHANGED <<acqDest, rel, relDest>>

CallRelease(c) ==
  /\ rel' = [rel EXCEPT ![c] = "flush"]
  /\ UNCHANGED <<acq, acqRet, acqDest, relDest>>

EndRelease(c) ==
  /\ rel' = [rel EXCEPT ![c] = "none"]
  /\ UNCHANGED <<acq, acqRet, acqDest, relDest>>

Answered(c, r) == acq[c] = "replied" /\ acqRet[c] = r

-----------------------------------------------------------------------------
(* Application threads *)

TakeCached(t) == AcquireOwned(t) /\ UNCHANGED <<serverVars, rpcVars>>

Ask(t) ==
  /\ AcquireNone(t)
  /\ CallAcquire(Home[t])
  /\ UNCHANGED serverVars

Sleep(t) == AcquireBusy(t) /\ UNCHANGED <<serverVars, rpcVars>>

Wakeup(t) == SpuriousWakeup(t) /\ UNCHANGED <<serverVars, rpcVars>>

Granted(t) ==
  /\ AcquireGranted(t)
  /\ Answered(Home[t], "OK")
  /\ EndAcquire(Home[t])
  /\ UNCHANGED serverVars

Wait(t) ==
  /\ AcquireWait(t)
  /\ Answered(Home[t], "RETRY")
  /\ EndAcquire(Home[t])
  /\ UNCHANGED serverVars

AskAgain(t) ==
  /\ AcquireAgain(t)
  /\ Answered(Home[t], "RETRY")
  /\ ReCallAcquire(Home[t])
  /\ UNCHANGED serverVars

GrantedAgain(t) ==
  /\ AcquireAgainGranted(t)
  /\ Answered(Home[t], "OK")
  /\ EndAcquire(Home[t])
  /\ UNCHANGED serverVars

Keep(t) == ReleaseKeep(t) /\ UNCHANGED <<serverVars, rpcVars>>

GiveBack(t) ==
  /\ ReleaseBack(t)
  /\ CallRelease(Home[t])
  /\ UNCHANGED serverVars

GivenBack(t) ==
  /\ ReleaseBackDone(t)
  /\ rel[Home[t]] = "replied"
  /\ EndRelease(Home[t])
  /\ UNCHANGED serverVars

(* dorelease flushes the extent, then the release is sent. *)
Flush(c) ==
  /\ rel[c] = "flush"
  /\ rel' = [rel EXCEPT ![c] = "sent"]
  /\ UNCHANGED <<serverVars, clientVars, acq, acqRet, acqDest, relDest>>

-----------------------------------------------------------------------------
(* Handlers of the server *)

ReplyAcquire(c, r) ==
  /\ acq' = [acq EXCEPT ![c] = "replied"]
  /\ acqRet' = [acqRet EXCEPT ![c] = r]
  /\ UNCHANGED <<acqDest, rel, relDest>>

RevokeFrom(c, d, r) ==
  /\ acq' = [acq EXCEPT ![c] = "revoke"]
  /\ acqRet' = [acqRet EXCEPT ![c] = r]
  /\ acqDest' = [acqDest EXCEPT ![c] = d]
  /\ UNCHANGED <<rel, relDest>>

HandleAcquireFree(c) ==
  /\ acq[c] = "sent"
  /\ SrvAcquireFree(c)
  /\ ReplyAcquire(c, "OK")
  /\ UNCHANGED clientVars

HandleAcquireExpected(c) ==
  /\ acq[c] = "sent"
  /\ SrvAcquireExpected(c)
  /\ IF send_rpc THEN RevokeFrom(c, c, "OK") ELSE ReplyAcquire(c, "OK")
  /\ UNCHANGED clientVars

HandleAcquireReserved(c) ==
  /\ acq[c] = "sent"
  /\ SrvAcquireReserved(c)
  /\ ReplyAcquire(c, "RETRY")
  /\ UNCHANGED clientVars

HandleAcquireHeld(c) ==
  /\ acq[c] = "sent"
  /\ SrvAcquireHeld(c)
  /\ IF send_rpc
     THEN ReplyAcquire(c, "RETRY")
     ELSE RevokeFrom(c, holding_client, "RETRY")
  /\ UNCHANGED clientVars

(* The revoke call returned OK; the handler returns ret. *)
AcquireReturn(c) ==
  /\ acq[c] = "revoked"
  /\ acq' = [acq EXCEPT ![c] = "replied"]
  /\ acqDest' = [acqDest EXCEPT ![c] = NoClient]
  /\ UNCHANGED <<serverVars, clientVars, acqRet, rel, relDest>>

HandleReleaseFree(c) ==
  /\ rel[c] = "sent"
  /\ SrvReleaseFree(c)
  /\ rel' = [rel EXCEPT ![c] = "replied"]
  /\ UNCHANGED <<clientVars, acq, acqRet, acqDest, relDest>>

HandleReleaseNext(c) ==
  /\ rel[c] = "sent"
  /\ SrvReleaseNext(c)
  /\ rel' = [rel EXCEPT ![c] = "retry"]
  /\ relDest' = [relDest EXCEPT ![c] = Head(waiting_clients)]
  /\ UNCHANGED <<clientVars, acq, acqRet, acqDest>>

(* The handler of release.  The caching client releases a lock only when it is
   revoked, for a client that waits, so the first branch is never taken. *)
HandleRelease(c) ==
  IF waiting_clients = <<>> THEN HandleReleaseFree(c) ELSE HandleReleaseNext(c)

ReleaseReturn(c) ==
  /\ rel[c] = "retried"
  /\ rel' = [rel EXCEPT ![c] = "replied"]
  /\ relDest' = [relDest EXCEPT ![c] = NoClient]
  /\ UNCHANGED <<serverVars, clientVars, acq, acqRet, acqDest>>

-----------------------------------------------------------------------------
(* Handlers of the clients: the revoke sent for the acquire of c, and the  *)
(* retry sent for the release of c.                                        *)

HandleRevokeNow(c) ==
  /\ acq[c] = "revoke"
  /\ RevokeNow(acqDest[c])
  /\ acq' = [acq EXCEPT ![c] = "revoking"]
  /\ rel' = [rel EXCEPT ![acqDest[c]] = "flush"]
  /\ UNCHANGED <<serverVars, acqRet, acqDest, relDest>>

HandleRevokeLater(c) ==
  /\ acq[c] = "revoke"
  /\ RevokeLater(acqDest[c])
  /\ acq' = [acq EXCEPT ![c] = "revoked"]
  /\ UNCHANGED <<serverVars, acqRet, acqDest, rel, relDest>>

HandleRevokeDone(c) ==
  /\ acq[c] = "revoking"
  /\ rel[acqDest[c]] = "replied"
  /\ RevokeDone(acqDest[c])
  /\ acq' = [acq EXCEPT ![c] = "revoked"]
  /\ rel' = [rel EXCEPT ![acqDest[c]] = "none"]
  /\ UNCHANGED <<serverVars, acqRet, acqDest, relDest>>

HandleRetryLater(c) ==
  /\ rel[c] = "retry"
  /\ RetryLater(relDest[c])
  /\ rel' = [rel EXCEPT ![c] = "retried"]
  /\ UNCHANGED <<serverVars, acq, acqRet, acqDest, relDest>>

HandleRetryNow(c) ==
  /\ rel[c] = "retry"
  /\ RetryNow(relDest[c])
  /\ rel' = [rel EXCEPT ![c] = "retrying"]
  /\ acq' = [acq EXCEPT ![relDest[c]] = "sent"]
  /\ UNCHANGED <<serverVars, acqRet, acqDest, relDest>>

HandleRetryDone(c) ==
  /\ rel[c] = "retrying"
  /\ Answered(relDest[c], "OK")
  /\ RetryDone(relDest[c])
  /\ rel' = [rel EXCEPT ![c] = "retried"]
  /\ acq' = [acq EXCEPT ![relDest[c]] = "none"]
  /\ UNCHANGED <<serverVars, acqRet, acqDest, relDest>>

-----------------------------------------------------------------------------
Call(t) == pc[t] = "idle" /\ (TakeCached(t) \/ Ask(t) \/ Sleep(t))
Resume(t) == pc[t] = "awake" /\ (TakeCached(t) \/ Ask(t) \/ Sleep(t))
Answer(t) == Granted(t) \/ Wait(t) \/ AskAgain(t) \/ GrantedAgain(t) \/ GivenBack(t)
Release(t) == Keep(t) \/ GiveBack(t)

Server(c) ==
  \/ HandleAcquireFree(c)
  \/ HandleAcquireExpected(c)
  \/ HandleAcquireReserved(c)
  \/ HandleAcquireHeld(c)
  \/ AcquireReturn(c)
  \/ HandleRelease(c)
  \/ ReleaseReturn(c)

Handler(c) ==
  \/ HandleRevokeNow(c)
  \/ HandleRevokeLater(c)
  \/ HandleRevokeDone(c)
  \/ HandleRetryLater(c)
  \/ HandleRetryNow(c)
  \/ HandleRetryDone(c)

Next ==
  \/ \E t \in Thread : Call(t) \/ Resume(t) \/ Wakeup(t) \/ Answer(t) \/ Release(t)
  \/ \E c \in Client : Flush(c) \/ Server(c) \/ Handler(c)

Spec == Init /\ [][Next]_vars

-----------------------------------------------------------------------------
(* Fairness.  Requests are delivered, handlers run and woken threads get   *)
(* the mutex: rpc.cc retransmits, and the dispatch threads and the mutex   *)
(* are always returned to.  Spurious wakeups and new calls of acquire are  *)
(* never owed to anybody.                                                  *)

ProtocolFairness ==
  /\ \A t \in Thread : WF_vars(Resume(t)) /\ WF_vars(Answer(t))
  /\ \A c \in Client : WF_vars(Flush(c)) /\ WF_vars(Server(c)) /\ WF_vars(Handler(c))

(* A thread that holds the lock may keep it for ever. *)
ProtocolSpec == Spec /\ ProtocolFairness

(* Every thread that holds the lock calls release. *)
HoldersRelease == \A t \in Thread : WF_vars(Release(t))

-----------------------------------------------------------------------------
(* Safety *)

(* Two threads, of one client or of two, are never both between acquire and
   release of the lock. *)
MutualExclusion ==
  \A t, u \in Thread : pc[t] = "holding" /\ pc[u] = "holding" => t = u

(* A lock that a client has cached (OWNED) or lent to a thread (LOCKED) is one
   the server believes this client holds: caching never outlives the grant. *)
CachedIsHeld ==
  \A c \in Client : state[c] \in {"OWNED", "LOCKED"}
                      => srvState = "LOCKED" /\ holding_client = c

(* Every assert of lock_server_cache.cc and lock_client_cache.cc is true when
   the code reaches it: retries and revokes find the client in the state they
   are meant for, however late they are delivered. *)
AssertsHold ==
  /\ \A c \in Client :
       /\ acq[c] = "sent" => AcquireAsserts(c)
       /\ rel[c] = "sent" => ReleaseAsserts(c)
       /\ acq[c] = "revoke" => RevokeAsserts(acqDest[c])
       /\ rel[c] = "retry" => RetryAsserts(relDest[c])
       /\ rel[c] = "retrying" /\ acq[relDest[c]] = "replied"
             => acqRet[relDest[c]] = "OK"
  /\ \A t \in Thread :
       /\ pc[t] = "acquire1" /\ acq[Home[t]] = "replied" => AcquireAssertsClient(t)
       /\ pc[t] = "acquire1" /\ Answered(Home[t], "RETRY") => AcquireRetryAsserts(t)
       /\ pc[t] = "acquire2" /\ acq[Home[t]] = "replied" => acqRet[Home[t]] = "OK"
       /\ pc[t] = "holding" => ReleaseAssertsClient(t)
       /\ pc[t] = "releasing" /\ rel[Home[t]] = "replied" => ReleaseBackAsserts(t)

(* The answer to the TODO of lock_server_cache.cc:36: a client is at most once
   in waiting_clients, and never while it is the holder. *)
WaitersUnique ==
  /\ \A i, j \in DOMAIN waiting_clients :
       waiting_clients[i] = waiting_clients[j] => i = j
  /\ \A i \in DOMAIN waiting_clients : waiting_clients[i] # holding_client

(* Threads and handlers at client c that are blocked in an acquire RPC, and in
   a release RPC. *)
AcquireCallers(c) ==
  {t \in Thread : Home[t] = c /\ pc[t] \in {"acquire1", "acquire2"}}
    \cup {b \in Client : rel[b] = "retrying" /\ relDest[b] = c}
ReleaseCallers(c) ==
  {t \in Thread : Home[t] = c /\ pc[t] = "releasing"}
    \cup {a \in Client : acq[a] = "revoking" /\ acqDest[a] = c}

(* The threads and the handlers of a client never have two acquires, or two
   releases, of the lock under way at once, and no call is under way that
   nobody waits for. *)
OneCallEach ==
  \A c \in Client :
    /\ AcquireCallers(c) = {} <=> acq[c] = "none"
    /\ ReleaseCallers(c) = {} <=> rel[c] = "none"
    /\ \A x, y \in AcquireCallers(c) : x = y
    /\ \A x, y \in ReleaseCallers(c) : x = y

(* The handlers of the server that cannot return before the server has begun to
   handle one more request: an acquire whose revoke made the client release, a
   release whose retry made the client acquire, and an acquire that waits for
   such a release. *)
NestedRelease(c) == rel[c] = "retrying" /\ acq[relDest[c]] = "sent"
NestedAcquire(c) ==
  acq[c] = "revoking" /\ (rel[acqDest[c]] \in {"flush", "sent"} \/ NestedRelease(acqDest[c]))

Nested == {<<"acquire", c>> : c \in {d \in Client : NestedAcquire(d)}}
            \cup {<<"release", c>> : c \in {d \in Client : NestedRelease(d)}}

(* There is at most one of them for a lock: an acquire that revokes is that of
   the first waiter, which is still asking when the retry reaches it, so the
   chain acquire -> revoke -> release never goes on to an acquire.  A pool with
   one thread more than there are locks is enough for the server. *)
NestedOnce == \A g, h \in Nested : g = h

(* While clients wait for a held lock, the holder has been told or is being
   told: a revoke is under way to it, or it remembers one and has the lock in
   use or a thread about to use it, or it is giving the lock back. *)
RevokeNotLost ==
  srvState = "LOCKED" /\ waiting_clients # <<>> =>
    LET h == holding_client IN
    \/ \E c \in Client : acq[c] = "revoke" /\ acqDest[c] = h
    \/ state[h] = "RELEASING"
    \/ /\ pending[h] = "revoke"
       /\ \/ state[h] \in {"ACQUIRING", "WAITING", "LOCKED"}
          \/ state[h] = "OWNED" /\ \E t \in Thread : Home[t] = h /\ pc[t] = "awake"

-----------------------------------------------------------------------------
(* Liveness *)

(* Every acquire and every release RPC is answered, with all the calls nested
   in it, even when the thread that holds the lock never releases it: no
   handler waits for an application. *)
CallsReturn ==
  \A c \in Client : /\ acq[c] # "none" ~> acq[c] = "none"
                    /\ rel[c] # "none" ~> rel[c] = "none"

(* A client in waiting_clients gets the lock, if holders release it. *)
WaiterServed ==
  HoldersRelease =>
    \A c \in Client : (\E i \in DOMAIN waiting_clients : waiting_clients[i] = c)
                        ~> state[c] \in {"OWNED", "LOCKED"}

Alone(t) == \A u \in Thread : Home[u] = Home[t] => u = t

(* A thread that sleeps in acquire is woken, if holders release the lock and it
   is the only thread of its client, as in a YFS client. *)
SleeperWoken ==
  HoldersRelease =>
    \A t \in Thread : Alone(t) => (pc[t] = "sleeping" ~> pc[t] # "sleeping")

-----------------------------------------------------------------------------
(* The protocol implements a plain mutual exclusion lock over the threads. *)

Inside == {t \in Thread : pc[t] = "holding"}
Waiting == {t \in Thread : pc[t] \notin {"idle", "holding", "releasing"}}

Lock == INSTANCE LockService WITH inside <- Inside, waiting <- Waiting

(* Seen from the threads, clients, server and messages are one lock. *)
ImplementsLock == Lock!Spec
=============================================================================
