---------------------------- MODULE LockCacheInv -----------------------------
(***************************************************************************)
(* The inductive invariant of LockCache.  For each state a client can be   *)
(* in, it says how far the client's RPCs are, what the server thinks of    *)
(* the client, and which revoke or retry may still be on its way to it.    *)
(***************************************************************************)
EXTENDS LockCache

(* c is in waiting_clients. *)
Waits(c) == \E i \in DOMAIN waiting_clients : waiting_clients[i] = c

Holds(c) == srvState = "LOCKED" /\ holding_client = c
Expected(c) == srvState = "EXPECTING" /\ holding_client = c

(* A revoke, or a retry, is under way to c. *)
RevokeComing(c) == \E a \in Client : acq[a] = "revoke" /\ acqDest[a] = c
RetryComing(c) == \E b \in Client : rel[b] = "retry" /\ relDest[b] = c

(* The retry handler of c is in its acquire RPC, the revoke handler in its
   release RPC. *)
HandlerAcquires(c) == \E b \in Client : rel[b] = "retrying" /\ relDest[b] = c
HandlerReleases(c) == \E a \in Client : acq[a] = "revoking" /\ acqDest[a] = c

(* The handler of the acquire of c has left its critical section. *)
Handled(c) == acq[c] \in {"revoke", "revoking", "revoked", "replied"}

ThreadAt(c, S) == \E t \in Thread : Home[t] = c /\ pc[t] \in S
Busy == {"acquire1", "acquire2", "holding", "releasing"}

InvNone(c) ==
  /\ acq[c] = "none" /\ rel[c] = "none" /\ pending[c] = "0"
  /\ holding_client # c /\ ~Waits(c)

InvAcquiring(c) ==
  /\ rel[c] = "none"
  /\ ThreadAt(c, {"acquire1"})
  /\ \/ acq[c] = "sent" /\ pending[c] = "0" /\ holding_client # c /\ ~Waits(c)
     \/ Handled(c) /\ acqRet[c] = "RETRY" /\ pending[c] = "0" /\ Waits(c)
     \/ Handled(c) /\ acqRet[c] = "RETRY" /\ pending[c] = "0" /\ Expected(c) /\ RetryComing(c)
     \/ Handled(c) /\ acqRet[c] = "RETRY" /\ pending[c] = "retry" /\ Expected(c) /\ ~RetryComing(c)
     \/ acq[c] = "replied" /\ acqRet[c] = "OK" /\ pending[c] # "retry" /\ Holds(c)

InvWaiting(c) ==
  /\ rel[c] = "none"
  /\ acq[c] # "none" => ThreadAt(c, {"acquire2"}) \/ HandlerAcquires(c)
  /\ \/ acq[c] = "none" /\ pending[c] = "0" /\ Waits(c) /\ ThreadAt(c, {"sleeping", "awake"})
     \/ acq[c] = "none" /\ pending[c] = "0" /\ Expected(c) /\ RetryComing(c)
          /\ ThreadAt(c, {"sleeping", "awake"})
     \/ acq[c] = "sent" /\ pending[c] = "0" /\ Expected(c) /\ ~RetryComing(c)
     \/ /\ acq[c] \in {"revoke", "revoked", "replied"}
        /\ acq[c] = "revoke" => acqDest[c] = c
        /\ acqRet[c] = "OK" /\ pending[c] # "retry" /\ Holds(c)

InvOwned(c) ==
  /\ acq[c] = "none" /\ rel[c] = "none" /\ pending[c] # "retry" /\ Holds(c)
  /\ pending[c] = "revoke" => ThreadAt(c, {"awake"})

InvLocked(c) ==
  acq[c] = "none" /\ rel[c] = "none" /\ pending[c] # "retry" /\ Holds(c)

InvReleasing(c) ==
  /\ acq[c] = "none" /\ pending[c] = "0"
  /\ ThreadAt(c, {"releasing"}) \/ HandlerReleases(c)
  /\ \/ rel[c] \in {"flush", "sent"} /\ Holds(c) /\ send_rpc
     \/ rel[c] \in {"retry", "retrying", "retried", "replied"} /\ holding_client # c /\ ~Waits(c)

InvClient(c) ==
  /\ state[c] = "NONE" => InvNone(c)
  /\ state[c] = "ACQUIRING" => InvAcquiring(c)
  /\ state[c] = "WAITING" => InvWaiting(c)
  /\ state[c] = "OWNED" => InvOwned(c)
  /\ state[c] = "LOCKED" => InvLocked(c)
  /\ state[c] = "RELEASING" => InvReleasing(c)

(* A thread inside acquire or release matches its client's state, and is alone
   there. *)
InvThreads ==
  /\ \A t \in Thread :
       /\ pc[t] = "acquire1" => state[Home[t]] = "ACQUIRING"
       /\ pc[t] = "acquire2" => state[Home[t]] = "WAITING" /\ acq[Home[t]] # "none"
       /\ pc[t] = "holding" => state[Home[t]] = "LOCKED"
       /\ pc[t] = "releasing" => state[Home[t]] = "RELEASING"
  /\ \A t, u \in Thread :
       Home[t] = Home[u] /\ pc[t] \in Busy /\ pc[u] \in Busy => t = u

(* A handler in a nested RPC is the only one at its client, and no thread is
   in a call there. *)
InvRetrying ==
  \A b \in Client : rel[b] = "retrying" =>
    /\ relDest[b] \in Client
    /\ state[relDest[b]] = "WAITING" /\ acq[relDest[b]] # "none"
    /\ ~ThreadAt(relDest[b], Busy)
    /\ ThreadAt(relDest[b], {"sleeping", "awake"})
    /\ \A e \in Client : rel[e] = "retrying" /\ relDest[e] = relDest[b] => e = b

InvRevoking ==
  \A a \in Client : acq[a] = "revoking" =>
    /\ acqDest[a] \in Client
    /\ state[acqDest[a]] = "RELEASING"
    /\ ~ThreadAt(acqDest[a], Busy)
    /\ \A e \in Client : acq[e] = "revoking" /\ acqDest[e] = acqDest[a] => e = a

(* One revoke per hold: it is sent by the acquire that sets send_rpc, and it
   finds the lock still at the holder. *)
InvRevoke ==
  /\ \A a \in Client : acq[a] = "revoke" =>
       /\ Holds(acqDest[a]) /\ send_rpc
       /\ state[acqDest[a]] \in {"ACQUIRING", "WAITING", "OWNED", "LOCKED"}
       /\ pending[acqDest[a]] = "0"
       /\ \A e \in Client : acq[e] = "revoke" => e = a
  /\ \A c \in Client : pending[c] = "revoke" => Holds(c) /\ send_rpc
  /\ srvState = "LOCKED" /\ send_rpc =>
       \/ RevokeComing(holding_client)
       \/ pending[holding_client] = "revoke"
       \/ state[holding_client] = "RELEASING"

(* One retry per reservation, sent to a client that has asked and waits. *)
InvRetry ==
  \A b \in Client : rel[b] = "retry" =>
    /\ Expected(relDest[b])
    /\ pending[relDest[b]] = "0"
    /\ state[relDest[b]] \in {"ACQUIRING", "WAITING"}
    /\ \A e \in Client : rel[e] = "retry" => e = b

InvServer ==
  /\ srvState = "FREE" => holding_client = NoClient /\ waiting_clients = <<>>
  /\ srvState # "FREE" => holding_client \in Client
  /\ srvState # "FREE" /\ waiting_clients # <<>> => send_rpc
  /\ srvState = "EXPECTING" /\ send_rpc => waiting_clients # <<>>

(* The inductive invariant. *)
IInv ==
  /\ TypeOK
  /\ InvServer
  /\ WaitersUnique
  /\ \A c \in Client : InvClient(c)
  /\ InvThreads
  /\ InvRetrying
  /\ InvRevoking
  /\ InvRevoke
  /\ InvRetry
=============================================================================
