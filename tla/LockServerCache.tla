--------------------------- MODULE LockServerCache ---------------------------
(***************************************************************************)
(* The caching lock server, lock_server_cache.cc, for one lock id.         *)
(*                                                                         *)
(* lock_states_server is a map from lock id to an independent record, and  *)
(* every access to it is under the server's mutex, so the record of one    *)
(* lock is the state and the code between lock and unlock of the mutex is  *)
(* one step.  A handler that sends a revoke or a retry does so after the   *)
(* unlock; that call, and the return of the handler, are steps of the      *)
(* composition (module LockCache).                                         *)
(***************************************************************************)
EXTENDS LockClients, Naturals, Sequences

VARIABLES srvState,         \* lock_state_server.state
          holding_client,   \* holding_client.id
          send_rpc,         \* holding_client.send_rpc
          waiting_clients   \* the list of ids waiting, first in front

serverVars == <<srvState, holding_client, send_rpc, waiting_clients>>

SrvStates == {"FREE", "LOCKED", "EXPECTING"}

ServerTypeOK ==
  /\ srvState \in SrvStates
  /\ holding_client \in Client \cup {NoClient}
  /\ send_rpc \in BOOLEAN
  /\ waiting_clients \in Seq(Client)

ServerInit ==
  /\ srvState = "FREE"
  /\ holding_client = NoClient
  /\ send_rpc = FALSE
  /\ waiting_clients = <<>>

-----------------------------------------------------------------------------
(* acquire(lid, id).  A failed assert aborts the server, so the asserts    *)
(* are conjuncts of the steps; LockCache!AssertsHold states that they are  *)
(* true whenever the handler may run.                                      *)

AcquireAsserts(id) ==
  /\ srvState = "FREE" => waiting_clients = <<>>
  /\ srvState # "FREE" => holding_client # NoClient
  /\ srvState = "LOCKED" => holding_client # id

(* FREE -> LOCKED; answer OK, nobody to revoke. *)
SrvAcquireFree(id) ==
  /\ srvState = "FREE"
  /\ AcquireAsserts(id)
  /\ srvState' = "LOCKED"
  /\ holding_client' = id
  /\ send_rpc' = FALSE
  /\ UNCHANGED waiting_clients

(* The client the lock was reserved for asks again: EXPECTING -> LOCKED;
   answer OK.  It is revoked at once when send_rpc is set. *)
SrvAcquireExpected(id) ==
  /\ srvState = "EXPECTING"
  /\ AcquireAsserts(id)
  /\ holding_client = id
  /\ srvState' = "LOCKED"
  /\ UNCHANGED <<holding_client, send_rpc, waiting_clients>>

(* Another client asks while the lock is reserved: queue it, remember that
   the next holder must be revoked; answer RETRY. *)
SrvAcquireReservedMutant(id) ==
  /\ srvState = "EXPECTING"
  /\ AcquireAsserts(id)
  /\ holding_client # id
  /\ waiting_clients' = Append(waiting_clients, id)
  /\ UNCHANGED <<srvState, holding_client, send_rpc>>

SrvAcquireReserved(id) ==
  /\ srvState = "EXPECTING"
  /\ AcquireAsserts(id)
  /\ holding_client # id
  /\ waiting_clients' = Append(waiting_clients, id)
  /\ send_rpc' = TRUE
  /\ UNCHANGED <<srvState, holding_client>>

(* The lock is held: queue the client; answer RETRY.  The holder is revoked
   by the first client that finds send_rpc unset. *)
SrvAcquireHeldMutant(id) ==
  /\ srvState = "LOCKED"
  /\ AcquireAsserts(id)
  /\ waiting_clients' = Append(waiting_clients, id)
  /\ UNCHANGED <<srvState, holding_client, send_rpc>>

SrvAcquireHeld(id) ==
  /\ srvState = "LOCKED"
  /\ AcquireAsserts(id)
  /\ waiting_clients' = Append(waiting_clients, id)
  /\ send_rpc' = TRUE
  /\ UNCHANGED <<srvState, holding_client>>

-----------------------------------------------------------------------------
(* release(lid, id). *)

ReleaseAsserts(id) ==
  /\ srvState = "LOCKED"
  /\ holding_client = id

(* Nobody waits: LOCKED -> FREE. *)
SrvReleaseFree(id) ==
  /\ ReleaseAsserts(id)
  /\ waiting_clients = <<>>
  /\ srvState' = "FREE"
  /\ holding_client' = NoClient
  /\ send_rpc' = FALSE
  /\ UNCHANGED waiting_clients

(* The longest waiting client becomes the expected one; it is sent a retry
   after the unlock. *)
SrvReleaseNextMutant(id) ==
  /\ ReleaseAsserts(id)
  /\ waiting_clients # <<>>
  /\ srvState' = "FREE"
  /\ holding_client' = Head(waiting_clients)
  /\ waiting_clients' = Tail(waiting_clients)
  /\ send_rpc' = (Tail(waiting_clients) # <<>>)

SrvReleaseNext(id) ==
  /\ ReleaseAsserts(id)
  /\ waiting_clients # <<>>
  /\ srvState' = "EXPECTING"
  /\ holding_client' = Head(waiting_clients)
  /\ waiting_clients' = Tail(waiting_clients)
  /\ send_rpc' = (Tail(waiting_clients) # <<>>)
=============================================================================
