----------------------------- MODULE LockClients -----------------------------
(***************************************************************************)
(* The parties of the caching lock protocol.                               *)
(***************************************************************************)
CONSTANTS Client,     \* the lock clients: their ids, "host:port"
          NoClient,   \* the empty id ""
          Thread,     \* the application threads that call acquire and release
          Home        \* Home[t], the client whose process thread t runs in

ASSUME NoClientAssumption == NoClient \notin Client
ASSUME HomeAssumption == Home \in [Thread -> Client]
=============================================================================
