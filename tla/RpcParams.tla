------------------------------ MODULE RpcParams ------------------------------
(***************************************************************************)
(* The bounds shared by the two ends of an RPC connection (rpc.cc).        *)
(***************************************************************************)
EXTENDS Integers, Sequences

CONSTANTS MaxCalls,      \* calls the client makes; xid_ is a 32-bit counter
          MaxConns,      \* connections the client opens
          MaxInstances   \* incarnations of the server process

ASSUME BoundsAssumption ==
  /\ MaxCalls \in Nat /\ MaxConns \in Nat /\ MaxInstances \in Nat \ {0}

Xid == 1 .. MaxCalls
Conn == 1 .. MaxConns
Instance == 1 .. MaxInstances

(* insert of std::list, before the element at place i. *)
Insert(w, i, e) == SubSeq(w, 1, i - 1) \o <<e>> \o SubSeq(w, i, Len(w))
=============================================================================
