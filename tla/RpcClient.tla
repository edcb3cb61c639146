------------------------------ MODULE RpcClient ------------------------------
(***************************************************************************)
(* rpcc of rpc.cc: the client end.  Application threads are in call1; the  *)
(* PollMgr thread delivers replies through got_pdu.  A call is known by    *)
(* its xid.  ret[x] = "none" stands for !ca.done.                          *)
(***************************************************************************)
EXTENDS RpcParams

CONSTANT Lossy           \* lossytest_: RPC_LOSSY is set

VARIABLES xid,             \* xid_, of the next call
          step,            \* where the thread of each call is in call1
          ret,             \* ca.done and ca.intret
          hdr,             \* xid_rep and srv_nonce packed into the request
          ch,              \* the connection the call was last sent on, 0 if none
          srv_nonce,       \* 0 until bind has returned
          bind_rep,        \* the result r of the bind that is answered
          xid_rep_window,
          dup_req,         \* dup_req_.xid, 0 when not valid
          xid_rep_done,
          destroy_wait

rpccVars == <<xid, step, ret, hdr, ch, srv_nonce, bind_rep, xid_rep_window,
              dup_req, xid_rep_done, destroy_wait>>

Steps == {"unused", "transmit", "waiting", "returned"}
Returns == {"none", "ok", "oldsrv", "forgotten", "timeout", "cancel"}

rpccTypeOK ==
  /\ xid \in 1 .. MaxCalls + 1
  /\ step \in [Xid -> Steps]
  /\ ret \in [Xid -> Returns]
  /\ hdr \in [Xid -> [rep : 0 .. MaxCalls, srv : 0 .. MaxInstances]]
  /\ ch \in [Xid -> 0 .. MaxConns]
  /\ srv_nonce \in 0 .. MaxInstances /\ bind_rep \in 0 .. MaxInstances
  /\ xid_rep_window \in Seq(0 .. MaxCalls) /\ xid_rep_window # <<>>
  /\ dup_req \in 0 .. MaxCalls
  /\ xid_rep_done \in -1 .. MaxCalls
  /\ destroy_wait \in BOOLEAN

rpccInit ==
  /\ xid = 1
  /\ step = [x \in Xid |-> "unused"]
  /\ ret = [x \in Xid |-> "none"]
  /\ hdr = [x \in Xid |-> [rep |-> 0, srv |-> 0]]
  /\ ch = [x \in Xid |-> 0]
  /\ srv_nonce = 0 /\ bind_rep = 0
  /\ xid_rep_window = <<0>>
  /\ dup_req = 0
  /\ xid_rep_done = -1
  /\ destroy_wait = FALSE

(* x is in calls_. *)
Outstanding(x) == step[x] \in {"transmit", "waiting"}

-----------------------------------------------------------------------------
(* update_xid_rep *)

(* xid goes before the first element that is larger. *)
Place(w, x) ==
  CHOOSE i \in 1 .. Len(w) + 1 : /\ \A k \in 1 .. i - 1 : w[k] <= x
                                 /\ i <= Len(w) => w[i] > x

(* The loop pops the front when it meets its successor.  In a sorted list that is
   as long as the front has a successor at all. *)
NewFront(w) ==
  CHOOSE i \in DOMAIN w : /\ \A k \in DOMAIN w : w[k] # w[i] + 1
                          /\ \A j \in 1 .. i - 1 : \E k \in DOMAIN w : w[k] = w[j] + 1

Compress(w) == SubSeq(w, NewFront(w), Len(w))

UpdateXidRepMutant(w, x) == IF x <= Head(w) THEN w ELSE <<x>>
UpdateXidRep(w, x) ==
  IF x <= Head(w) THEN w ELSE Compress(Insert(w, Place(w, x), x))

-----------------------------------------------------------------------------
(* call1 *)

(* The first critical section: a bind while not bound, a call once bound. *)
StartCall ==
  /\ xid <= MaxCalls
  /\ ~destroy_wait
  /\ srv_nonce = 0 => \A x \in Xid : ~Outstanding(x)
  /\ xid' = xid + 1
  /\ step' = [step EXCEPT ![xid] = "transmit"]
  /\ hdr' = [hdr EXCEPT ![xid] = [rep |-> Head(xid_rep_window), srv |-> srv_nonce]]
  /\ UNCHANGED <<ret, ch, srv_nonce, bind_rep, xid_rep_window, dup_req,
                 xid_rep_done, destroy_wait>>

(* The request of an answered call that RPC_LOSSY sends a second time, once
   the server must have forgotten it. *)
Forgot == IF dup_req # 0 /\ xid_rep_done > dup_req THEN {dup_req} ELSE {}

(* Sent on connection c. *)
Transmitted(x, c) ==
  /\ step[x] = "transmit"
  /\ step' = [step EXCEPT ![x] = "waiting"]
  /\ ch' = [ch EXCEPT ![x] = c]
  /\ dup_req' = IF Forgot # {} THEN 0 ELSE dup_req
  /\ UNCHANGED <<xid, ret, hdr, srv_nonce, bind_rep, xid_rep_window, xid_rep_done,
                 destroy_wait>>

(* connect_to_dst failed. *)
NotTransmitted(x) ==
  /\ step[x] = "transmit"
  /\ step' = [step EXCEPT ![x] = "waiting"]
  /\ UNCHANGED <<xid, ret, hdr, ch, srv_nonce, bind_rep, xid_rep_window, dup_req,
                 xid_rep_done, destroy_wait>>

(* The timer of a call expired; its connection is dead. *)
Retransmit(x) ==
  /\ step[x] = "waiting" /\ ret[x] = "none"
  /\ step' = [step EXCEPT ![x] = "transmit"]
  /\ UNCHANGED <<xid, ret, hdr, ch, srv_nonce, bind_rep, xid_rep_window, dup_req,
                 xid_rep_done, destroy_wait>>

(* The call leaves with what it has, and the reply counts as received.  bind
   goes on to store the server's nonce. *)
Return(x) ==
  /\ step[x] = "waiting" /\ ret[x] # "none"
  /\ step' = [step EXCEPT ![x] = "returned"]
  /\ xid_rep_window' = UpdateXidRep(xid_rep_window, x)
  /\ dup_req' = IF Lossy /\ dup_req = 0 THEN x ELSE dup_req
  /\ xid_rep_done' = IF Lossy /\ hdr[x].rep > xid_rep_done THEN hdr[x].rep ELSE xid_rep_done
  /\ srv_nonce' = IF hdr[x].srv = 0 /\ ret[x] = "ok" THEN bind_rep ELSE srv_nonce
  /\ UNCHANGED <<xid, ret, hdr, ch, bind_rep, destroy_wait>>

(* The final deadline passed. *)
GiveUp(x) ==
  /\ step[x] = "waiting" /\ ret[x] = "none"
  /\ step' = [step EXCEPT ![x] = "returned"]
  /\ ret' = [ret EXCEPT ![x] = "timeout"]
  /\ xid_rep_window' = UpdateXidRep(xid_rep_window, x)
  /\ UNCHANGED <<xid, hdr, ch, srv_nonce, bind_rep, dup_req, xid_rep_done, destroy_wait>>

(* got_pdu: a reply r, of server instance n, to call x. *)
GotReply(x, r, n) ==
  LET taken == Outstanding(x) /\ ret[x] = "none" IN
  /\ xid_rep_window' = UpdateXidRep(xid_rep_window, x)
  /\ ret' = IF taken THEN [ret EXCEPT ![x] = r] ELSE ret
  /\ bind_rep' = IF taken /\ hdr[x].srv = 0 THEN n ELSE bind_rep
  /\ UNCHANGED <<xid, step, hdr, ch, srv_nonce, dup_req, xid_rep_done, destroy_wait>>

(* cancel: every outstanding call is made to fail, and no new one starts. *)
Cancel ==
  /\ ~destroy_wait
  /\ \E x \in Xid : Outstanding(x)
  /\ ret' = [x \in Xid |-> IF Outstanding(x) THEN "cancel" ELSE ret[x]]
  /\ destroy_wait' = TRUE
  /\ UNCHANGED <<xid, step, hdr, ch, srv_nonce, bind_rep, xid_rep_window, dup_req, xid_rep_done>>
=============================================================================
