------------------------------- MODULE RpcInv -------------------------------
(***************************************************************************)
(* The inductive invariant of Rpc, from which its safety properties follow *)
(* for every number of calls, connections and server instances.            *)
(***************************************************************************)
EXTENDS Rpc

(* Lists of xids in order, and what a list holds. *)
Ascending(w) == \A i, k \in DOMAIN w : i <= k => w[i] <= w[k]
Has(w, y) == \E k \in DOMAIN w : w[k] = y
Entries(N) == [xid : 0 .. N, cb_present : BOOLEAN]

XidRep == Head(xid_rep_window)

(* x counts as received at the client. *)
Received(x) == x <= XidRep \/ Has(xid_rep_window, x)

(* Instance n has run x, and its handler has returned. *)
Answered(x, n) ==
  /\ n \in Instance /\ execs[<<x, n>>] = 1
  /\ n <= nonce
  /\ n = nonce => \A j \in running : j.xid # x

(* Instance n is gone, or done with x. *)
Settled(x, n) == n < nonce \/ Answered(x, n)

InTime == \A x \in Xid : ret[x] # "timeout"

(* A call that has not started has left no trace. *)
Unused(x) ==
  /\ step[x] = "unused" <=> x >= xid
  /\ x >= xid => /\ ret[x] = "none"
                 /\ hdr[x].rep = 0 /\ hdr[x].srv = 0
                 /\ \A n \in Instance : execs[<<x, n>>] = 0
InvUnused == \A x \in Xid : Unused(x)

(* The client's window is in order, and holds the calls that are answered. *)
InvWindow ==
  /\ Ascending(xid_rep_window) /\ ~Has(xid_rep_window, XidRep + 1)
  /\ XidRep < xid /\ \A y \in 0 .. MaxCalls : Has(xid_rep_window, y) => y < xid
  /\ \A x \in Xid : Received(x) => ret[x] # "none"
  /\ \A x \in Xid : step[x] = "returned" => Received(x)

(* A request reports calls before it as received.  It is meant for the server
   the client is bound to, or it is a bind, and then the only call. *)
Header(x) ==
  /\ hdr[x].rep <= XidRep /\ hdr[x].rep < x
  /\ hdr[x].srv \in {0, srv_nonce}
  /\ Outstanding(x) /\ hdr[x].srv = 0 =>
       /\ srv_nonce = 0
       /\ \A y \in Xid : Outstanding(y) => y = x
InvHdr == \A x \in Xid : Header(x)

InvNonces == srv_nonce <= nonce /\ bind_rep <= nonce

(* What the result of a call says of the server. *)
Result(x) ==
  /\ ret[x] # "forgotten"
  /\ ret[x] = "timeout" => step[x] = "returned"
  /\ ret[x] = "cancel" => destroy_wait
  /\ ret[x] = "oldsrv" => 0 < hdr[x].srv /\ hdr[x].srv < nonce
  /\ ret[x] = "ok" =>
       /\ hdr[x].srv # 0 => Answered(x, hdr[x].srv)
       /\ hdr[x].srv = 0 /\ Outstanding(x) => Answered(x, bind_rep)
       /\ hdr[x].srv = 0 /\ step[x] = "returned" => Answered(x, srv_nonce)
InvRet == \A x \in Xid : Result(x)

(* What is on the way belongs to calls that have started, and a reply says what
   is so; only calls that are over are told that they are forgotten. *)
Truthful(m) ==
  /\ m.xid < xid /\ m.nonce <= nonce
  /\ m.ret = "ok" => Answered(m.xid, m.nonce)
  /\ m.ret = "oldsrv" => 0 < hdr[m.xid].srv /\ hdr[m.xid].srv < nonce
  /\ m.ret = "forgotten" => ret[m.xid] # "none"
InvMessages ==
  /\ dup_req < xid
  /\ \A m \in reqs : m.xid < xid
  /\ \A m \in replies : Truthful(m)

(* An instance has run a call at most once, and the running one knows the calls
   it has run: they have an entry or come before the first. *)
Executed(x, n) ==
  /\ n > nonce => execs[<<x, n>>] = 0
  /\ execs[<<x, n>>] # 0 => execs[<<x, n>>] = 1 /\ hdr[x].srv \in {0, n}
  /\ up /\ n = nonce /\ execs[<<x, n>>] # 0 =>
       reply_window # <<>> /\ (x <= reply_window[1].xid \/ HasEntry(x))
InvExecs == \A x \in Xid, n \in Instance : Executed(x, n)

(* What comes before the first entry is over at the client, and a reply is saved
   for a call whose handler has returned. *)
InvEntries ==
  /\ ~up => reply_window = <<>> /\ running = {} /\ sending = {}
  /\ reply_window # <<>> => \A x \in Xid : x <= reply_window[1].xid => ret[x] # "none"
  /\ \A e \in Entries(MaxCalls) :
       Has(reply_window, e) /\ e.cb_present => e.xid \in Xid /\ Answered(e.xid, nonce)

InvJobs ==
  /\ \A j \in running : j.xid < xid /\ j.conn <= conn /\ execs[<<j.xid, nonce>>] = 1
  /\ \A j, k \in running : j.xid = k.xid => j = k
  /\ \A j \in sending : j.conn <= conn /\ Answered(j.xid, nonce)

(* What a request reports as received is settled at the server it is meant for,
   as long as no call has timed out. *)
InvReported ==
  InTime => \A x, y \in Xid : x <= hdr[y].rep => hdr[y].srv # 0 /\ Settled(x, hdr[y].srv)

InvRunning == InTime => \A j \in running : HasEntry(j.xid)

IInv ==
  /\ TypeOK /\ WindowSorted
  /\ InvUnused /\ InvWindow /\ InvHdr /\ InvNonces /\ InvRet
  /\ InvMessages /\ InvExecs /\ InvEntries /\ InvJobs /\ InvReported /\ InvRunning

-----------------------------------------------------------------------------
(* Steps of the client *)

(* The types, without those of the sequences. *)
Typed ==
  /\ xid \in Nat /\ srv_nonce \in Nat /\ bind_rep \in Nat /\ XidRep \in Nat
  /\ dup_req \in Nat /\ nonce \in Nat /\ conn \in Nat
  /\ \A x \in Xid : x \in Nat /\ hdr[x].rep \in Nat /\ hdr[x].srv \in Nat
  /\ xid \in 1 .. MaxCalls + 1
  /\ step \in [Xid -> Steps] /\ ret \in [Xid -> Returns]
  /\ \A x \in Xid : hdr[x].rep \in 0 .. MaxCalls /\ hdr[x].srv \in 0 .. MaxInstances
  /\ srv_nonce \in 0 .. MaxInstances /\ bind_rep \in 0 .. MaxInstances
  /\ XidRep \in 0 .. MaxCalls /\ dup_req \in 0 .. MaxCalls
  /\ nonce \in Instance /\ conn \in 0 .. MaxConns
  /\ running \subseteq Job /\ sending \subseteq Outgoing
  /\ execs \in [Xid \X Instance -> Nat]
  /\ reqs \subseteq Request /\ replies \subseteq Reply
=============================================================================
