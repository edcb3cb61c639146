--------------------------------- MODULE Rpc ---------------------------------
(***************************************************************************)
(* A client and a server of the RPC library, and the connections between   *)
(* them.  A connection is TCP: it loses nothing while it is alive, and any *)
(* part of what is on it when it dies.  The pool threads of the server     *)
(* take requests in any order.  connection.cc is abstracted to this.       *)
(***************************************************************************)
EXTENDS RpcClient, RpcServer

CONSTANTS Timeouts,     \* calls may reach their final deadline
          Cancels       \* the application may call cancel

VARIABLES chan,         \* chan_: the client's latest connection, 0 if none
          alive,        \* that connection is not dead; earlier ones are
          reqs,         \* requests sent and not yet dispatched or lost
          replies       \* replies sent and not yet received or lost

netVars == <<chan, alive, reqs, replies>>
vars == <<rpccVars, rpcsVars, netVars>>

Dead(c) == c < chan \/ ~alive

(* dup marks the second copy that RPC_LOSSY makes of a request. *)
Request == [xid : Xid, conn : Conn, dup : BOOLEAN]
Reply == [xid : Xid, ret : {"ok", "oldsrv", "forgotten"}, nonce : Instance, conn : Conn]

TypeOK ==
  /\ rpccTypeOK /\ rpcsTypeOK
  /\ chan \in 0 .. MaxConns /\ alive \in BOOLEAN
  /\ reqs \subseteq Request
  /\ replies \subseteq Reply

Init ==
  /\ rpccInit /\ rpcsInit
  /\ chan = 0 /\ alive = FALSE
  /\ reqs = {} /\ replies = {}

-----------------------------------------------------------------------------
(* The client *)

Start == StartCall /\ UNCHANGED <<rpcsVars, netVars>>

(* get_refconn keeps a live connection or opens one; the request is sent, after
   the copy of an old one if RPC_LOSSY wants it. *)
Transmit(x) ==
  LET new == chan = 0 \/ ~alive
      c   == IF new THEN chan + 1 ELSE chan
  IN /\ new => up /\ chan < MaxConns
     /\ Transmitted(x, c)
     /\ chan' = c /\ alive' = TRUE
     /\ reqs' = reqs \cup {[xid |-> x, conn |-> c, dup |-> FALSE]}
                     \cup {[xid |-> y, conn |-> c, dup |-> TRUE] : y \in Forgot}
     /\ UNCHANGED <<rpcsVars, replies>>

ConnectFails(x) ==
  /\ ~alive
  /\ NotTransmitted(x)
  /\ UNCHANGED <<rpcsVars, netVars>>

TimerExpires(x) ==
  /\ ch[x] = 0 \/ Dead(ch[x])
  /\ Retransmit(x)
  /\ UNCHANGED <<rpcsVars, netVars>>

EndCall(x) == Return(x) /\ UNCHANGED <<rpcsVars, netVars>>

DeadlinePasses(x) == Timeouts /\ GiveUp(x) /\ UNCHANGED <<rpcsVars, netVars>>

Receive(m) ==
  /\ GotReply(m.xid, m.ret, m.nonce)
  /\ replies' = replies \ {m}
  /\ UNCHANGED <<rpcsVars, chan, alive, reqs>>

CancelAll == Cancels /\ Cancel /\ UNCHANGED <<rpcsVars, netVars>>

-----------------------------------------------------------------------------
(* The server *)

(* What is sent on a dead connection is lost. *)
SendOn(c, x, r) ==
  IF Dead(c) THEN replies
  ELSE replies \cup {[xid |-> x, ret |-> r, nonce |-> nonce, conn |-> c]}

OldServerMutant(m) == FALSE

OldServer(m) == hdr[m.xid].srv # 0 /\ hdr[m.xid].srv # nonce

(* Dispatch of a request that is meant for an earlier instance. *)
DispatchOld(m) ==
  /\ up /\ OldServer(m)
  /\ replies' = SendOn(m.conn, m.xid, "oldsrv")
  /\ reqs' = reqs \ {m}
  /\ UNCHANGED <<rpccVars, rpcsVars, chan, alive>>

(* Dispatch up to the call of the handler; for a forgotten request to its end. *)
Dispatch(m) ==
  /\ up /\ ~OldServer(m)
  /\ Lookup(m.xid, hdr[m.xid].rep, m.conn)
  /\ replies' = IF CheckDuplicate(reply_window, m.xid, hdr[m.xid].rep).stat = "FORGOTTEN"
                THEN SendOn(m.conn, m.xid, "forgotten") ELSE replies
  /\ reqs' = reqs \ {m}
  /\ UNCHANGED <<rpccVars, chan, alive>>

HandlerReturns(j) == AddReply(j) /\ UNCHANGED <<rpccVars, netVars>>

(* The process is gone, and with it what was sent to it. *)
ServerGone ==
  /\ Exit
  /\ alive' = FALSE
  /\ reqs' = {}
  /\ UNCHANGED <<rpccVars, chan, replies>>

AssertFails(j) == ~AddReplyAsserts(j.xid) /\ ServerGone

(* Send the reply of j; a new one, not a duplicate, goes to the client's latest
   connection if the one of its request is dead.  The buffer may have been freed
   since it was looked up: then its memory holds the reply still, or another
   saved one, or no reply at all. *)
SendReply(j) ==
  LET c == IF Dead(j.conn) /\ ~j.dup THEN conn ELSE j.conn IN
  /\ Sent(j)
  /\ \/ \E y \in {j.xid} \cup (IF j.xid \in Saved THEN {} ELSE Saved) :
          y # 0 /\ replies' = SendOn(c, y, "ok")
     \/ j.xid \notin Saved /\ UNCHANGED replies
  /\ UNCHANGED <<rpccVars, chan, alive, reqs>>

-----------------------------------------------------------------------------
(* Failures *)

ConnectionDies ==
  /\ alive /\ chan < MaxConns
  /\ alive' = FALSE
  /\ UNCHANGED <<rpccVars, rpcsVars, chan, reqs, replies>>

LoseRequest(m) ==
  /\ Dead(m.conn)
  /\ reqs' = reqs \ {m}
  /\ UNCHANGED <<rpccVars, rpcsVars, chan, alive, replies>>

LoseReply(m) ==
  /\ Dead(m.conn)
  /\ replies' = replies \ {m}
  /\ UNCHANGED <<rpccVars, rpcsVars, chan, alive, reqs>>

Crash == nonce < MaxInstances /\ chan < MaxConns /\ ServerGone

RestartServer == Restart /\ UNCHANGED <<rpccVars, netVars>>

-----------------------------------------------------------------------------
Client(x) == Transmit(x) \/ ConnectFails(x) \/ TimerExpires(x) \/ EndCall(x) \/ DeadlinePasses(x)

Next ==
  \/ Start \/ CancelAll
  \/ \E x \in Xid : Client(x)
  \/ \E m \in replies : Receive(m) \/ LoseReply(m)
  \/ \E m \in reqs : DispatchOld(m) \/ Dispatch(m) \/ LoseRequest(m)
  \/ \E j \in running : HandlerReturns(j) \/ AssertFails(j)
  \/ \E j \in sending : SendReply(j)
  \/ ConnectionDies \/ Crash \/ RestartServer

Spec == Init /\ [][Next]_vars

-----------------------------------------------------------------------------
(* Fairness.  Threads run, the live connection delivers, a server that has
   exited is started again, and connecting succeeds if it is tried for ever. *)
Fairness ==
  /\ WF_vars(RestartServer)
  /\ \A x \in Xid :
       /\ SF_vars(Transmit(x))
       /\ WF_vars(ConnectFails(x))
       /\ WF_vars(TimerExpires(x))
       /\ WF_vars(EndCall(x))
       /\ WF_vars(\E m \in replies : m.xid = x /\ Receive(m))
       /\ WF_vars(\E m \in reqs : m.xid = x /\ (Dispatch(m) \/ DispatchOld(m)))
       /\ WF_vars(\E j \in running : j.xid = x /\ HandlerReturns(j))
       /\ WF_vars(\E j \in sending : j.xid = x /\ SendReply(j))

FairSpec == Spec /\ Fairness

-----------------------------------------------------------------------------
(* Safety *)

(* At most once: however a request is retransmitted, delayed or copied, no
   instance of the server runs its handler twice, and no instance but the one
   the client is bound to runs it at all. *)
AtMostOnce ==
  \A x \in Xid, n \in Instance :
    /\ execs[<<x, n>>] <= 1
    /\ execs[<<x, n>>] = 1 => hdr[x].srv \in {0, n}

(* A call that succeeds has been executed by the server it is bound to; a
   bind has learned the nonce of a server that ran it. *)
OkMeansExecuted ==
  \A x \in Xid : ret[x] = "ok" =>
    IF hdr[x].srv = 0 THEN \E n \in Instance : execs[<<x, n>>] = 1
    ELSE execs[<<x, hdr[x].srv>>] = 1

(* The server never tells a caller that is still waiting that it has forgotten
   the call: only replies the client has reported as received are dropped. *)
NeverForgotten == \A x \in Xid : ret[x] # "forgotten"

(* xid_rep is sound and complete: every call up to the front of the window is
   answered or over, and the front passes all calls that are over, whatever
   the order of the replies and although update_xid_rep sees each xid twice.  A
   request says less than its own xid, the assert of checkduplicate_and_update. *)
FrontierExact ==
  /\ \A x \in Xid : x <= Head(xid_rep_window) => ret[x] # "none"
  /\ \A x \in Xid : (\A y \in 1 .. x : step[y] = "returned") => x <= Head(xid_rep_window)
  /\ \A m \in reqs : hdr[m.xid].rep < m.xid

(* The reply window is sorted and has no entry twice, as the searches of
   checkduplicate_and_update and add_reply take for granted. *)
WindowSorted ==
  \A i, j \in DOMAIN reply_window : i < j => reply_window[i].xid < reply_window[j].xid

(* The assert(false) of add_reply is not reached: a request being handled has
   its entry, without a reply, in the window. *)
AddReplyFinds == \A j \in running : AddReplyAsserts(j.xid)

(* It is not reached unless a call has timed out, whose entry the server may drop
   while the handler still runs. *)
AddReplyFindsInTime == (\A x \in Xid : ret[x] # "timeout") => AddReplyFinds

(* "DONE: seen this xid, previous reply returned": the reply a thread is about
   to send is still saved. *)
ReplyStillSaved == \A j \in sending : j.xid \in Saved

-----------------------------------------------------------------------------
(* Liveness *)

(* Every call returns, without any deadline: lost requests and lost replies are
   made up for by retransmission on the next connection. *)
CallsReturn == \A x \in Xid : Outstanding(x) ~> step[x] = "returned"
=============================================================================
