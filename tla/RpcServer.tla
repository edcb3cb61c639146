------------------------------ MODULE RpcServer ------------------------------
(***************************************************************************)
(* rpcs of rpc.cc: the server end, as one client sees it.  Each request    *)
(* is dispatched by a pool thread, which looks it up in reply_window_,     *)
(* runs the handler if it is new, saves the reply and sends it.            *)
(***************************************************************************)
EXTENDS RpcParams

VARIABLES up,             \* the process runs
          nonce,          \* nonce_: which instance of it
          reply_window,   \* reply_window_[clt_nonce]
          conn,           \* conns_[clt_nonce], 0 if none
          running,        \* requests whose handler runs: [xid, conn]
          sending,        \* replies about to be sent: [xid, conn, dup]
          execs           \* how often each instance ran each call

rpcsVars == <<up, nonce, reply_window, conn, running, sending, execs>>

Entry(x) == [xid |-> x, cb_present |-> FALSE]
Job == [xid : Xid, conn : Conn]

(* dup: the reply answers a duplicate request, it was saved before. *)
Outgoing == [xid : Xid, conn : Conn, dup : BOOLEAN]
ToSend(j, dup) == [xid |-> j.xid, conn |-> j.conn, dup |-> dup]

rpcsTypeOK ==
  /\ up \in BOOLEAN /\ nonce \in Instance
  /\ reply_window \in Seq([xid : 0 .. MaxCalls, cb_present : BOOLEAN])
  /\ conn \in 0 .. MaxConns
  /\ running \subseteq Job
  /\ sending \subseteq Outgoing
  /\ execs \in [Xid \X Instance -> Nat]

rpcsInit ==
  /\ up = TRUE /\ nonce = 1
  /\ reply_window = <<>>
  /\ conn = 0
  /\ running = {} /\ sending = {}
  /\ execs = [e \in Xid \X Instance |-> 0]

-----------------------------------------------------------------------------
(* checkduplicate_and_update *)

(* The place of xid x: the first entry that is not smaller, or the end. *)
Lower(w, x) ==
  CHOOSE i \in 1 .. Len(w) + 1 : /\ \A k \in 1 .. i - 1 : w[k].xid < x
                                 /\ i <= Len(w) => w[i].xid >= x

(* Drop the entries before rep, the client has their replies, but keep one
   for rep. *)
Forget(w, rep) ==
  IF rep <= w[1].xid THEN w
  ELSE LET kept == SubSeq(w, Lower(w, rep), Len(w)) IN
       IF kept # <<>> /\ kept[1].xid = rep THEN kept ELSE <<Entry(rep)>> \o kept

RememberMutant(w, x) == Append(w, Entry(x))

Remember(w, x) == Insert(w, Lower(w, x), Entry(x))

(* The state of request x and the window after the call. *)
CheckDuplicateMutant(w, x, rep) ==
  IF w = <<>> THEN [stat |-> "NEW", win |-> <<Entry(rep), Entry(x)>>]
  ELSE LET kept == Forget(w, rep)
           seen == {i \in DOMAIN kept : kept[i].xid = x}
       IN IF seen = {} THEN [stat |-> "NEW", win |-> Remember(kept, x)]
          ELSE [stat |-> IF \E i \in seen : kept[i].cb_present THEN "DONE" ELSE "INPROGRESS",
                win  |-> kept]

CheckDuplicateBackMutant(w, x, rep) ==
  IF w = <<>> THEN [stat |-> "NEW", win |-> <<Entry(rep), Entry(x)>>]
  ELSE IF x <= w[Len(w)].xid THEN [stat |-> "FORGOTTEN", win |-> w]
  ELSE [stat |-> "NEW", win |-> Remember(Forget(w, rep), x)]

CheckDuplicate(w, x, rep) ==
  IF w = <<>> THEN [stat |-> "NEW", win |-> <<Entry(rep), Entry(x)>>]
  ELSE IF x <= w[1].xid THEN [stat |-> "FORGOTTEN", win |-> w]
  ELSE LET kept == Forget(w, rep)
           seen == {i \in DOMAIN kept : kept[i].xid = x}
       IN IF seen = {} THEN [stat |-> "NEW", win |-> Remember(kept, x)]
          ELSE [stat |-> IF \E i \in seen : kept[i].cb_present THEN "DONE" ELSE "INPROGRESS",
                win  |-> kept]

-----------------------------------------------------------------------------
(* dispatch, for a request of this instance: what the lookup decides. *)
Lookup(x, rep, c) ==
  LET r == CheckDuplicate(reply_window, x, rep)
      j == [xid |-> x, conn |-> c]
  IN
  /\ reply_window' = r.win
  /\ conn' = IF conn < c THEN c ELSE conn
  /\ running' = IF r.stat = "NEW" THEN running \cup {j} ELSE running
  /\ execs' = IF r.stat = "NEW" THEN [execs EXCEPT ![<<x, nonce>>] = @ + 1] ELSE execs
  /\ sending' = IF r.stat = "DONE" THEN sending \cup {ToSend(j, TRUE)} ELSE sending
  /\ UNCHANGED <<up, nonce>>

(* add_reply *)
HasEntry(x) == \E i \in DOMAIN reply_window : reply_window[i].xid = x

AddReplyAsserts(x) ==
  /\ HasEntry(x)
  /\ \A i \in DOMAIN reply_window : reply_window[i].xid = x => ~reply_window[i].cb_present

(* The handler of j returned: its reply is saved, and will be sent. *)
AddReplyMutant(j) ==
  /\ AddReplyAsserts(j.xid)
  /\ running' = running \ {j}
  /\ sending' = sending \cup {ToSend(j, FALSE)}
  /\ UNCHANGED <<up, nonce, reply_window, conn, execs>>

AddReply(j) ==
  /\ AddReplyAsserts(j.xid)
  /\ reply_window' = [i \in DOMAIN reply_window |->
                        IF reply_window[i].xid = j.xid
                        THEN [reply_window[i] EXCEPT !.cb_present = TRUE]
                        ELSE reply_window[i]]
  /\ running' = running \ {j}
  /\ sending' = sending \cup {ToSend(j, FALSE)}
  /\ UNCHANGED <<up, nonce, conn, execs>>

(* The replies whose buffers have not been freed. *)
Saved == {reply_window[i].xid : i \in {k \in DOMAIN reply_window :
                                          reply_window[k].cb_present}}

Sent(j) ==
  /\ sending' = sending \ {j}
  /\ UNCHANGED <<up, nonce, reply_window, conn, running, execs>>

(* The process ends: a crash, or the assert(false) of add_reply. *)
Exit ==
  /\ up
  /\ up' = FALSE
  /\ reply_window' = <<>>
  /\ conn' = 0
  /\ running' = {} /\ sending' = {}
  /\ UNCHANGED <<nonce, execs>>

(* Another process is started, with a nonce of its own. *)
Restart ==
  /\ ~up
  /\ nonce < MaxInstances
  /\ up' = TRUE
  /\ nonce' = nonce + 1
  /\ UNCHANGED <<reply_window, conn, running, sending, execs>>
=============================================================================
