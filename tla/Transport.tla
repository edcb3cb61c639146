------------------------------ MODULE Transport ------------------------------
(***************************************************************************)
(* The users of a connection: calls of an rpcc send requests on the client *)
(* end, dispatch threads of an rpcs send replies on the server end, the    *)
(* listener keeps the server end in its table, and both objects may be     *)
(* destroyed.  Each keeps a reference to its end (rpc.cc, tcpsconn of      *)
(* connection.cc).                                                         *)
(***************************************************************************)
EXTENDS Connection

CONSTANTS Client, Server,  \* the two ends
          MaxCalls,        \* calls are numbered in the order in which they start
          Closer,          \* names the thread that destroys the owner of an end
          Scenarios        \* what dispatch finds each request to be, and how many
                           \* refusals, reconnections and destructions happen

Call == 1 .. MaxCalls

(* What dispatch finds: an answer of checkduplicate_and_update, or less. *)
Kinds == {"NEW", "INPROGRESS", "DONE", "FORGOTTEN", "old instance", "bad header"}

ASSUME EndsAssumption ==
  /\ MaxCalls \in Nat
  /\ Fd = {Client, Server} /\ Client # Server
  /\ Closer \notin Call
  /\ Scenarios \subseteq [kind : [Call -> Kinds], events : Nat]
  /\ Thread = Fd \X (Call \cup {Closer})

VARIABLES chan,          \* chan_ of the rpcc: "open", "replaced" or "closed"
          listener,      \* tcpsconn::conns_ has the server end
          conns,         \* rpcs::conns_ of this client: "none", "this", "newer"
          kind, events   \* what is left of the scenario

userVars == <<chan, listener, conns, kind, events>>
vars == <<pollVars, connVars, userVars>>

Caller(x) == <<Client, x>>
Job(x) == <<Server, x>>
Destroyer(e) == <<e, Closer>>

TypeOK ==
  /\ pollTypeOK /\ connTypeOK
  /\ chan \in {"open", "replaced", "closed"}
  /\ listener \in BOOLEAN /\ conns \in {"none", "this", "newer"}
  /\ (\E s \in Scenarios : kind = s.kind /\ events \in 0 .. s.events)

Init ==
  /\ pollInit /\ connInit
  /\ chan = "open" /\ listener = TRUE /\ conns = "none"
  /\ \E s \in Scenarios : kind = s.kind /\ events = s.events

Event == events > 0 /\ events' = events - 1

-----------------------------------------------------------------------------
(* rpcc *)

Calling(x) == at[Caller(x)] \notin {"out", "over"}

(* call1: get_refconn finds the connection alive, and send is called. *)
CallStarts(x) ==
  /\ at[Caller(x)] = "out"
  /\ x > 1 => at[Caller(x - 1)] # "out"
  /\ chan = "open" /\ ~dead[Client] /\ at[Destroyer(Client)] = "out"
  /\ IncRef(Client)
  /\ Move(Caller(x), "send")
  /\ UNCHANGED <<pollVars, dead, wpdu, rpdu, deleted, netVars, crashed, order, got, userVars>>

(* The end of call1, answered or not. *)
CallEnds(x) ==
  /\ at[Caller(x)] \in {"sent", "failed"}
  /\ DecRef(Client)
  /\ Move(Caller(x), "over")
  /\ UNCHANGED <<pollVars, dead, wpdu, rpdu, netVars, crashed, order, got, userVars>>

(* get_refconn finds the connection dead, and opens another one. *)
Reconnect ==
  /\ chan = "open" /\ dead[Client] /\ at[Destroyer(Client)] = "out"
  /\ Event
  /\ chan' = "replaced"
  /\ DecRef(Client)
  /\ UNCHANGED <<pollVars, dead, wpdu, rpdu, at, netVars, crashed, order, got,
                 listener, conns, kind>>

(* ~rpcc: "destruction should happen only when no external threads are blocked
   inside rpcc". *)
DestroyRpcc ==
  /\ chan = "open" /\ at[Destroyer(Client)] = "out"
  /\ \A x \in Call : ~Calling(x)
  /\ Event
  /\ CloseConn(Destroyer(Client))
  /\ UNCHANGED <<chan, listener, conns, kind>>

RpccDestroyed ==
  /\ at[Destroyer(Client)] = "closed"
  /\ DecRef(Client)
  /\ chan' = "closed"
  /\ Move(Destroyer(Client), "over")
  /\ UNCHANGED <<pollVars, dead, wpdu, rpdu, netVars, crashed, order, got,
                 listener, conns, kind, events>>

-----------------------------------------------------------------------------
(* rpcs *)

(* got_pdu of the server: the request becomes a job with a reference to the
   connection, or is refused because the queue is full. *)
GotRequest(e, r, taken) ==
  IF e = Server /\ Complete(r.rpdu)
  THEN IF taken THEN /\ IncRef(Server)
                     /\ at' = [at EXCEPT ![Job(r.rpdu[1][1][2])] = "dispatch"]
                     /\ UNCHANGED events
       ELSE Event /\ UNCHANGED <<refno, at>>
  ELSE /\ taken
       /\ IF r.ok THEN UNCHANGED at ELSE SignalComplete(e)
       /\ UNCHANGED <<refno, events>>

ReadStep(e) ==
  /\ \E r \in readpdu(e), taken \in BOOLEAN : ReadCb(e, r, taken) /\ GotRequest(e, r, taken)
  /\ UNCHANGED <<chan, listener, conns, kind>>

(* The first request of a client makes its connection the one replies are sent
   on, and rpcs::conns_ takes a reference to it. *)
SaveConnMutant ==
  /\ conns' = IF conns = "none" THEN "this" ELSE conns
  /\ UNCHANGED refno

SaveConn ==
  /\ conns' = IF conns = "none" THEN "this" ELSE conns
  /\ IF conns = "none" THEN IncRef(Server) ELSE UNCHANGED refno

(* dispatch, up to the switch.  A request without a header is dropped, and one
   for an old instance answered, before the connection is saved. *)
Dispatch(x) ==
  /\ at[Job(x)] = "dispatch"
  /\ IF kind[x] = "bad header" THEN Move(Job(x), "over") /\ DecRef(Server) /\ UNCHANGED conns
     ELSE /\ UNCHANGED deleted
          /\ IF kind[x] = "old instance"
             THEN Move(Job(x), "send") /\ UNCHANGED <<conns, refno>>
             ELSE Move(Job(x), "handler") /\ SaveConn
  /\ UNCHANGED <<pollVars, dead, wpdu, rpdu, netVars, crashed, order, got,
                 chan, listener, kind, events>>

(* The switch.  The handler of a new request returned: the reply is sent here,
   or on the client's later connection if this one is dead.  The saved reply to a
   duplicate, or the refusal of a forgotten one, is sent here in any case. *)
Switch(x) ==
  /\ at[Job(x)] = "handler"
  /\ IF kind[x] = "INPROGRESS" \/ (kind[x] = "NEW" /\ dead[Server] /\ conns = "newer")
     THEN Move(Job(x), "over") /\ DecRef(Server)
     ELSE Move(Job(x), "send") /\ UNCHANGED <<refno, deleted>>
  /\ UNCHANGED <<pollVars, dead, wpdu, rpdu, netVars, crashed, order, got, userVars>>

(* The end of dispatch.  After the answer to a request for an old instance it
   returns without decref. *)
DispatchEnds(x) ==
  /\ at[Job(x)] \in {"sent", "failed"}
  /\ IF kind[x] = "old instance" THEN Move(Job(x), "kept") /\ UNCHANGED <<refno, deleted>>
     ELSE Move(Job(x), "over") /\ DecRef(Server)
  /\ UNCHANGED <<pollVars, dead, wpdu, rpdu, netVars, crashed, order, got, userVars>>

(* dispatch of a request that came over the client's next connection. *)
ConnsReplaced ==
  /\ conns # "newer" /\ chan = "replaced"
  /\ conns' = "newer"
  /\ IF conns = "this" THEN DecRef(Server) ELSE UNCHANGED <<refno, deleted>>
  /\ UNCHANGED <<pollVars, dead, wpdu, rpdu, at, netVars, crashed, order, got,
                 chan, listener, kind, events>>

(* process_accept, of any connection: dead ones with one reference are dropped. *)
Accept ==
  /\ listener /\ at[Destroyer(Server)] = "out"
  /\ dead[Server] /\ refno[Server] = 1
  /\ listener' = FALSE
  /\ DecRef(Server)
  /\ UNCHANGED <<pollVars, dead, wpdu, rpdu, at, netVars, crashed, order, got,
                 chan, conns, kind, events>>

(* ~rpcs deletes the listener, which closes the connections it has. *)
DestroyRpcs ==
  /\ listener /\ at[Destroyer(Server)] = "out"
  /\ Event
  /\ CloseConn(Destroyer(Server))
  /\ UNCHANGED <<chan, listener, conns, kind>>

ListenerDeleted ==
  /\ at[Destroyer(Server)] = "closed"
  /\ DecRef(Server)
  /\ listener' = FALSE
  /\ Move(Destroyer(Server), "over")
  /\ UNCHANGED <<pollVars, dead, wpdu, rpdu, netVars, crashed, order, got,
                 chan, conns, kind, events>>

-----------------------------------------------------------------------------
ThreadStep(t) ==
  /\ ~crashed
  /\ \/ SendOnDead(t) \/ SendWaits(t) \/ SendWrites(t) \/ SendCompletes(t)
     \/ RemoveStarts(t) \/ RemoveReturns(t)
  /\ UNCHANGED userVars

PollThread ==
  /\ ~crashed
  /\ \/ PollStep /\ UNCHANGED userVars
     \/ \E e \in Fd : \/ (WriteCbAborts(e) \/ WriteCb(e) \/ ReadCbDead(e)) /\ UNCHANGED userVars
                      \/ ReadStep(e)

(* The rest of a call, of a dispatch, or of a destructor that has begun. *)
UserStep ==
  /\ ~crashed
  /\ \/ \E x \in Call : CallEnds(x) \/ Dispatch(x) \/ Switch(x) \/ DispatchEnds(x)
     \/ RpccDestroyed \/ ListenerDeleted

Begin ==
  /\ ~crashed
  /\ \/ \E x \in Call : CallStarts(x)
     \/ Reconnect \/ DestroyRpcc
     \/ ConnsReplaced \/ Accept \/ DestroyRpcs

Next == (\E t \in Thread : ThreadStep(t)) \/ PollThread \/ UserStep \/ Begin

Spec == Init /\ [][Next]_vars

(* Fairness.  The poll thread runs, and so do the threads that are inside the
   library.  Nothing makes a client reconnect, or a caller call. *)
FairSpec ==
  Spec /\ WF_vars(PollThread) /\ WF_vars((\E t \in Thread : ThreadStep(t)) \/ UserStep)

-----------------------------------------------------------------------------
InSend(t) == at[t] \in {"send", "send_wait", "send_wait_woken", "send_complete",
                        "send_complete_woken", "send_remove"}

(* Those who use a reference to end e: callers and jobs, the object that opened
   or accepted the connection, and rpcs::conns_. *)
Users(e) == {t \in Thread : On(t) = e /\ t[2] # Closer /\ at[t] \notin {"out", "over", "kept"}}
Owned(e) == (e = Client /\ chan = "open") \/ (e = Server /\ listener)
Saved(e) == e = Server /\ conns = "this"
Holders(e) ==
  Cardinality(Users(e)) + (IF Owned(e) THEN 1 ELSE 0) + (IF Saved(e) THEN 1 ELSE 0)

(* The jobs that have returned with their reference still counted. *)
Leaked(e) == {t \in Thread : On(t) = e /\ at[t] = "kept"}

(* The peer of e will not read what e sends, and has not told it: read_cb gave
   the connection up without closing the socket. *)
Deaf(e) == dead[e] /\ ~Gone(e)

ClosedByOwner(e) == at[Destroyer(e)] \in {"close_remove", "closed", "over"}

(* Whatever the interleaving of senders, partial writes, partial reads and
   refusals, got_pdu is given exactly the PDUs that send accepted, whole, in
   the order in which send started to write them. *)
Framing ==
  \A e \in Fd : \A i \in DOMAIN got[e] :
    i <= Len(order[Peer(e)]) /\ got[e][i] = Pdu(order[Peer(e)][i])

(* "A connection object is deleted only when the underlying connection is dead
   and the reference count reaches zero": nobody has it, writes on it, watches
   it, or is about to call it back; ~connection finds no PDU unsent, and select
   is never given a closed descriptor. *)
DeletedUnused ==
  \A e \in Fd : deleted[e] =>
    /\ dead[e] /\ Holders(e) = 0 /\ wpdu[e].buf = NoThread
    /\ \A t \in Thread : On(t) = e => ~InSend(t) /\ removing[t] = "no"
    /\ e \notin rfds \cup wfds \cup callbacks
    /\ loop = "select" => e \notin readable \cup writable
    /\ calling \cap {<<"read", e>>, <<"write", e>>} = {}

(* incref and decref balance: refno_ is the number of callers, jobs and tables
   that have the connection. *)
RefBalanced == \A e \in Fd : refno[e] = Holders(e)

(* They balance in every interleaving of calls, jobs, reconnections, refusals and
   destructors but for one path: each answered request for an old instance, which
   dispatch returns from without decref, leaves one reference that nobody has, and
   which keeps the connection for ever.  No other path leaks, or drops twice. *)
RefExact == \A e \in Fd : refno[e] = Holders(e) + Cardinality(Leaked(e))

(* VERIFY(errno != EAGAIN) of readpdu: when read_cb starts on a PDU, there is
   something to read, although select saw it some callbacks ago. *)
ReadFindsData ==
  \A e \in Fd : calling = {<<"read", e>>} /\ ~dead[e] /\ rpdu[e] = <<>> => e \in Readable

(* block_remove_fd: "the return guarantees that callbacks related to fd will
   never be called again". *)
RemovedForGood ==
  [][/\ callbacks' \subseteq callbacks
     /\ calling' \subseteq {"read", "write"} \X callbacks']_vars

(* A thread in closeconn or block_remove_fd, and one in send unless closeconn is
   called meanwhile or the peer has become deaf. *)
MustReturn(t) ==
  \/ at[t] \in {"send_remove", "close_remove"}
  \/ InSend(t) /\ ~ClosedByOwner(On(t)) /\ ~Deaf(Peer(On(t)))

(* These threads return: a sender that waits for its turn, or for the rest of
   its PDU to be written, is woken whatever happens to the connection, and the
   poll thread comes out of select for every block_remove_fd. *)
LibraryReturns ==
  (\E t \in Thread : MustReturn(t)) ~> (crashed \/ \A t \in Thread : ~MustReturn(t))
=============================================================================
