----------------------------- MODULE Connection -----------------------------
(***************************************************************************)
(* class connection of rpc/connection.cc: the two ends of one TCP          *)
(* connection, each an object with its own lock m_, written by threads in  *)
(* send and by the poll thread in write_cb, and read by the poll thread in *)
(* read_cb.  Both ends are in one process, as in rpctest, and share its    *)
(* PollMgr.  A step is what a thread does between taking m_ and releasing  *)
(* it or waiting.  Bytes are grouped into units <<t, k>>: the k-th part of *)
(* the PDU that thread t sends.                                            *)
(***************************************************************************)
EXTENDS PollMgr, Sequences, FiniteSetsExt

CONSTANTS NoThread,
          Size,          \* units of the PDU of each thread; the first holds the size
          SocketBuffer,  \* units the kernel holds for each direction
          Lossy          \* ends with lossy_: their send may shut the socket down

ASSUME SizeAssumption ==
  /\ SocketBuffer \in Nat \ {0}
  /\ Size \in [Thread -> Nat]
  /\ \A t \in Thread : t[1] \in Fd /\ Size[t] > 1
  /\ Lossy \subseteq Fd /\ Cardinality(Fd) = 2 /\ NoThread \notin Thread

VARIABLES dead,          \* dead_ of each end
          wpdu, rpdu,    \* wpdu_, and the units read so far into rpdu_
          refno,         \* refno_
          deleted,       \* ~connection has run, and closed the descriptor
          at,            \* where each thread is in send or closeconn
          shut, wire,    \* the sockets: shut down; units written, not yet read
          crashed,       \* a VERIFY failed, which ends the process
          order, got     \* history: PDUs accepted by send, PDUs given to got_pdu

objVars == <<dead, wpdu, rpdu, refno, deleted>>
netVars == <<shut, wire>>
connVars == <<objVars, at, netVars, crashed, order, got>>

Idle == [buf |-> NoThread, sz |-> 0, solong |-> 0]
Unit == Thread \X Nat
Pdu(t) == [k \in 1 .. Size[t] |-> <<t, k>>]

On(t) == t[1]
Peer(e) == CHOOSE f \in Fd : f # e

Places == {"out", "send", "send_wait", "send_wait_woken", "send_complete",
           "send_complete_woken", "send_remove", "sent", "failed",
           "close_remove", "closed",
           "dispatch", "handler", "over", "kept"}

connTypeOK ==
  /\ dead \in [Fd -> BOOLEAN] /\ deleted \in [Fd -> BOOLEAN]
  /\ wpdu \in [Fd -> [buf : Thread \cup {NoThread}, sz : Nat, solong : Int]]
  /\ \A e \in Fd : wpdu[e].solong \in -1 .. wpdu[e].sz
  /\ rpdu \in [Fd -> Seq(Unit)]
  /\ \A e \in Fd : rpdu[e] # <<>> => Len(rpdu[e]) <= Size[rpdu[e][1][1]]
  /\ refno \in [Fd -> Nat]
  /\ at \in [Thread -> Places]
  /\ shut \in [Fd -> BOOLEAN]
  /\ wire \in [Fd -> Seq(Unit)] /\ \A e \in Fd : Len(wire[e]) <= SocketBuffer
  /\ crashed \in BOOLEAN
  /\ order \in [Fd -> Seq(Thread)] /\ got \in [Fd -> Seq(Seq(Unit))]

connInit ==
  /\ dead = [e \in Fd |-> FALSE] /\ deleted = [e \in Fd |-> FALSE]
  /\ wpdu = [e \in Fd |-> Idle] /\ rpdu = [e \in Fd |-> <<>>]
  /\ refno = [e \in Fd |-> 1]
  /\ at = [t \in Thread |-> "out"]
  /\ shut = [e \in Fd |-> FALSE] /\ wire = [e \in Fd |-> <<>>]
  /\ crashed = FALSE
  /\ order = [e \in Fd |-> <<>>] /\ got = [e \in Fd |-> <<>>]

-----------------------------------------------------------------------------
(* The sockets *)

Gone(e) == shut[e] \/ deleted[e]
Room(e) == SocketBuffer - Len(wire[e])

Readable == {e \in Fd : ~deleted[e] /\ (wire[Peer(e)] # <<>> \/ Gone(e) \/ Gone(Peer(e)))}
Writable == {e \in Fd : ~deleted[e] /\ (Room(e) > 0 \/ Gone(e) \/ Gone(Peer(e)))}

(* writepdu by end e, of w: write fails on a socket that is shut down at either
   end, and takes what there is room for, or nothing (EAGAIN), on another. *)
writepdu(e, w, down) ==
  LET n == Min({Room(e), w.sz - w.solong}) IN
  IF down \/ Gone(Peer(e))
  THEN [ok |-> FALSE, wpdu |-> [w EXCEPT !.solong = -1, !.sz = 0], wire |-> wire[e]]
  ELSE [ok |-> TRUE, wpdu |-> [w EXCEPT !.solong = @ + n],
        wire |-> wire[e] \o SubSeq(Pdu(w.buf), w.solong + 1, w.solong + n)]

(* readpdu by end e: what the one or two calls of read can do.  A read takes
   any part of what has arrived.  At the end of the stream the second read
   leaves errno as it was, so that the PDU is dropped or still waited for. *)
Ended(e) == Gone(e) \/ Gone(Peer(e))

ReadBody(e, r, w) ==
  {[ok |-> TRUE, rpdu |-> r \o SubSeq(w, 1, n), wire |-> SubSeq(w, n + 1, Len(w))] :
     n \in 1 .. Min({Size[r[1][1]] - Len(r), Len(w)})}
  \cup (IF w = <<>> THEN {[ok |-> TRUE, rpdu |-> r, wire |-> w]} ELSE {})
  \cup (IF w = <<>> /\ Ended(e) THEN {[ok |-> FALSE, rpdu |-> <<>>, wire |-> w]} ELSE {})

(* The header is one unit, but read may return a part of it, which is a
   failure. *)
ReadHeader(e, w) ==
  (IF w = <<>> THEN {} ELSE ReadBody(e, <<Head(w)>>, Tail(w)))
  \cup (IF w # <<>> \/ Ended(e) THEN {[ok |-> FALSE, rpdu |-> <<>>, wire |-> w]} ELSE {})

Complete(r) == r # <<>> /\ Len(r) = Size[r[1][1]]

readpdu(e) ==
  LET w == wire[Peer(e)] IN
  IF Complete(rpdu[e]) THEN {[ok |-> TRUE, rpdu |-> rpdu[e], wire |-> w]}
  ELSE IF rpdu[e] = <<>> THEN ReadHeader(e, w) ELSE ReadBody(e, rpdu[e], w)

-----------------------------------------------------------------------------
(* send *)

Move(t, p) == at' = [at EXCEPT ![t] = p]

(* The end of send: the next sender may start. *)
SendReturns(t, ok) ==
  /\ at' = [u \in Thread |->
              IF u = t THEN (IF ok THEN "sent" ELSE "failed")
              ELSE IF On(u) = On(t) /\ at[u] = "send_wait" THEN "send_wait_woken" ELSE at[u]]
  /\ wpdu' = [wpdu EXCEPT ![On(t)] = Idle]

SendBegins(t) == at[t] \in {"send", "send_wait_woken"}

(* wpdu_.buf is set: another thread's PDU is being written. *)
BusyMutant(e) == FALSE
Busy(e) == wpdu[e].buf # NoThread

SendOnDead(t) ==
  /\ SendBegins(t) /\ dead[On(t)]
  /\ Move(t, "failed")
  /\ UNCHANGED <<pollVars, objVars, netVars, crashed, order, got>>

SendWaits(t) ==
  /\ SendBegins(t) /\ ~dead[On(t)]
  /\ Busy(On(t))
  /\ Move(t, "send_wait")
  /\ UNCHANGED <<pollVars, objVars, netVars, crashed, order, got>>

SendWrites(t) ==
  LET e == On(t) IN
  /\ SendBegins(t) /\ ~dead[e]
  /\ ~Busy(e)
  /\ order' = [order EXCEPT ![e] = Append(@, t)]
  /\ \E lose \in (IF e \in Lossy THEN BOOLEAN ELSE {FALSE}) :
     LET r == writepdu(e, [buf |-> t, sz |-> Size[t], solong |-> 0], lose \/ shut[e]) IN
       /\ shut' = [shut EXCEPT ![e] = @ \/ lose]
       /\ wire' = [wire EXCEPT ![e] = r.wire]
       /\ dead' = [dead EXCEPT ![e] = ~r.ok]
       /\ IF r.ok /\ r.wpdu.solong = r.wpdu.sz
          THEN SendReturns(t, TRUE) /\ UNCHANGED pollVars
          ELSE /\ wpdu' = [wpdu EXCEPT ![e] = r.wpdu]
               /\ IF r.ok THEN /\ Move(t, "send_complete")
                               /\ add_callback(e)
                               /\ UNCHANGED <<loop, readable, writable, calling>>
                  ELSE Move(t, "send_remove") /\ UNCHANGED pollVars
  /\ UNCHANGED <<rpdu, refno, deleted, crashed, got>>

(* After the wait for send_complete_, or after block_remove_fd. *)
SendCompletes(t) ==
  LET w == wpdu[On(t)] IN
  /\ at[t] = "send_complete_woken"
  /\ IF dead[On(t)] \/ w.solong < 0 \/ w.solong >= w.sz
     THEN SendReturns(t, ~dead[On(t)] /\ w.solong = w.sz)
     ELSE Move(t, "send_complete") /\ UNCHANGED wpdu
  /\ UNCHANGED <<pollVars, dead, rpdu, refno, deleted, netVars, crashed, order, got>>

-----------------------------------------------------------------------------
(* closeconn, called by a destructor *)

CloseConn(t) ==
  LET e == On(t) IN
  /\ IF dead[e] THEN Move(t, "closed") /\ UNCHANGED <<dead, shut>>
     ELSE /\ dead' = [dead EXCEPT ![e] = TRUE]
          /\ shut' = [shut EXCEPT ![e] = TRUE]
          /\ Move(t, "close_remove")
  /\ UNCHANGED <<pollVars, wpdu, rpdu, refno, deleted, wire, crashed, order, got>>

-----------------------------------------------------------------------------
(* block_remove_fd, called without m_ by send after a failed write, and by
   closeconn. *)
RemoveStarts(t) ==
  /\ at[t] \in {"send_remove", "close_remove"}
  /\ StartRemove(t, On(t))
  /\ UNCHANGED connVars

RemoveReturns(t) ==
  /\ at[t] \in {"send_remove", "close_remove"}
  /\ EndRemove(t, On(t))
  /\ IF at[t] = "send_remove" THEN SendReturns(t, FALSE)
     ELSE Move(t, "closed") /\ UNCHANGED wpdu
  /\ UNCHANGED <<dead, rpdu, refno, deleted, netVars, crashed, order, got>>

-----------------------------------------------------------------------------
(* The poll thread *)

(* pthread_cond_signal(&send_complete_): one sender at most waits for it. *)
SignalComplete(e) ==
  at' = [t \in Thread |-> IF On(t) = e /\ at[t] = "send_complete"
                          THEN "send_complete_woken" ELSE at[t]]

PollStep ==
  /\ Top \/ WaitReady \/ Select(Readable, Writable) \/ Fetch
  /\ UNCHANGED connVars

(* The VERIFY of write_cb fails. *)
WriteCbAborts(e) ==
  /\ CalledBack("write", e) /\ dead[e]
  /\ crashed' = TRUE
  /\ UNCHANGED <<watchVars, objVars, at, netVars, order, got>>

WriteCb(e) ==
  /\ CalledBack("write", e) /\ ~dead[e]
  /\ IF wpdu[e].sz = 0
     THEN del_callback(e, "CB_WRONLY") /\ UNCHANGED <<dead, wpdu, wire, at>>
     ELSE LET r == writepdu(e, wpdu[e], shut[e]) IN
            /\ wpdu' = [wpdu EXCEPT ![e] = r.wpdu]
            /\ wire' = [wire EXCEPT ![e] = r.wire]
            /\ dead' = [dead EXCEPT ![e] = ~r.ok]
            /\ IF r.ok THEN UNCHANGED watchVars ELSE del_callback(e, "CB_RDWR")
            /\ IF r.ok /\ r.wpdu.solong < r.wpdu.sz THEN UNCHANGED at ELSE SignalComplete(e)
  /\ UNCHANGED <<rpdu, refno, deleted, shut, crashed, order, got>>

(* read_cb of an end that is dead does nothing. *)
ReadCbDead(e) ==
  /\ CalledBack("read", e) /\ dead[e]
  /\ UNCHANGED <<watchVars, connVars>>

(* read_cb, with r the outcome of readpdu; taken says whether got_pdu consumes
   the PDU, if it is complete. *)
ReadCb(e, r, taken) ==
  LET consumed == Complete(r.rpdu) /\ taken IN
  /\ CalledBack("read", e) /\ ~dead[e]
  /\ wire' = [wire EXCEPT ![Peer(e)] = r.wire]
  /\ dead' = [dead EXCEPT ![e] = ~r.ok]
  /\ IF r.ok THEN UNCHANGED watchVars ELSE del_callback(e, "CB_RDWR")
  /\ rpdu' = [rpdu EXCEPT ![e] = IF consumed THEN <<>> ELSE r.rpdu]
  /\ got' = IF consumed THEN [got EXCEPT ![e] = Append(@, r.rpdu)] ELSE got
  /\ UNCHANGED <<wpdu, deleted, shut, crashed, order>>

-----------------------------------------------------------------------------
(* incref; decref, and ~connection when it is the last *)
IncRef(e) == refno' = [refno EXCEPT ![e] = @ + 1]

DecRef(e) ==
  /\ refno' = [refno EXCEPT ![e] = @ - 1]
  /\ deleted' = [deleted EXCEPT ![e] = refno[e] = 1 /\ dead[e]]
=============================================================================
