---------------------------- MODULE StreamProofs ----------------------------
(***************************************************************************)
(* What TransportProofs rests on: the inductive invariant of Transport,    *)
(* how the steps of PollMgr and Connection keep the parts of it about the  *)
(* descriptors that the poll thread may still call back and about the      *)
(* stream of PDUs from one end to the other, and how the steps of the      *)
(* threads that change no reference count keep all of it, for any number   *)
(* of calls, any sizes of PDUs and any size of the sockets' buffers.       *)
(***************************************************************************)
EXTENDS Transport, TLAPS

(* The leaves are for Zenon, unless they cite SMT. *)
USE Zenon

(* A number and the next one. *)
LEMMA NextNumber ==
  ASSUME NEW n \in Nat, NEW m, m = n + 1
  PROVE  n <= m /\ m # 0 /\ \A i \in 1 .. n + 1 : i \in 1 .. n \/ i = n + 1
BY SMT

(* Sequences *)

(* The length and the domain of a sequence. *)
LEMMA SeqLength ==
  ASSUME NEW S, NEW s \in Seq(S)
  PROVE  Len(s) \in Nat /\ DOMAIN s = 1..Len(s) /\ s \in [1..Len(s) -> S]
BY SMT

(* The elements of a sequence. *)
LEMMA SeqElement ==
  ASSUME NEW S, NEW s \in Seq(S), NEW i \in 1..Len(s)
  PROVE  s[i] \in S
BY SMT

(* The empty sequence, and the others. *)
LEMMA SeqEmpty ==
  ASSUME NEW S
  PROVE  <<>> \in Seq(S) /\ Len(<<>>) = 0 /\ \A s \in Seq(S) : s # <<>> => Len(s) \in Nat \ {0}
BY SMT

(* Sequences with the same elements are equal. *)
LEMMA SeqSame ==
  ASSUME NEW S, NEW s \in Seq(S), NEW r \in Seq(S), Len(s) = Len(r),
         \A i \in 1..Len(s) : s[i] = r[i]
  PROVE  s = r
BY SMT

(* What Append makes. *)
LEMMA SeqAppend ==
  ASSUME NEW S, NEW s \in Seq(S), NEW x \in S
  PROVE  /\ Append(s, x) \in Seq(S) /\ Append(s, x) # <<>>
         /\ Len(Append(s, x)) = Len(s) + 1 /\ Append(s, x)[Len(s) + 1] = x
         /\ \A i \in 1..Len(s) : Append(s, x)[i] = s[i]
BY SMT

(* r is s and x after it. *)
Longer(r, s, x) ==
  /\ Len(r) = Len(s) + 1 /\ Len(s) \in Nat /\ r[Len(s) + 1] = x
  /\ \A i \in 1..Len(s) : r[i] = s[i]

(* Append makes it. *)
LEMMA Appended ==
  ASSUME NEW S, NEW s \in Seq(S), NEW x \in S
  PROVE  Longer(Append(s, x), s, x)
BY SMT DEF Longer

(* What Head and Tail return. *)
LEMMA SeqTail ==
  ASSUME NEW S, NEW s \in Seq(S), s # <<>>
  PROVE  /\ Head(s) \in S /\ Tail(s) \in Seq(S) /\ Len(Tail(s)) = Len(s) - 1
         /\ \A i \in 1..Len(Tail(s)) : Tail(s)[i] = s[i + 1]
BY SMT

(* What SubSeq returns. *)
LEMMA SeqSub ==
  ASSUME NEW S, NEW s, NEW a \in Int, NEW b \in Int, \A i \in a..b : s[i] \in S
  PROVE  /\ SubSeq(s, a, b) \in Seq(S)
         /\ Len(SubSeq(s, a, b)) = IF a <= b THEN b - a + 1 ELSE 0
         /\ \A i \in 1..b - a + 1 : SubSeq(s, a, b)[i] = s[a + i - 1]
BY SMT

(* A part that ends before it begins is empty. *)
LEMMA SubNothing ==
  ASSUME NEW s, NEW a \in Int, NEW b \in Int, b < a
  PROVE  SubSeq(s, a, b) = <<>>
BY SMT

(* What a concatenation holds. *)
LEMMA SeqConcat ==
  ASSUME NEW S, NEW s \in Seq(S), NEW r \in Seq(S)
  PROVE  /\ s \o r \in Seq(S) /\ Len(s \o r) = Len(s) + Len(r)
         /\ \A i \in 1..Len(s) + Len(r) :
              (s \o r)[i] = IF i <= Len(s) THEN s[i] ELSE r[i - Len(s)]
BY SMT

(* The empty sequence adds nothing. *)
LEMMA ConcatNothing ==
  ASSUME NEW S, NEW s \in Seq(S)
  PROVE  s \o <<>> = s /\ <<>> \o s = s
BY SMT

(* Two adjacent parts make one. *)
LEMMA SubAdjacent ==
  ASSUME NEW S, NEW s \in Seq(S), NEW a \in 1..Len(s) + 1, NEW b \in a - 1..Len(s),
         NEW c \in b..Len(s)
  PROVE  SubSeq(s, a, b) \o SubSeq(s, b + 1, c) = SubSeq(s, a, c)
BY SMT

-----------------------------------------------------------------------------
(* Each end is the other's peer. *)
LEMMA Ends ==
  /\ Client \in Fd /\ Server \in Fd /\ Client # Server
  /\ Peer(Client) = Server /\ Peer(Server) = Client
  /\ \A e \in Fd : /\ Peer(e) \in Fd /\ Peer(e) # e /\ Peer(Peer(e)) = e
                   /\ \A f \in Fd : f = e \/ f = Peer(e)
<1>1. Fd = {Client, Server} /\ Client # Server
  BY EndsAssumption
<1>2. \A f \in Fd : f # Client <=> f = Server
  BY <1>1
<1>3. \A f \in Fd : f # Server <=> f = Client
  BY <1>1
<1>4. Peer(Client) = Server
  <2>1. \E f \in Fd : f # Client
    BY <1>1
  <2>2. Peer(Client) \in Fd /\ Peer(Client) # Client
    BY <2>1 DEF Peer
  <2> QED BY <1>2, <2>2
<1>5. Peer(Server) = Client
  <2>1. \E f \in Fd : f # Server
    BY <1>1
  <2>2. Peer(Server) \in Fd /\ Peer(Server) # Server
    BY <2>1 DEF Peer
  <2> QED BY <1>3, <2>2
<1> QED BY <1>1, <1>4, <1>5

(* A thread belongs to one end, and to a call or to the end's destructor. *)
LEMMA Threads ==
  /\ \A t \in Thread : On(t) \in Fd /\ t = <<On(t), t[2]>> /\ t[2] \in Call \cup {Closer}
  /\ \A e \in Fd, x \in Call \cup {Closer} : /\ <<e, x>> \in Thread
                                             /\ On(<<e, x>>) = e /\ <<e, x>>[2] = x
  /\ \A e \in Fd : Destroyer(e) \in Thread /\ On(Destroyer(e)) = e
  /\ \A x \in Call : /\ Caller(x) \in Thread /\ On(Caller(x)) = Client
                     /\ Job(x) \in Thread /\ On(Job(x)) = Server
<1>1. Thread = Fd \X (Call \cup {Closer})
  BY EndsAssumption
<1>2. \A e \in Fd, x \in Call \cup {Closer} : /\ <<e, x>> \in Thread
                                              /\ On(<<e, x>>) = e /\ <<e, x>>[2] = x
  BY <1>1 DEF On
<1>3. \A t \in Thread : On(t) \in Fd /\ t = <<On(t), t[2]>> /\ t[2] \in Call \cup {Closer}
  BY <1>1, SMT DEF On
<1> QED BY <1>2, <1>3, Ends DEF Destroyer, Caller, Job

-----------------------------------------------------------------------------
(* Where threads are *)

(* u is where it was, or has been signalled. *)
Woken(u) ==
  \/ at'[u] = at[u]
  \/ at[u] = "send_wait" /\ at'[u] = "send_wait_woken"
  \/ at[u] = "send_complete" /\ at'[u] = "send_complete_woken"

(* Nobody moves but t. *)
Others(t) == at' \in [Thread -> Places] /\ \A u \in Thread : u # t => Woken(u)

(* Nobody moves. *)
Still == at' \in [Thread -> Places] /\ \A u \in Thread : Woken(u)

Removers == {"send_remove", "close_remove"}
Writers == {"send_complete", "send_complete_woken", "send_remove"}
Begun == {"send_complete", "send_complete_woken", "send_remove", "sent", "failed", "over", "kept"}

(* What Move does. *)
LEMMA Moved ==
  ASSUME at \in [Thread -> Places], NEW t \in Thread, NEW p \in Places, Move(t, p)
  PROVE  Others(t) /\ at'[t] = p /\ \A u \in Thread : u # t => at'[u] = at[u]
BY DEF Move, Others, Woken

(* What the end of send does. *)
LEMMA Returned ==
  ASSUME at \in [Thread -> Places], NEW t \in Thread, NEW ok \in BOOLEAN, SendReturns(t, ok)
  PROVE  Others(t) /\ at'[t] \in {"sent", "failed"}
<1>1. at' = [u \in Thread |->
              IF u = t THEN (IF ok THEN "sent" ELSE "failed")
              ELSE IF On(u) = On(t) /\ at[u] = "send_wait" THEN "send_wait_woken" ELSE at[u]]
  BY DEF SendReturns
<1>2. at'[t] \in {"sent", "failed"}
  BY <1>1
<1>3. ASSUME NEW u \in Thread, u # t PROVE Woken(u) /\ at'[u] \in Places
  <2>1. at'[u] = IF On(u) = On(t) /\ at[u] = "send_wait" THEN "send_wait_woken" ELSE at[u]
    BY <1>1, <1>3
  <2> QED BY <2>1 DEF Woken, Places
<1>4. at' \in [Thread -> Places]
  BY <1>1, <1>2, <1>3 DEF Places
<1> QED BY <1>2, <1>3, <1>4 DEF Others

(* What the signal on send_complete_ does. *)
LEMMA Signalled ==
  ASSUME at \in [Thread -> Places], NEW e, SignalComplete(e)
  PROVE  Still
<1>1. at' = [t \in Thread |-> IF On(t) = e /\ at[t] = "send_complete"
                              THEN "send_complete_woken" ELSE at[t]]
  BY DEF SignalComplete
<1>2. ASSUME NEW u \in Thread PROVE Woken(u) /\ at'[u] \in Places
  <2>1. at'[u] = IF On(u) = e /\ at[u] = "send_complete" THEN "send_complete_woken" ELSE at[u]
    BY <1>1
  <2> QED BY <2>1 DEF Woken, Places
<1>3. at' \in [Thread -> Places]
  BY <1>1, <1>2 DEF Places
<1> QED BY <1>2, <1>3 DEF Still

(* A thread that is signalled stays a writer, or none, and so on. *)
LEMMA SameRole ==
  ASSUME NEW u, Woken(u)
  PROVE  /\ at'[u] \in Removers <=> at[u] \in Removers
         /\ at'[u] \in Writers <=> at[u] \in Writers
         /\ at'[u] \in Begun <=> at[u] \in Begun
         /\ \A p \in {"out", "over", "closed", "close_remove", "send_remove", "sent", "failed",
                      "dispatch", "handler", "kept"} : at'[u] = p <=> at[u] = p
BY DEF Woken, Removers, Writers, Begun
-----------------------------------------------------------------------------
(* The poll thread and those who remove a descriptor *)

(* The poll thread knows nothing of e, and cannot find it again. *)
Removed(e) ==
  /\ e \notin rfds \cup wfds \cup callbacks
  /\ loop = "select" => e \notin readable \cup writable

(* The poll thread is about to do nothing with e. *)
Quiet(e) ==
  /\ e \notin readable \cup writable
  /\ <<"read", e>> \notin calling /\ <<"write", e>> \notin calling

(* A live end is watched; a dead one is not, or is being removed by the thread
   that found it dead. *)
Watched(e) ==
  /\ ~dead[e] => e \in rfds /\ e \in callbacks
  /\ dead[e] => Removed(e) \/ \E t \in Thread : On(t) = e /\ at[t] \in Removers

(* The thread in block_remove_fd, for which the poll thread makes way. *)
Remover(t) ==
  /\ at[t] \in Removers => dead[On(t)]
  /\ removing[t] # "no" => at[t] \in Removers /\ On(t) \notin rfds \cup wfds
  /\ removing[t] = "woken" => Quiet(On(t))

InvWatched ==
  /\ at \in [Thread -> Places] /\ removing \in [Thread -> {"no", "waiting", "woken"}]
  /\ dead \in [Fd -> BOOLEAN]
  /\ calling # {} => loop = "callbacks"
  /\ calling \subseteq {"read", "write"} \X callbacks
  /\ \A e \in Fd : Watched(e)
  /\ \A t \in Thread : Remover(t)

(* Nothing the poll thread knows of, nobody starts or ends a removal. *)
LEMMA SameWatched ==
  ASSUME InvWatched, UNCHANGED <<pollVars, dead>>, at' \in [Thread -> Places],
         \A u \in Thread : at'[u] \in Removers <=> at[u] \in Removers
  PROVE  InvWatched'
<1>1. UNCHANGED <<rfds, wfds, callbacks, removing, loop, readable, writable, calling, dead>>
  BY DEF pollVars
<1>2. ASSUME NEW e \in Fd PROVE Watched(e)'
  BY <1>1 DEF InvWatched, Watched, Removed
<1>3. ASSUME NEW t \in Thread PROVE Remover(t)'
  BY <1>1 DEF InvWatched, Remover, Quiet
<1> QED BY <1>1, <1>2, <1>3 DEF InvWatched

(* Thread t goes from one place outside block_remove_fd to another. *)
LEMMA MovedWatched ==
  ASSUME InvWatched, UNCHANGED <<pollVars, dead>>, NEW t \in Thread, Others(t),
         at[t] \notin Removers, at'[t] \notin Removers
  PROVE  InvWatched'
<1>1. ASSUME NEW u \in Thread PROVE at'[u] \in Removers <=> at[u] \in Removers
  BY SameRole DEF Others
<1> QED BY <1>1, SameWatched DEF Others

(* Thread t finds its end dead, or closes it, and will remove it. *)
LEMMA DiedWatched ==
  ASSUME InvWatched, UNCHANGED pollVars, NEW t \in Thread, Others(t),
         ~dead[On(t)], at'[t] \in Removers, dead' = [dead EXCEPT ![On(t)] = TRUE]
  PROVE  InvWatched'
<1>1. UNCHANGED <<rfds, wfds, callbacks, removing, loop, readable, writable, calling>>
  BY DEF pollVars
<1>2. On(t) \in Fd
  BY Threads
<1>3. dead' \in [Fd -> BOOLEAN] /\ dead'[On(t)] /\ \A f \in Fd : f # On(t) => dead'[f] = dead[f]
  BY <1>2 DEF InvWatched
<1>4. ASSUME NEW u \in Thread, u # t PROVE at'[u] \in Removers <=> at[u] \in Removers
  BY <1>4, SameRole DEF Others
<1>5. ASSUME NEW e \in Fd PROVE Watched(e)'
  <2>1. CASE e = On(t)
    BY <2>1, <1>3 DEF Watched
  <2>2. CASE e # On(t)
    BY <2>2, <1>1, <1>3, <1>4 DEF InvWatched, Watched, Removed
  <2> QED BY <2>1, <2>2
<1>6. ASSUME NEW u \in Thread PROVE Remover(u)'
  <2>0. Remover(u) /\ On(u) \in Fd
    BY Threads DEF InvWatched
  <2>1. CASE u = t
    BY <2>0, <2>1, <1>1, <1>3 DEF Remover, Quiet
  <2>2. CASE u # t
    <3>1. dead[On(u)] => dead'[On(u)]
      BY <2>0, <1>3
    <3> QED BY <3>1, <2>0, <2>2, <1>1, <1>4 DEF Remover, Quiet
  <2> QED BY <2>1, <2>2
<1> QED BY <1>1, <1>3, <1>5, <1>6 DEF InvWatched, Others

(* block_remove_fd, up to its wait. *)
LEMMA RemoveStartsWatched ==
  ASSUME InvWatched, NEW t \in Thread, RemoveStarts(t)
  PROVE  InvWatched'
<1>1. /\ UNCHANGED <<callbacks, loop, readable, writable, calling, dead, at>>
      /\ at[t] \in Removers /\ removing[t] = "no"
      /\ wfds' = wfds \ {On(t)} /\ rfds' = rfds \ {On(t)}
      /\ removing' = [removing EXCEPT ![t] = "waiting"]
  BY DEF RemoveStarts, StartRemove, unwatch_fd, connVars, objVars, Removers
<1>2. removing' \in [Thread -> {"no", "waiting", "woken"}] /\ removing'[t] = "waiting"
      /\ \A u \in Thread : u # t => removing'[u] = removing[u]
  BY <1>1 DEF InvWatched
<1>3. dead[On(t)]
  BY <1>1 DEF InvWatched, Remover
<1>4. ASSUME NEW e \in Fd PROVE Watched(e)'
  <2>1. CASE e = On(t)
    BY <2>1, <1>1, <1>3 DEF Watched
  <2>2. CASE e # On(t)
    BY <2>2, <1>1 DEF InvWatched, Watched, Removed
  <2> QED BY <2>1, <2>2
<1>5. ASSUME NEW u \in Thread PROVE Remover(u)'
  <2>1. CASE u = t
    BY <2>1, <1>1, <1>2, <1>3 DEF Remover
  <2>2. CASE u # t
    BY <2>2, <1>1, <1>2 DEF InvWatched, Remover, Quiet
  <2> QED BY <2>1, <2>2
<1> QED BY <1>1, <1>2, <1>4, <1>5 DEF InvWatched

(* block_remove_fd returns: the poll thread has been at the top of its loop, and
   has not found the descriptor since. *)
LEMMA RemoveReturnsWatched ==
  ASSUME InvWatched, NEW t \in Thread, RemoveReturns(t)
  PROVE  InvWatched'
<1>1. /\ UNCHANGED <<rfds, wfds, loop, readable, writable, calling, dead>>
      /\ at[t] \in Removers /\ removing[t] = "woken"
      /\ callbacks' = callbacks \ {On(t)}
      /\ removing' = [removing EXCEPT ![t] = "no"]
  BY DEF RemoveReturns, EndRemove, Removers
<1>2. removing' \in [Thread -> {"no", "waiting", "woken"}] /\ removing'[t] = "no"
      /\ \A u \in Thread : u # t => removing'[u] = removing[u]
  BY <1>1 DEF InvWatched
<1>3. Others(t) /\ at'[t] \notin Removers
  <2>0. at \in [Thread -> Places]
    BY DEF InvWatched
  <2>1. CASE at[t] = "send_remove"
    <3>1. SendReturns(t, FALSE)
      BY <2>1 DEF RemoveReturns
    <3>2. Others(t) /\ at'[t] \in {"sent", "failed"}
      BY <2>0, <3>1, Returned
    <3> QED BY <3>2 DEF Removers
  <2>2. CASE at[t] # "send_remove"
    <3>1. Move(t, "closed") /\ "closed" \in Places
      BY <2>2 DEF RemoveReturns, Places
    <3>2. Others(t) /\ at'[t] = "closed"
      BY <2>0, <3>1, Moved
    <3> QED BY <3>2 DEF Removers
  <2> QED BY <2>1, <2>2
<1>4. dead[On(t)] /\ On(t) \notin rfds \cup wfds /\ Quiet(On(t)) /\ On(t) \in Fd
  <2>1. Remover(t)
    BY DEF InvWatched
  <2>2. removing[t] # "no"
    BY <1>1
  <2> QED BY <1>1, <2>1, <2>2, Threads DEF Remover
<1>5. ASSUME NEW u \in Thread, u # t PROVE at'[u] \in Removers <=> at[u] \in Removers
  BY <1>3, <1>5, SameRole DEF Others
<1>6. ASSUME NEW e \in Fd PROVE Watched(e)'
  <2>0. Watched(e)
    BY DEF InvWatched
  <2>1. CASE e = On(t)
    <3>1. Removed(e)'
      BY <2>1, <1>1, <1>4 DEF Removed, Quiet
    <3> QED BY <3>1, <2>1, <1>1, <1>4 DEF Watched
  <2>2. CASE e # On(t)
    BY <2>0, <2>2, <1>1, <1>5 DEF Watched, Removed
  <2> QED BY <2>1, <2>2
<1>7. ASSUME NEW u \in Thread PROVE Remover(u)'
  <2>0. Remover(u)
    BY DEF InvWatched
  <2>1. CASE u = t
    BY <2>1, <1>2, <1>3 DEF Remover
  <2>2. CASE u # t
    BY <2>0, <2>2, <1>1, <1>2, <1>5 DEF Remover, Quiet
  <2> QED BY <2>1, <2>2
<1>8. calling' \subseteq {"read", "write"} \X callbacks'
  <2>1. calling \subseteq {"read", "write"} \X callbacks
    BY DEF InvWatched
  <2>2. <<"read", On(t)>> \notin calling /\ <<"write", On(t)>> \notin calling
    BY <1>4 DEF Quiet
  <2>3. ASSUME NEW c \in calling PROVE c \in {"read", "write"} \X callbacks'
    BY <2>1, <2>2, <1>1, SMT
  <2> QED BY <2>3, <1>1
<1> QED BY <1>1, <1>2, <1>3, <1>6, <1>7, <1>8 DEF InvWatched, Others

(* The steps of wait_loop outside the callbacks. *)
LEMMA PollStepWatched ==
  ASSUME InvWatched, PollStep
  PROVE  InvWatched'
<1>0. UNCHANGED <<dead, at>> /\ (Top \/ WaitReady \/ Select(Readable, Writable) \/ Fetch)
  BY DEF PollStep, connVars, objVars
<1>1. CASE Top
  <2>1. /\ UNCHANGED <<rfds, wfds, callbacks, readable, writable, calling>>
        /\ readable = {} /\ writable = {} /\ calling = {} /\ loop' = "wait_ready"
    BY <1>1 DEF Top
  <2>2. removing' \in [Thread -> {"no", "waiting", "woken"}]
        /\ \A t \in Thread : removing'[t] # "no" => removing[t] # "no"
    BY <1>1 DEF Top, InvWatched
  <2>3. ASSUME NEW e \in Fd PROVE Watched(e)'
    BY <2>1, <1>0 DEF InvWatched, Watched, Removed
  <2>4. ASSUME NEW t \in Thread PROVE Remover(t)'
    BY <2>1, <2>2, <1>0 DEF InvWatched, Remover, Quiet
  <2> QED BY <2>1, <2>2, <2>3, <2>4, <1>0 DEF InvWatched
<1>2. CASE WaitReady
  <2>1. /\ UNCHANGED <<rfds, wfds, callbacks, removing, calling>>
        /\ readable' = rfds /\ writable' = wfds /\ loop = "wait_ready" /\ loop' = "select"
    BY <1>2 DEF WaitReady, watchVars
  <2>2. ASSUME NEW e \in Fd PROVE Watched(e)'
    BY <2>1, <1>0 DEF InvWatched, Watched, Removed
  <2>3. ASSUME NEW t \in Thread PROVE Remover(t)'
    <3>1. removing[t] = "woken" => removing[t] # "no"
      OBVIOUS
    <3> QED BY <3>1, <2>1, <1>0 DEF InvWatched, Remover, Quiet
  <2>4. calling = {}
    BY <2>1 DEF InvWatched
  <2> QED BY <2>1, <2>2, <2>3, <2>4, <1>0 DEF InvWatched
<1>3. CASE Select(Readable, Writable)
  <2>1. /\ UNCHANGED <<rfds, wfds, callbacks, removing, calling>>
        /\ readable' \subseteq readable /\ writable' \subseteq writable
        /\ loop' = "callbacks"
    BY <1>3 DEF Select
  <2>2. ASSUME NEW e \in Fd PROVE Watched(e)'
    BY <2>1, <1>0 DEF InvWatched, Watched, Removed
  <2>3. ASSUME NEW t \in Thread PROVE Remover(t)'
    BY <2>1, <1>0 DEF InvWatched, Remover, Quiet
  <2> QED BY <2>1, <2>2, <2>3, <1>0 DEF InvWatched
<1>4. CASE Fetch
  <2>1. UNCHANGED <<rfds, wfds, callbacks, removing, loop>> /\ loop = "callbacks"
    BY <1>4 DEF Fetch, watchVars
  <2>2. \/ \E fd \in readable :
             /\ readable' = readable \ {fd}
             /\ calling' = IF fd \in callbacks THEN {<<"read", fd>>} ELSE {}
             /\ UNCHANGED writable
        \/ \E fd \in writable :
             /\ writable' = writable \ {fd}
             /\ calling' = IF fd \in callbacks THEN {<<"write", fd>>} ELSE {}
             /\ UNCHANGED readable
    BY <1>4 DEF Fetch
  <2>3. /\ readable' \subseteq readable /\ writable' \subseteq writable
        /\ \A fd : <<"read", fd>> \in calling' => fd \in readable
        /\ \A fd : <<"write", fd>> \in calling' => fd \in writable
        /\ calling' \subseteq {"read", "write"} \X callbacks
    <3>1. CASE \E fd \in readable :
                 /\ readable' = readable \ {fd}
                 /\ calling' = IF fd \in callbacks THEN {<<"read", fd>>} ELSE {}
                 /\ UNCHANGED writable
      BY <3>1, SMT
    <3>2. CASE \E fd \in writable :
                 /\ writable' = writable \ {fd}
                 /\ calling' = IF fd \in callbacks THEN {<<"write", fd>>} ELSE {}
                 /\ UNCHANGED readable
      BY <3>2, SMT
    <3> QED BY <2>2, <3>1, <3>2
  <2>4. ASSUME NEW e \in Fd PROVE Watched(e)'
    BY <2>1, <2>3, <1>0 DEF InvWatched, Watched, Removed
  <2>5. ASSUME NEW t \in Thread PROVE Remover(t)'
    BY <2>1, <2>3, <1>0 DEF InvWatched, Remover, Quiet
  <2> QED BY <2>1, <2>3, <2>4, <2>5, <1>0 DEF InvWatched
<1> QED BY <1>0, <1>1, <1>2, <1>3, <1>4

(* A callback returns and the connection lives, or was dead before. *)
LEMMA CalledWatched ==
  ASSUME InvWatched, NEW k, NEW e, CalledBack(k, e), UNCHANGED <<watchVars, dead>>,
         at' \in [Thread -> Places],
         \A u \in Thread : at'[u] \in Removers <=> at[u] \in Removers
  PROVE  InvWatched'
<1>1. /\ UNCHANGED <<rfds, wfds, callbacks, removing, loop, readable, writable, dead>>
      /\ calling' = {}
  BY DEF CalledBack, watchVars
<1>2. ASSUME NEW f \in Fd PROVE Watched(f)'
  BY <1>1 DEF InvWatched, Watched, Removed
<1>3. ASSUME NEW t \in Thread PROVE Remover(t)'
  BY <1>1 DEF InvWatched, Remover, Quiet
<1> QED BY <1>1, <1>2, <1>3 DEF InvWatched

(* A callback gives the connection up.  It deletes itself from the table. *)
LEMMA GivenUpWatched ==
  ASSUME InvWatched, NEW k, NEW e \in Fd, CalledBack(k, e), del_callback(e, "CB_RDWR"),
         ~dead[e], dead' = [dead EXCEPT ![e] = TRUE], Still
  PROVE  InvWatched'
<1>1. /\ UNCHANGED <<removing, loop, readable, writable>>
      /\ calling # {} /\ calling' = {}
      /\ rfds' = rfds \ {e} /\ wfds' = wfds \ {e} /\ callbacks' = callbacks \ {e}
  BY DEF CalledBack, del_callback, unwatch_fd
<1>2. dead' \in [Fd -> BOOLEAN] /\ dead'[e] /\ \A f \in Fd : f # e => dead'[f] = dead[f]
  BY DEF InvWatched
<1>3. ASSUME NEW u \in Thread PROVE at'[u] \in Removers <=> at[u] \in Removers
  BY SameRole DEF Still
<1>4. loop = "callbacks"
  BY <1>1 DEF InvWatched
<1>5. ASSUME NEW f \in Fd PROVE Watched(f)'
  <2>1. CASE f = e
    <3>1. Removed(e)'
      BY <1>1, <1>4 DEF Removed
    <3> QED BY <2>1, <3>1, <1>2 DEF Watched
  <2>2. CASE f # e
    BY <2>2, <1>1, <1>2, <1>3 DEF InvWatched, Watched, Removed
  <2> QED BY <2>1, <2>2
<1>6. ASSUME NEW t \in Thread PROVE Remover(t)'
  <2>0. Remover(t) /\ On(t) \in Fd
    BY Threads DEF InvWatched
  <2>1. dead[On(t)] => dead'[On(t)]
    BY <2>0, <1>2
  <2> QED BY <2>0, <2>1, <1>1, <1>3 DEF Remover, Quiet
<1> QED BY <1>1, <1>2, <1>5, <1>6 DEF InvWatched, Still

(* write_cb with nothing to write stops watching for room. *)
LEMMA IdleWatched ==
  ASSUME InvWatched, NEW k, NEW e \in Fd, CalledBack(k, e), del_callback(e, "CB_WRONLY"),
         ~dead[e], UNCHANGED <<dead, at>>
  PROVE  InvWatched'
<1>0. e \in rfds
  BY DEF InvWatched, Watched
<1>1. /\ UNCHANGED <<removing, loop, readable, writable, rfds, callbacks, dead, at>>
      /\ calling' = {} /\ wfds' = wfds \ {e}
  <2>1. "CB_WRONLY" # "CB_RDWR"
    OBVIOUS
  <2> QED BY <1>0, <2>1 DEF CalledBack, del_callback, unwatch_fd
<1>3. ASSUME NEW f \in Fd PROVE Watched(f)'
  BY <1>1 DEF InvWatched, Watched, Removed
<1>4. ASSUME NEW t \in Thread PROVE Remover(t)'
  BY <1>1 DEF InvWatched, Remover, Quiet
<1> QED BY <1>1, <1>3, <1>4 DEF InvWatched

(* send could not write all and watches for room. *)
LEMMA RoomWatched ==
  ASSUME InvWatched, NEW t \in Thread, add_callback(On(t)),
         UNCHANGED <<loop, readable, writable, calling, dead>>,
         ~dead[On(t)], Others(t), at[t] \notin Removers, at'[t] \notin Removers
  PROVE  InvWatched'
<1>0. On(t) \in rfds /\ On(t) \in callbacks
  BY Threads DEF InvWatched, Watched
<1>1. UNCHANGED <<removing, rfds, callbacks>> /\ wfds' = wfds \cup {On(t)}
  BY <1>0 DEF add_callback, watch_fd
<1>2. ASSUME NEW u \in Thread PROVE at'[u] \in Removers <=> at[u] \in Removers
  BY SameRole DEF Others
<1>3. ASSUME NEW f \in Fd PROVE Watched(f)'
  <2>1. CASE f = On(t)
    BY <2>1, <1>0, <1>1 DEF Watched
  <2>2. CASE f # On(t)
    BY <2>2, <1>1, <1>2 DEF InvWatched, Watched, Removed
  <2> QED BY <2>1, <2>2
<1>4. ASSUME NEW u \in Thread PROVE Remover(u)'
  <2>0. Remover(u)
    BY DEF InvWatched
  <2>1. removing[u] # "no" => On(u) # On(t)
    BY <2>0 DEF Remover
  <2> QED BY <2>0, <2>1, <1>1, <1>2 DEF Remover, Quiet
<1> QED BY <1>1, <1>3, <1>4 DEF InvWatched, Others

-----------------------------------------------------------------------------
(* The stream of units from one end to the other *)

(* N units belong to PDUs of the sizes z[1 .. L], from the one after the n-th on:
   the i-th is unit k[i] of PDU p[i].  Every PDU is followed to its end before the
   next begins, at place N + 1 too. *)
Runs(N, L, z, n, p, k) ==
  /\ p[1] = n + 1 /\ k[1] = 1
  /\ \A i \in 1 .. N : p[i] \in 1 .. L /\ k[i] \in 1 .. z[p[i]]
  /\ \A i \in 1 .. N, d \in Nat : i + d <= N + 1 =>
       /\ k[i] + d <= z[p[i]] => p[i + d] = p[i] /\ k[i + d] = k[i] + d
       /\ k[i] + d = z[p[i]] + 1 => p[i + d] = p[i] + 1 /\ k[i + d] = 1

(* m units of the last PDU have been written behind the first N. *)
Wrote(N, L, z, n, p, k, a, m) ==
  \E q, l \in [1 .. N + m + 1 -> Nat] :
    /\ Runs(N + m, L, z, n, q, l)
    /\ \A i \in 1 .. N : q[i] = p[i] /\ l[i] = k[i]
    /\ \A i \in 1 .. m : q[N + i] = L /\ l[N + i] = a + i
    /\ a + m < z[L] => q[N + m + 1] = L /\ l[N + m + 1] = a + m + 1
    /\ a + m = z[L] => q[N + m + 1] = L + 1 /\ l[N + m + 1] = 1

(* The next m units of the last PDU are written. *)
LEMMA RunsWrite ==
  ASSUME NEW N \in Nat, NEW L \in Nat, NEW z \in [1 .. L -> Nat], NEW n \in Nat,
         NEW p \in [1 .. N + 1 -> Nat], NEW k \in [1 .. N + 1 -> Nat], Runs(N, L, z, n, p, k),
         NEW a \in Nat, NEW m \in Nat, L > 0, a < z[L], a + m <= z[L],
         p[N + 1] = L, k[N + 1] = a + 1
  PROVE  Wrote(N, L, z, n, p, k, a, m)
<1> DEFINE q == [i \in 1 .. N + m + 1 |->
                   IF i <= N THEN p[i] ELSE IF a + (i - N) <= z[L] THEN L ELSE L + 1]
           l == [i \in 1 .. N + m + 1 |->
                   IF i <= N THEN k[i] ELSE IF a + (i - N) <= z[L] THEN a + (i - N) ELSE 1]
<1>0. z[L] \in Nat
  BY SMT
<1>1. q \in [1 .. N + m + 1 -> Nat] /\ l \in [1 .. N + m + 1 -> Nat]
  BY <1>0, SMTT(20)
<1>2. /\ \A i \in 1 .. N : q[i] = p[i] /\ l[i] = k[i]
      /\ \A i \in 1 .. m + 1 : /\ a + i <= z[L] => q[N + i] = L /\ l[N + i] = a + i
                               /\ a + i > z[L] => q[N + i] = L + 1 /\ l[N + i] = 1
  <2>1. ASSUME NEW i \in 1 .. N PROVE q[i] = p[i] /\ l[i] = k[i]
    BY <2>1, SMTT(20)
  <2>2. ASSUME NEW i \in 1 .. m + 1
        PROVE  /\ a + i <= z[L] => q[N + i] = L /\ l[N + i] = a + i
               /\ a + i > z[L] => q[N + i] = L + 1 /\ l[N + i] = 1
    <3>1. N + i \in 1 .. N + m + 1 /\ ~(N + i <= N) /\ (N + i) - N = i
      BY <2>2, SMT
    <3>2. /\ q[N + i] = IF a + i <= z[L] THEN L ELSE L + 1
          /\ l[N + i] = IF a + i <= z[L] THEN a + i ELSE 1
      BY <3>1
    <3>3. a + i > z[L] => ~(a + i <= z[L])
      BY <1>0, SMT
    <3> QED BY <3>2, <3>3
  <2> QED BY <2>1, <2>2
<1> HIDE DEF q, l
<1>3. ASSUME NEW i \in 1 .. N
      PROVE  p[i] \in 1 .. L /\ k[i] \in 1 .. z[p[i]] /\ k[i] \in Nat /\ z[p[i]] \in Nat
  <2>1. p[i] \in 1 .. L /\ k[i] \in 1 .. z[p[i]]
    BY DEF Runs
  <2>2. i \in 1 .. N + 1
    BY SMT
  <2>3. k[i] \in Nat /\ z[p[i]] \in Nat
    BY <2>1, <2>2
  <2> QED BY <2>1, <2>3
<1>4. \A i \in 1 .. m : q[N + i] = L /\ l[N + i] = a + i
  BY <1>0, <1>2, SMTT(20)
<1>5. ASSUME NEW i \in 1 .. N + m PROVE q[i] \in 1 .. L /\ l[i] \in 1 .. z[q[i]]
  <2>1. CASE i <= N
    <3>1. i \in 1 .. N
      BY <2>1, SMT
    <3> QED BY <3>1, <1>2, <1>3
  <2>2. CASE i > N
    <3> DEFINE j == i - N
    <3>1. j \in 1 .. m /\ i = N + j
      BY <2>2, SMT
    <3> HIDE DEF j
    <3>2. q[i] = L /\ l[i] = a + j
      BY <3>1, <1>4
    <3> QED BY <3>1, <3>2, <1>0, SMTT(20)
  <2> QED BY <2>1, <2>2, SMT
<1>6. ASSUME NEW i \in 1 .. N + m, NEW d \in Nat, i + d <= N + m + 1
      PROVE  /\ l[i] + d <= z[q[i]] => q[i + d] = q[i] /\ l[i + d] = l[i] + d
             /\ l[i] + d = z[q[i]] + 1 => q[i + d] = q[i] + 1 /\ l[i + d] = 1
  <2>1. CASE i > N
    <3> DEFINE j == i - N
    <3>1. j \in 1 .. m /\ j + d \in 1 .. m + 1 /\ i = N + j /\ i + d = N + (j + d)
      BY <2>1, <1>6, SMT
    <3> HIDE DEF j
    <3>2. q[i] = L /\ l[i] = a + j
      BY <3>1, <1>4
    <3>3. /\ a + (j + d) <= z[L] => q[i + d] = L /\ l[i + d] = a + (j + d)
          /\ a + (j + d) > z[L] => q[i + d] = L + 1 /\ l[i + d] = 1
      BY <3>1, <1>2
    <3> QED BY <3>1, <3>2, <3>3, <1>0, SMTT(20)
  <2>2. CASE i <= N
    <3> DEFINE P == p[i]
               K == k[i]
               Z == z[P]
    <3>0. i \in 1 .. N
      BY <2>2, SMT
    <3>1. q[i] = P /\ l[i] = K /\ K \in Nat /\ P \in Nat /\ Z \in Nat
      <4>1. P \in 1 .. L
        BY <3>0, <1>3
      <4>2. P \in Nat
        BY <4>1, SMTT(20)
      <4> QED BY <3>0, <4>2, <1>2, <1>3
    <3>2. \A c \in Nat : i + c <= N + 1 =>
            /\ K + c <= Z => p[i + c] = P /\ k[i + c] = K + c
            /\ K + c = Z + 1 => p[i + c] = P + 1 /\ k[i + c] = 1
      BY <3>0 DEF Runs
    <3> SUFFICES /\ K + d <= Z => q[i + d] = P /\ l[i + d] = K + d
                 /\ K + d = Z + 1 => q[i + d] = P + 1 /\ l[i + d] = 1
      BY <3>1
    <3>z. z[P] = Z
      OBVIOUS
    <3> HIDE DEF P, K, Z
    <3>3. CASE i + d <= N
      <4>1. i + d \in 1 .. N /\ i + d <= N + 1
        BY <3>0, <3>3, SMT
      <4>2. q[i + d] = p[i + d] /\ l[i + d] = k[i + d]
        BY <4>1, <1>2
      <4> QED BY <4>1, <4>2, <3>2
    <3>4. CASE i + d > N
      <4> DEFINE c == N + 1 - i
                 j == i + d - N
      <4>1. c \in Nat /\ i + c = N + 1 /\ j \in 1 .. m + 1 /\ i + d = N + j /\ d = c + j - 1
        BY <3>0, <3>4, <1>6, SMT
      <4> HIDE DEF c, j
      <4>2. /\ K + c <= Z => L = P /\ a + 1 = K + c
            /\ K + c = Z + 1 => L = P + 1 /\ a + 1 = 1
        <5>1. i + c <= N + 1
          BY <4>1, SMT
        <5>2. /\ K + c <= Z => p[i + c] = P /\ k[i + c] = K + c
              /\ K + c = Z + 1 => p[i + c] = P + 1 /\ k[i + c] = 1
          BY <4>1, <5>1, <3>2
        <5> QED BY <4>1, <5>2
      <4>3. /\ a + j <= z[L] => q[i + d] = L /\ l[i + d] = a + j
            /\ a + j > z[L] => q[i + d] = L + 1 /\ l[i + d] = 1
        BY <4>1, <1>2
      <4>4. ASSUME K + d <= Z PROVE q[i + d] = P /\ l[i + d] = K + d
        <5>1. K + c <= Z
          BY <4>1, <4>4, <3>1, SMT
        <5>2. L = P /\ a + 1 = K + c
          BY <5>1, <4>2
        <5>3. a + j = K + d
          BY <5>2, <4>1, <3>1, SMT
        <5>4. a + j <= z[L]
          BY <5>2, <5>3, <3>z, <4>4
        <5> QED BY <5>2, <5>3, <5>4, <4>3
      <4>5. ASSUME K + d = Z + 1 PROVE q[i + d] = P + 1 /\ l[i + d] = 1
        <5>1. CASE j = 1
          <6>1. c = d
            BY <5>1, <4>1, SMT
          <6>2. L = P + 1 /\ a + 1 = 1
            BY <6>1, <4>2, <4>5
          <6>3. a + j <= z[L] /\ a + j = 1
            BY <6>2, <5>1, <1>0, SMT
          <6> QED BY <6>2, <6>3, <4>3
        <5>2. CASE j > 1
          <6>1. K + c <= Z
            BY <5>2, <4>1, <4>5, <3>1, SMT
          <6>2. L = P /\ a + 1 = K + c
            BY <6>1, <4>2
          <6>3. z[L] = Z
            BY <6>2, <3>z
          <6>4. a + j > z[L]
            BY <6>2, <6>3, <4>1, <4>5, <3>1, SMT
          <6> QED BY <6>2, <6>4, <4>3
        <5> QED BY <5>1, <5>2, <4>1, SMT
      <4> QED BY <4>4, <4>5
    <3> QED BY <3>3, <3>4, <3>0, SMT
  <2> QED BY <2>1, <2>2, SMT
<1>7. q[1] = n + 1 /\ l[1] = 1
  <2>1. p[1] = n + 1 /\ k[1] = 1
    BY DEF Runs
  <2>2. CASE N > 0
    BY <2>1, <2>2, <1>2, SMTT(20)
  <2>3. CASE N = 0
    BY <2>1, <2>3, <1>0, <1>2, SMT
  <2> QED BY <2>2, <2>3, SMT
<1>8. Runs(N + m, L, z, n, q, l)
  BY <1>5, <1>6, <1>7 DEF Runs
<1>9. /\ a + m < z[L] => q[N + m + 1] = L /\ l[N + m + 1] = a + m + 1
      /\ a + m = z[L] => q[N + m + 1] = L + 1 /\ l[N + m + 1] = 1
  <2>1. m + 1 \in 1 .. m + 1 /\ N + (m + 1) = N + m + 1 /\ a + (m + 1) = a + m + 1
    BY SMT
  <2> DEFINE i == m + 1
  <2>2. /\ a + i <= z[L] => q[N + i] = L /\ l[N + i] = a + i
        /\ a + i > z[L] => q[N + i] = L + 1 /\ l[N + i] = 1
    <3>1. i \in 1 .. m + 1
      BY <2>1
    <3> HIDE DEF i
    <3> QED BY <3>1, <1>2
  <2>3. a + m < z[L] => a + i <= z[L]
    BY <1>0, SMTT(20)
  <2>4. a + m = z[L] => a + i > z[L]
    BY <1>0, SMT
  <2> QED BY <2>1, <2>2, <2>3, <2>4
<1> QED BY <1>1, <1>2, <1>4, <1>8, <1>9 DEF Wrote

(* The first PDU, of m units, has been taken off. *)
TookOff(N, L, z, n, p, k, m) ==
  /\ n + 1 \in 1 .. L
  /\ \A i \in 1 .. m : p[i] = n + 1 /\ k[i] = i
  /\ \E q, l \in [1 .. (N - m) + 1 -> Nat] :
       /\ Runs(N - m, L, z, n + 1, q, l)
       /\ \A i \in 1 .. (N - m) + 1 : q[i] = p[i + m] /\ l[i] = k[i + m]

(* The first PDU, of m units, is taken. *)
LEMMA RunsTaken ==
  ASSUME NEW N \in Nat, NEW L \in Nat, NEW z \in [1 .. L -> Nat], NEW n \in Nat,
         NEW p \in [1 .. N + 1 -> Nat], NEW k \in [1 .. N + 1 -> Nat], Runs(N, L, z, n, p, k),
         N > 0, NEW m \in 1 .. N, n + 1 <= L => m = z[n + 1]
  PROVE  TookOff(N, L, z, n, p, k, m)
<1> DEFINE q == [i \in 1 .. (N - m) + 1 |-> p[i + m]]
           l == [i \in 1 .. (N - m) + 1 |-> k[i + m]]
<1>1. p[1] = n + 1 /\ k[1] = 1
  BY DEF Runs
<1>2. n + 1 \in 1 .. L /\ m = z[n + 1]
  <2>1. p[1] \in 1 .. L
    BY SMT DEF Runs
  <2> QED BY <2>1, <1>1, SMT
<1>3. \A d \in Nat : 1 + d <= N + 1 =>
        /\ k[1] + d <= z[p[1]] => p[1 + d] = p[1] /\ k[1 + d] = k[1] + d
        /\ k[1] + d = z[p[1]] + 1 => p[1 + d] = p[1] + 1 /\ k[1 + d] = 1
  <2>1. 1 \in 1 .. N
    BY SMT
  <2> QED BY <2>1 DEF Runs
<1>4. ASSUME NEW i \in 1 .. m PROVE p[i] = n + 1 /\ k[i] = i
  <2>1. i - 1 \in Nat /\ 1 + (i - 1) = i /\ 1 + (i - 1) <= N + 1 /\ 1 + (i - 1) <= m
    BY SMT
  <2>2. k[1] + (i - 1) <= z[p[1]] => p[1 + (i - 1)] = p[1] /\ k[1 + (i - 1)] = k[1] + (i - 1)
    BY <2>1, <1>3
  <2> QED BY <2>1, <2>2, <1>1, <1>2
<1>5. p[m + 1] = n + 2 /\ k[m + 1] = 1
  <2>1. m \in Nat /\ 1 + m = m + 1 /\ 1 + m <= N + 1 /\ (n + 1) + 1 = n + 2
    BY SMT
  <2>2. k[1] + m = z[p[1]] + 1 => p[1 + m] = p[1] + 1 /\ k[1 + m] = 1
    BY <2>1, <1>3
  <2> QED BY <2>1, <2>2, <1>1, <1>2
<1>6. q \in [1 .. (N - m) + 1 -> Nat] /\ l \in [1 .. (N - m) + 1 -> Nat]
  BY SMT
<1>7. \A i \in 1 .. (N - m) + 1 : q[i] = p[i + m] /\ l[i] = k[i + m]
  OBVIOUS
<1> HIDE DEF q, l
<1>8. q[1] = (n + 1) + 1 /\ l[1] = 1
  <2>1. 1 \in 1 .. (N - m) + 1 /\ 1 + m = m + 1
    BY SMT
  <2> QED BY <2>1, <1>5, <1>7, SMTT(20)
<1>9. ASSUME NEW i \in 1 .. N - m
      PROVE  /\ q[i] \in 1 .. L /\ l[i] \in 1 .. z[q[i]]
             /\ \A d \in Nat : i + d <= (N - m) + 1 =>
                  /\ l[i] + d <= z[q[i]] => q[i + d] = q[i] /\ l[i + d] = l[i] + d
                  /\ l[i] + d = z[q[i]] + 1 => q[i + d] = q[i] + 1 /\ l[i + d] = 1
  <2>1. i + m \in 1 .. N /\ q[i] = p[i + m] /\ l[i] = k[i + m]
    BY <1>7, SMT
  <2>2. p[i + m] \in 1 .. L /\ k[i + m] \in 1 .. z[p[i + m]]
    BY <2>1 DEF Runs
  <2>3. ASSUME NEW d \in Nat, i + d <= (N - m) + 1
        PROVE  /\ l[i] + d <= z[q[i]] => q[i + d] = q[i] /\ l[i + d] = l[i] + d
               /\ l[i] + d = z[q[i]] + 1 => q[i + d] = q[i] + 1 /\ l[i + d] = 1
    <3>1. (i + m) + d <= N + 1 /\ (i + d) + m = (i + m) + d /\ i + d \in 1 .. (N - m) + 1
      BY <2>3, SMT
    <3>2. q[i + d] = p[(i + m) + d] /\ l[i + d] = k[(i + m) + d]
      BY <3>1, <1>7
    <3>3. /\ k[i + m] + d <= z[p[i + m]] => p[(i + m) + d] = p[i + m] /\ k[(i + m) + d] = k[i + m] + d
          /\ k[i + m] + d = z[p[i + m]] + 1 => p[(i + m) + d] = p[i + m] + 1 /\ k[(i + m) + d] = 1
      BY <2>1, <3>1 DEF Runs
    <3> QED BY <3>2, <3>3, <2>1
  <2> QED BY <2>1, <2>2, <2>3
<1>10. Runs(N - m, L, z, n + 1, q, l)
  BY <1>8, <1>9 DEF Runs
<1> QED BY <1>2, <1>4, <1>6, <1>7, <1>10 DEF TookOff

(* The units of a PDU. *)
LEMMA PduUnits ==
  ASSUME NEW t \in Thread
  PROVE  /\ Size[t] \in Nat /\ Size[t] > 1
         /\ Pdu(t) \in Seq(Unit) /\ Len(Pdu(t)) = Size[t]
         /\ \A i \in 1 .. Size[t] : Pdu(t)[i] = <<t, i>> /\ <<t, i>> \in Unit
<1>1. Size[t] \in Nat /\ Size[t] > 1
  BY SizeAssumption
<1>2. \A i \in 1 .. Size[t] : <<t, i>> \in Unit
  BY <1>1, SMT DEF Unit
<1>3. Pdu(t) \in [1 .. Size[t] -> Unit] /\ \A i \in 1 .. Size[t] : Pdu(t)[i] = <<t, i>>
  BY <1>2 DEF Pdu
<1>4. Pdu(t) \in Seq(Unit) /\ Len(Pdu(t)) = Size[t]
  BY <1>1, <1>3, SMT
<1> QED BY <1>1, <1>2, <1>3, <1>4

(* s is what has been written and not yet been given to got_pdu, when n of the PDUs
   of o have. *)
Sizes(o) == [j \in 1 .. Len(o) |-> Size[o[j]]]
Traced(o, n, s, p, k) ==
  /\ p \in [1 .. Len(s) + 1 -> Nat] /\ k \in [1 .. Len(s) + 1 -> Nat]
  /\ Runs(Len(s), Len(o), Sizes(o), n, p, k)
  /\ \A i \in 1 .. Len(s) : s[i] = <<o[p[i]], k[i]>>

(* The unit that follows s is unit K of PDU P. *)
Ends_at(s, p, k, P, K) == p[Len(s) + 1] = P /\ k[Len(s) + 1] = K

(* The sizes of the PDUs of o. *)
LEMMA SizesType ==
  ASSUME NEW o \in Seq(Thread)
  PROVE  /\ Len(o) \in Nat
         /\ Sizes(o) \in [1 .. Len(o) -> Nat]
         /\ \A j \in 1 .. Len(o) : o[j] \in Thread /\ Sizes(o)[j] = Size[o[j]]
<1>1. \A j \in 1 .. Len(o) : o[j] \in Thread
  BY SeqElement
<1>2. \A j \in 1 .. Len(o) : Size[o[j]] \in Nat
  BY <1>1, PduUnits
<1> QED BY <1>1, <1>2, SeqLength DEF Sizes

(* send accepts another PDU: nothing is written of it yet. *)
LEMMA TracedAppend ==
  ASSUME NEW o \in Seq(Thread), NEW n \in Nat, NEW s \in Seq(Unit), NEW p, NEW k,
         Traced(o, n, s, p, k), NEW t \in Thread
  PROVE  Traced(Append(o, t), n, s, p, k)
<1> DEFINE o2 == Append(o, t)
<1>1. /\ o2 \in Seq(Thread) /\ Len(o2) = Len(o) + 1 /\ Len(o) \in Nat
      /\ \A i \in 1 .. Len(o) : o2[i] = o[i]
  BY SeqAppend, SeqLength, SMT
<1> HIDE DEF o2
<1>2. \A j \in 1 .. Len(o) : j \in 1 .. Len(o2)
  BY <1>1, SMT
<1>3. \A j \in 1 .. Len(o) : Sizes(o2)[j] = Sizes(o)[j]
  <2>1. \A j \in 1 .. Len(o) : Sizes(o)[j] = Size[o[j]]
    BY SizesType
  <2>2. \A j \in 1 .. Len(o2) : Sizes(o2)[j] = Size[o2[j]]
    BY <1>1, SizesType
  <2> QED BY <2>1, <2>2, <1>1, <1>2
<1>4. \A i \in 1 .. Len(s) : p[i] \in 1 .. Len(o)
  BY DEF Traced, Runs
<1>5. \A i \in 1 .. Len(s) :
        p[i] \in 1 .. Len(o2) /\ Sizes(o2)[p[i]] = Sizes(o)[p[i]] /\ o2[p[i]] = o[p[i]]
  BY <1>1, <1>2, <1>3, <1>4
<1>6. Runs(Len(s), Len(o2), Sizes(o2), n, p, k)
  <2>0. Runs(Len(s), Len(o), Sizes(o), n, p, k)
    BY DEF Traced
  <2>1. p[1] = n + 1 /\ k[1] = 1
    BY <2>0 DEF Runs
  <2>2. ASSUME NEW i \in 1 .. Len(s)
        PROVE  /\ p[i] \in 1 .. Len(o2) /\ k[i] \in 1 .. Sizes(o2)[p[i]]
               /\ \A d \in Nat : i + d <= Len(s) + 1 =>
                    /\ k[i] + d <= Sizes(o2)[p[i]] => p[i + d] = p[i] /\ k[i + d] = k[i] + d
                    /\ k[i] + d = Sizes(o2)[p[i]] + 1 => p[i + d] = p[i] + 1 /\ k[i + d] = 1
    <3>1. Sizes(o2)[p[i]] = Sizes(o)[p[i]] /\ p[i] \in 1 .. Len(o2)
      BY <1>5
    <3>2. k[i] \in 1 .. Sizes(o)[p[i]]
      BY <2>0 DEF Runs
    <3>3. \A d \in Nat : i + d <= Len(s) + 1 =>
            /\ k[i] + d <= Sizes(o)[p[i]] => p[i + d] = p[i] /\ k[i + d] = k[i] + d
            /\ k[i] + d = Sizes(o)[p[i]] + 1 => p[i + d] = p[i] + 1 /\ k[i + d] = 1
      BY <2>0 DEF Runs
    <3> QED BY <3>1, <3>2, <3>3
  <2> QED BY <2>1, <2>2 DEF Runs
<1> QED BY <1>5, <1>6 DEF Traced, o2

(* Of the last PDU of o, that of t, a units are out, and m more are to go. *)
Midway(o, n, s, p, k, t, a, m) ==
  /\ Traced(o, n, s, p, k) /\ o # <<>> /\ o[Len(o)] = t
  /\ a < Size[t] /\ a + m <= Size[t] /\ Ends_at(s, p, k, Len(o), a + 1)

(* They have gone. *)
Further(o, n, s, t, a, m, u) ==
  /\ u \in Seq(Unit) /\ Len(u) = m
  /\ \E q, l : /\ Traced(o, n, s \o u, q, l)
               /\ a + m < Size[t] => Ends_at(s \o u, q, l, Len(o), a + m + 1)
               /\ a + m = Size[t] => Ends_at(s \o u, q, l, Len(o) + 1, 1)

(* The next units of the last PDU are written. *)
LEMMA TracedWrite ==
  ASSUME NEW o \in Seq(Thread), NEW n \in Nat, NEW s \in Seq(Unit), NEW p, NEW k,
         NEW t \in Thread, NEW a \in Nat, NEW m \in Nat, Midway(o, n, s, p, k, t, a, m)
  PROVE  Further(o, n, s, t, a, m, SubSeq(Pdu(t), a + 1, a + m))
<1> /\ Traced(o, n, s, p, k) /\ o # <<>> /\ o[Len(o)] = t
    /\ a < Size[t] /\ a + m <= Size[t] /\ Ends_at(s, p, k, Len(o), a + 1)
  BY DEF Midway
<1> DEFINE u == SubSeq(Pdu(t), a + 1, a + m)
           z == s \o u
           N == Len(s)
           L == Len(o)
<1>1. /\ Size[t] \in Nat
      /\ \A i \in 1 .. Size[t] : Pdu(t)[i] = <<t, i>> /\ <<t, i>> \in Unit
  BY PduUnits
<1>2. u \in Seq(Unit) /\ Len(u) = m /\ \A i \in 1 .. m : u[i] = <<t, a + i>>
  <2>1. ASSUME NEW i \in a + 1 .. a + m PROVE Pdu(t)[i] \in Unit
    <3>1. i \in 1 .. Size[t]
      BY <1>1, SMT
    <3> QED BY <3>1, <1>1
  <2>2. /\ u \in Seq(Unit) /\ Len(u) = (IF a + 1 <= a + m THEN (a + m) - (a + 1) + 1 ELSE 0)
        /\ \A i \in 1 .. (a + m) - (a + 1) + 1 : u[i] = Pdu(t)[a + 1 + i - 1]
    BY <2>1, SeqSub, SMT
  <2> HIDE DEF u
  <2>3. (a + m) - (a + 1) + 1 = m /\ (IF a + 1 <= a + m THEN m ELSE 0) = m
    BY SMT
  <2>4. ASSUME NEW i \in 1 .. m PROVE u[i] = <<t, a + i>>
    <3>1. a + 1 + i - 1 = a + i /\ a + i \in 1 .. Size[t]
      BY <1>1, SMT
    <3> QED BY <2>2, <2>3, <3>1, <1>1
  <2> QED BY <2>2, <2>3, <2>4
<1> HIDE DEF u
<1>3. /\ z \in Seq(Unit) /\ Len(z) = N + m /\ N \in Nat
      /\ \A i \in 1 .. N + m : z[i] = IF i <= N THEN s[i] ELSE u[i - N]
  BY <1>2, SeqConcat, SeqLength
<1> HIDE DEF z
<1>4. L \in Nat /\ L > 0 /\ Sizes(o) \in [1 .. L -> Nat] /\ Sizes(o)[L] = Size[t]
  <2>1. L \in Nat /\ L > 0
    BY SeqEmpty, SeqLength, SMT
  <2>2. L \in 1 .. L
    BY <2>1, SMT
  <2> QED BY <2>1, <2>2, SizesType
<1>5. /\ p \in [1 .. N + 1 -> Nat] /\ k \in [1 .. N + 1 -> Nat]
      /\ Runs(N, L, Sizes(o), n, p, k)
      /\ p[N + 1] = L /\ k[N + 1] = a + 1
      /\ \A i \in 1 .. N : s[i] = <<o[p[i]], k[i]>>
  BY DEF Traced, Ends_at
<1>6. o[L] = t
  OBVIOUS
<1> HIDE DEF N, L
<1>7. PICK q, l \in [1 .. N + m + 1 -> Nat] :
        /\ Runs(N + m, L, Sizes(o), n, q, l)
        /\ \A i \in 1 .. N : q[i] = p[i] /\ l[i] = k[i]
        /\ \A i \in 1 .. m : q[N + i] = L /\ l[N + i] = a + i
        /\ a + m < Size[t] => q[N + m + 1] = L /\ l[N + m + 1] = a + m + 1
        /\ a + m = Size[t] => q[N + m + 1] = L + 1 /\ l[N + m + 1] = 1
  <2> DEFINE y == Sizes(o)
  <2>1. y \in [1 .. L -> Nat] /\ y[L] = Size[t] /\ Runs(N, L, y, n, p, k)
    BY <1>4, <1>5
  <2>2. a < y[L] /\ a + m <= y[L]
    BY <2>1
  <2> HIDE DEF y
  <2>3. N \in Nat /\ L \in Nat /\ L > 0
    BY <1>3, <1>4
  <2>4. /\ p \in [1 .. N + 1 -> Nat] /\ k \in [1 .. N + 1 -> Nat]
        /\ p[N + 1] = L /\ k[N + 1] = a + 1
    BY <1>5
  <2>5. Wrote(N, L, y, n, p, k, a, m)
    BY <2>1, <2>2, <2>3, <2>4, RunsWrite
  <2> QED BY <2>1, <2>5 DEF y, Wrote
<1>8. ASSUME NEW i \in 1 .. N + m PROVE z[i] = <<o[q[i]], l[i]>>
  <2>1. CASE i <= N
    <3>1. i \in 1 .. N
      BY <2>1, <1>3, SMT
    <3> QED BY <2>1, <3>1, <1>3, <1>5, <1>7
  <2>2. CASE ~(i <= N)
    <3> DEFINE j == i - N
    <3>1. j \in 1 .. m /\ i = N + j
      BY <2>2, <1>3, SMT
    <3>2. z[i] = u[j]
      BY <2>2, <1>3
    <3> HIDE DEF j
    <3> QED BY <3>1, <3>2, <1>2, <1>6, <1>7
  <2> QED BY <2>1, <2>2
<1>9. Traced(o, n, z, q, l)
  BY <1>3, <1>7, <1>8 DEF Traced, L
<1>10. /\ a + m < Size[t] => Ends_at(z, q, l, L, a + m + 1)
       /\ a + m = Size[t] => Ends_at(z, q, l, L + 1, 1)
  BY <1>3, <1>7 DEF Ends_at
<1> QED BY <1>2, <1>9, <1>10 DEF u, z, L, Further

(* The first PDU of the stream is complete and taken. *)
LEMMA TracedTaken ==
  ASSUME NEW o \in Seq(Thread), NEW n \in Nat, NEW r \in Seq(Unit), NEW w \in Seq(Unit),
         NEW p, NEW k, Traced(o, n, r \o w, p, k), r # <<>>, Len(r) = Size[r[1][1]]
  PROVE  /\ n + 1 \in 1 .. Len(o) /\ r = Pdu(o[n + 1]) /\ r[1][1] = o[n + 1]
         /\ \E q, l : /\ Traced(o, n + 1, w, q, l)
                      /\ \A P, K : Ends_at(r \o w, p, k, P, K) => Ends_at(w, q, l, P, K)
<1> DEFINE m == Len(r)
           M == Len(w)
           s == r \o w
           N == m + M
           L == Len(o)
<1>1. /\ m \in Nat /\ m > 0 /\ M \in Nat
      /\ s \in Seq(Unit) /\ Len(s) = N
      /\ \A i \in 1 .. N : s[i] = IF i <= m THEN r[i] ELSE w[i - m]
  BY SeqConcat, SeqLength, SeqEmpty, SMT
<1>2. /\ L \in Nat /\ Sizes(o) \in [1 .. L -> Nat]
      /\ \A j \in 1 .. L : o[j] \in Thread /\ Sizes(o)[j] = Size[o[j]]
  BY SizesType
<1>3. /\ p \in [1 .. N + 1 -> Nat] /\ k \in [1 .. N + 1 -> Nat]
      /\ Runs(N, L, Sizes(o), n, p, k)
      /\ \A i \in 1 .. N : s[i] = <<o[p[i]], k[i]>>
  BY <1>1 DEF Traced
<1>4. m = Size[r[1][1]]
  OBVIOUS
<1> HIDE DEF m, M, s, N, L
<1>0. m \in Nat /\ M \in Nat
  BY <1>1
<1>5. N \in Nat /\ N > 0 /\ m \in 1 .. N /\ N - m = M /\ 1 \in 1 .. N /\ 1 <= m
  BY <1>1, SMT DEF N
<1>6. r[1][1] = o[n + 1]
  <2>1. s[1] = r[1] /\ s[1] = <<o[p[1]], k[1]>> /\ p[1] = n + 1
    BY <1>1, <1>3, <1>5 DEF Runs
  <2> QED BY <2>1, SMT
<1>7. n + 1 <= L => m = Sizes(o)[n + 1]
  <2>1. ASSUME n + 1 <= L PROVE n + 1 \in 1 .. L
    BY <2>1, <1>2, SMT
  <2> QED BY <2>1, <1>2, <1>4, <1>6
<1>8. /\ n + 1 \in 1 .. L
      /\ \A i \in 1 .. m : p[i] = n + 1 /\ k[i] = i
      /\ \E q, l \in [1 .. (N - m) + 1 -> Nat] :
           /\ Runs(N - m, L, Sizes(o), n + 1, q, l)
           /\ \A i \in 1 .. (N - m) + 1 : q[i] = p[i + m] /\ l[i] = k[i + m]
  <2> DEFINE y == Sizes(o)
  <2>1. y \in [1 .. L -> Nat] /\ Runs(N, L, y, n, p, k) /\ (n + 1 <= L => m = y[n + 1])
    BY <1>2, <1>3, <1>7
  <2> HIDE DEF y
  <2>2. L \in Nat /\ p \in [1 .. N + 1 -> Nat] /\ k \in [1 .. N + 1 -> Nat]
    BY <1>2, <1>3
  <2>3. N \in Nat /\ N > 0 /\ m \in 1 .. N
    BY <1>5
  <2>4. TookOff(N, L, y, n, p, k, m)
    BY <2>1, <2>2, <2>3, RunsTaken
  <2> QED BY <2>4 DEF y, TookOff
<1>9. r = Pdu(o[n + 1])
  <2>1. o[n + 1] \in Thread
    BY <1>2, <1>8
  <2>2. /\ Pdu(o[n + 1]) \in Seq(Unit) /\ Len(Pdu(o[n + 1])) = Size[o[n + 1]]
        /\ \A i \in 1 .. Size[o[n + 1]] : Pdu(o[n + 1])[i] = <<o[n + 1], i>>
    BY <2>1, PduUnits
  <2>3. m = Size[o[n + 1]]
    BY <1>4, <1>6
  <2>4. ASSUME NEW i \in 1 .. m PROVE r[i] = Pdu(o[n + 1])[i]
    <3>1. i \in 1 .. N /\ i <= m
      BY <1>1, <1>5, SMT
    <3>2. r[i] = <<o[p[i]], k[i]>>
      BY <3>1, <1>1, <1>3
    <3>3. p[i] = n + 1 /\ k[i] = i
      BY <1>8
    <3>4. Pdu(o[n + 1])[i] = <<o[n + 1], i>>
      BY <2>2, <2>3
    <3> QED BY <3>2, <3>3, <3>4
  <2>5. Len(r) = Len(Pdu(o[n + 1])) /\ \A i \in 1 .. Len(r) : r[i] = Pdu(o[n + 1])[i]
    BY <2>2, <2>3, <2>4 DEF m
  <2> QED BY <2>2, <2>5, SeqSame
<1>10. PICK q, l \in [1 .. M + 1 -> Nat] :
         /\ Runs(M, L, Sizes(o), n + 1, q, l)
         /\ \A i \in 1 .. M + 1 : q[i] = p[i + m] /\ l[i] = k[i + m]
  BY <1>5, <1>8
<1>11. ASSUME NEW i \in 1 .. M PROVE w[i] = <<o[q[i]], l[i]>>
  <2>1. i + m \in 1 .. N /\ ~(i + m <= m) /\ (i + m) - m = i /\ i \in 1 .. M + 1
    BY <1>1, SMT DEF N
  <2>2. w[i] = s[i + m]
    BY <2>1, <1>1
  <2> QED BY <2>1, <2>2, <1>3, <1>10
<1>12. Traced(o, n + 1, w, q, l)
  BY <1>10, <1>11 DEF Traced, M, L
<1>13. q[M + 1] = p[N + 1] /\ l[M + 1] = k[N + 1]
  <2> DEFINE i == M + 1
  <2>1. i \in 1 .. M + 1 /\ i + m = N + 1
    BY <1>0, SMT DEF N
  <2> HIDE DEF i
  <2>2. q[i] = p[i + m] /\ l[i] = k[i + m]
    BY <2>1, <1>10
  <2> QED BY <2>1, <2>2 DEF i
<1>14. \A P, K : Ends_at(s, p, k, P, K) => Ends_at(w, q, l, P, K)
  BY <1>1, <1>13 DEF Ends_at, M
<1> QED BY <1>6, <1>8, <1>9, <1>12, <1>14 DEF L, s

-----------------------------------------------------------------------------
(* writepdu and readpdu *)

(* The smaller of two numbers. *)
LEMMA MinOfTwo ==
  ASSUME NEW a \in Int, NEW b \in Int
  PROVE  Min({a, b}) \in {a, b} /\ Min({a, b}) <= a /\ Min({a, b}) <= b
<1>1. \E x \in {a, b} : \A y \in {a, b} : x =< y
  BY SMT
<1>2. Min({a, b}) \in {a, b} /\ \A y \in {a, b} : Min({a, b}) =< y
  BY <1>1 DEF Min
<1> QED BY <1>2

(* Units behind units. *)
LEMMA Concatenated ==
  ASSUME NEW r \in Seq(Unit), NEW a \in Seq(Unit)
  PROVE  r \o a \in Seq(Unit) /\ Len(r \o a) = Len(r) + Len(a)
BY SeqConcat

(* Three pieces of a stream. *)
LEMMA Regroup ==
  ASSUME NEW r \in Seq(Unit), NEW a \in Seq(Unit), NEW b \in Seq(Unit)
  PROVE  (r \o a) \o b = r \o (a \o b)
<1> DEFINE i == Len(r)
           j == Len(a)
           k == Len(b)
           x == r \o a
           y == a \o b
<1>1. i \in Nat /\ j \in Nat /\ k \in Nat
  BY SeqLength
<1>2. /\ x \in Seq(Unit) /\ Len(x) = i + j
      /\ \A n \in 1 .. i + j : x[n] = IF n <= i THEN r[n] ELSE a[n - i]
  BY SeqConcat
<1>3. /\ y \in Seq(Unit) /\ Len(y) = j + k
      /\ \A n \in 1 .. j + k : y[n] = IF n <= j THEN a[n] ELSE b[n - j]
  BY SeqConcat
<1> HIDE DEF x, y
<1>4. /\ x \o b \in Seq(Unit) /\ Len(x \o b) = (i + j) + k
      /\ \A n \in 1 .. (i + j) + k : (x \o b)[n] = IF n <= i + j THEN x[n] ELSE b[n - (i + j)]
  <2>0. x \in Seq(Unit)
    BY <1>2
  <2>1. Len(x) = i + j
    BY <1>2
  <2>2. /\ x \o b \in Seq(Unit) /\ Len(x \o b) = Len(x) + Len(b)
        /\ \A n \in 1 .. Len(x) + Len(b) : (x \o b)[n] = IF n <= Len(x) THEN x[n] ELSE b[n - Len(x)]
    BY <2>0, SeqConcat
  <2> QED BY <2>1, <2>2
<1>5. /\ r \o y \in Seq(Unit) /\ Len(r \o y) = i + (j + k)
      /\ \A n \in 1 .. i + (j + k) : (r \o y)[n] = IF n <= i THEN r[n] ELSE y[n - i]
  <2>0. y \in Seq(Unit)
    BY <1>3
  <2>1. Len(y) = j + k
    BY <1>3
  <2>2. /\ r \o y \in Seq(Unit) /\ Len(r \o y) = Len(r) + Len(y)
        /\ \A n \in 1 .. Len(r) + Len(y) : (r \o y)[n] = IF n <= Len(r) THEN r[n] ELSE y[n - Len(r)]
    BY <2>0, SeqConcat
  <2> QED BY <2>1, <2>2
<1> HIDE DEF i, j, k
<1>6. ASSUME NEW n \in 1 .. (i + j) + k PROVE (x \o b)[n] = (r \o y)[n]
  <2>0. n \in 1 .. i + (j + k)
    BY <1>1, SMT
  <2>1. CASE n <= i
    <3>1. n \in 1 .. i + j /\ n <= i + j
      BY <2>1, <1>1, SMT
    <3> QED BY <2>0, <2>1, <3>1, <1>2, <1>4, <1>5
  <2>2. CASE ~(n <= i) /\ n <= i + j
    <3>1. n \in 1 .. i + j /\ n - i \in 1 .. j + k /\ n - i <= j
      BY <2>2, <1>1, SMT
    <3> QED BY <2>0, <2>2, <3>1, <1>2, <1>3, <1>4, <1>5
  <2>3. CASE ~(n <= i) /\ ~(n <= i + j)
    <3>1. n - i \in 1 .. j + k /\ ~(n - i <= j) /\ (n - i) - j = n - (i + j)
      BY <2>3, <1>1, SMT
    <3> QED BY <2>0, <2>3, <3>1, <1>3, <1>4, <1>5
  <2> QED BY <2>1, <2>2, <2>3
<1>7. (i + j) + k = i + (j + k)
  BY <1>1, SMT
<1>8. x \o b = r \o y
  BY <1>4, <1>5, <1>6, <1>7, SeqSame
<1> QED BY <1>8 DEF x, y

(* What a sequence is, cut in two. *)
LEMMA CutInTwo ==
  ASSUME NEW r \in Seq(Unit), NEW w \in Seq(Unit), NEW n \in 1 .. Len(w)
  PROVE  /\ SubSeq(w, 1, n) \in Seq(Unit) /\ Len(SubSeq(w, 1, n)) = n
         /\ SubSeq(w, n + 1, Len(w)) \in Seq(Unit) /\ Len(SubSeq(w, n + 1, Len(w))) = Len(w) - n
         /\ (r \o SubSeq(w, 1, n)) \o SubSeq(w, n + 1, Len(w)) = r \o w
<1> DEFINE a == SubSeq(w, 1, n)
           b == SubSeq(w, n + 1, Len(w))
<1>1. Len(w) \in Nat /\ \A i \in 1 .. Len(w) : w[i] \in Unit
  BY SeqLength, SeqElement
<1>2. n \in Nat /\ n <= Len(w) /\ n >= 1
  BY <1>1, SMT
<1>3. a \in Seq(Unit) /\ Len(a) = n
  <2>1. \A i \in 1 .. n : w[i] \in Unit
    BY <1>1, <1>2, SMT
  <2> QED BY <2>1, <1>2, SeqSub, SMT
<1>4. b \in Seq(Unit) /\ Len(b) = Len(w) - n
  <2>1. \A i \in n + 1 .. Len(w) : w[i] \in Unit
    BY <1>1, <1>2, SMT
  <2> QED BY <2>1, <1>1, <1>2, SeqSub, SMT
<1>5. a \o b = w
  <2>1. SubSeq(w, 1, n) \o SubSeq(w, n + 1, Len(w)) = SubSeq(w, 1, Len(w))
    <3>1. 1 \in 1 .. Len(w) + 1 /\ n \in 1 - 1 .. Len(w) /\ Len(w) \in n .. Len(w)
      BY <1>1, <1>2, SMT
    <3> QED BY <3>1, SubAdjacent
  <2>2. SubSeq(w, 1, Len(w)) = w
    BY SMT
  <2> QED BY <2>1, <2>2
<1> HIDE DEF a, b
<1>6. (r \o a) \o b = r \o (a \o b)
  <2>1. a \in Seq(Unit)
    BY <1>3
  <2>2. b \in Seq(Unit)
    BY <1>4
  <2> QED BY <2>1, <2>2, Regroup
<1> QED BY <1>3, <1>4, <1>5, <1>6 DEF a, b

(* What rpdu_ may be. *)
Begins(r) == r \in Seq(Unit) /\ (r # <<>> => Len(r) <= Size[r[1][1]])

(* x is an outcome of readpdu that had read r before and found w: if it is a
   failure what was read is dropped; otherwise units have only gone from w to r. *)
ReadOf(x, r, w) ==
  /\ x.ok \in BOOLEAN
  /\ x.wire \in Seq(Unit) /\ Len(x.wire) <= Len(w)
  /\ ~x.ok => x.rpdu = <<>>
  /\ x.ok => Begins(x.rpdu) /\ x.rpdu # <<>> /\ x.rpdu \o x.wire = r \o w

(* The first unit of a PDU, which holds its size. *)
LEMMA HeadOfUnits ==
  ASSUME NEW r \in Seq(Unit), r # <<>>
  PROVE  /\ r[1] \in Unit /\ r[1][1] \in Thread
         /\ Len(r) \in Nat /\ Len(r) >= 1 /\ Size[r[1][1]] \in Nat /\ Size[r[1][1]] > 1
<1>1. Len(r) \in Nat /\ Len(r) >= 1
  BY SeqEmpty, SeqLength, SMT
<1>2. 1 \in 1 .. Len(r)
  BY <1>1, SMT
<1>3. r[1] \in Unit
  BY <1>2, SeqElement
<1>4. r[1][1] \in Thread
  BY <1>3 DEF Unit
<1> QED BY <1>1, <1>3, <1>4, PduUnits

(* The second read of readpdu. *)
LEMMA ReadBodyReads ==
  ASSUME NEW e, NEW r, Begins(r), r # <<>>, NEW w \in Seq(Unit), NEW x \in ReadBody(e, r, w)
  PROVE  ReadOf(x, r, w)
<1> DEFINE z == Size[r[1][1]]
           M == Min({z - Len(r), Len(w)})
<1>0. r \in Seq(Unit) /\ Len(r) <= z
  BY DEF Begins
<1>1. Len(r) \in Nat /\ z \in Nat /\ Len(w) \in Nat /\ Len(r) >= 1
  BY <1>0, HeadOfUnits, SeqLength
<1>2. M \in Int /\ M <= z - Len(r) /\ M <= Len(w)
  <2>1. z - Len(r) \in Int /\ Len(w) \in Int
    BY <1>1, SMT
  <2>2. M \in {z - Len(r), Len(w)} /\ M <= z - Len(r) /\ M <= Len(w)
    BY <2>1, MinOfTwo
  <2> QED BY <2>1, <2>2
<1>3. \/ \E n \in 1 .. M :
           x = [ok |-> TRUE, rpdu |-> r \o SubSeq(w, 1, n), wire |-> SubSeq(w, n + 1, Len(w))]
      \/ w = <<>> /\ x = [ok |-> TRUE, rpdu |-> r, wire |-> w]
      \/ w = <<>> /\ x = [ok |-> FALSE, rpdu |-> <<>>, wire |-> w]
  BY DEF ReadBody
<1> HIDE DEF M
<1>4. ASSUME NEW n \in 1 .. M,
             x = [ok |-> TRUE, rpdu |-> r \o SubSeq(w, 1, n), wire |-> SubSeq(w, n + 1, Len(w))]
      PROVE  ReadOf(x, r, w)
  <2> DEFINE a == SubSeq(w, 1, n)
             b == SubSeq(w, n + 1, Len(w))
  <2>1. n \in 1 .. Len(w) /\ n \in Nat /\ n <= z - Len(r)
    BY <1>1, <1>2, SMT
  <2>2. /\ a \in Seq(Unit) /\ Len(a) = n /\ b \in Seq(Unit) /\ Len(b) = Len(w) - n
        /\ (r \o a) \o b = r \o w
    BY <2>1, <1>0, CutInTwo
  <2>3. x.ok = TRUE /\ x.rpdu = r \o a /\ x.wire = b
    BY <1>4
  <2> HIDE DEF a, b
  <2>4. /\ r \o a \in Seq(Unit) /\ Len(r \o a) = Len(r) + n
        /\ \A i \in 1 .. Len(r) + Len(a) : (r \o a)[i] = IF i <= Len(r) THEN r[i] ELSE a[i - Len(r)]
    BY <1>0, <2>2, SeqConcat
  <2>5. (r \o a)[1] = r[1]
    <3>1. 1 \in 1 .. Len(r) + Len(a) /\ 1 <= Len(r)
      BY <2>1, <2>2, <1>1, SMT
    <3> QED BY <3>1, <2>4
  <2>6. Begins(r \o a)
    <3>1. Len(r) + n <= z
      BY <2>1, <1>1, SMT
    <3> QED BY <3>1, <2>4, <2>5 DEF Begins
  <2>7. r \o a # <<>>
    <3>1. Len(r) + n # 0
      BY <2>1, <1>1, SMT
    <3> QED BY <3>1, <2>4, SeqEmpty
  <2>8. Len(b) <= Len(w)
    BY <2>1, <2>2, <1>1, SMT
  <2> QED BY <2>2, <2>3, <2>6, <2>7, <2>8 DEF ReadOf
<1>5. ASSUME w = <<>>, x = [ok |-> TRUE, rpdu |-> r, wire |-> w] PROVE ReadOf(x, r, w)
  <2>1. x.ok = TRUE /\ x.rpdu = r /\ x.wire = w
    BY <1>5
  <2>2. Len(w) <= Len(w)
    BY <1>1, SMT
  <2> QED BY <2>1, <2>2, <1>0 DEF ReadOf, Begins
<1>6. ASSUME x = [ok |-> FALSE, rpdu |-> <<>>, wire |-> w] PROVE ReadOf(x, r, w)
  <2>1. x.ok = FALSE /\ x.rpdu = <<>> /\ x.wire = w
    BY <1>6
  <2>2. Len(w) <= Len(w)
    BY <1>1, SMT
  <2> QED BY <2>1, <2>2 DEF ReadOf
<1> QED BY <1>3, <1>4, <1>5, <1>6

(* readpdu keeps the stream, or gives it up. *)
LEMMA ReadpduReads ==
  ASSUME NEW e, Begins(rpdu[e]), wire[Peer(e)] \in Seq(Unit), NEW x \in readpdu(e)
  PROVE  ReadOf(x, rpdu[e], wire[Peer(e)])
<1> DEFINE w == wire[Peer(e)]
<1>0. Len(w) \in Nat /\ Len(w) <= Len(w)
  <2>1. Len(w) \in Nat
    BY SeqLength
  <2> QED BY <2>1, SMT
<1>1. CASE Complete(rpdu[e])
  <2>1. x = [ok |-> TRUE, rpdu |-> rpdu[e], wire |-> w]
    BY <1>1 DEF readpdu
  <2>2. x.ok = TRUE /\ x.rpdu = rpdu[e] /\ x.wire = w
    BY <2>1
  <2> QED BY <2>2, <1>0, <1>1 DEF ReadOf, Complete
<1>2. CASE ~Complete(rpdu[e]) /\ rpdu[e] # <<>>
  <2>1. x \in ReadBody(e, rpdu[e], w)
    BY <1>2 DEF readpdu
  <2> QED BY <2>1, <1>2, ReadBodyReads
<1>3. CASE ~Complete(rpdu[e]) /\ rpdu[e] = <<>>
  <2>1. x \in ReadHeader(e, w)
    BY <1>3 DEF readpdu
  <2>2. \/ w # <<>> /\ x \in ReadBody(e, <<Head(w)>>, Tail(w))
        \/ x = [ok |-> FALSE, rpdu |-> <<>>, wire |-> w]
    BY <2>1 DEF ReadHeader
  <2>3. ASSUME x = [ok |-> FALSE, rpdu |-> <<>>, wire |-> w] PROVE ReadOf(x, rpdu[e], w)
    <3>1. x.ok = FALSE /\ x.rpdu = <<>> /\ x.wire = w
      BY <2>3
    <3> QED BY <3>1, <1>0 DEF ReadOf
  <2>4. ASSUME w # <<>>, x \in ReadBody(e, <<Head(w)>>, Tail(w)) PROVE ReadOf(x, rpdu[e], w)
    <3> DEFINE h == <<Head(w)>>
    <3>1. Head(w) \in Unit /\ Tail(w) \in Seq(Unit) /\ Len(Tail(w)) = Len(w) - 1
      BY <2>4, SeqTail
    <3>2. h \in Seq(Unit) /\ Len(h) = 1 /\ h # <<>> /\ h[1] = Head(w)
      BY <3>1, SMT
    <3>3. h \o Tail(w) = w
      BY <2>4, <3>1, SMT
    <3>4. Head(w)[1] \in Thread
      BY <3>1 DEF Unit
    <3>5. 1 <= Size[Head(w)[1]]
      BY <3>4, PduUnits, SMT
    <3>6. Begins(h)
      BY <3>2, <3>5 DEF Begins
    <3>7. ReadOf(x, h, Tail(w))
      BY <2>4, <3>1, <3>2, <3>6, ReadBodyReads
    <3>8. <<>> \o w = w
      BY ConcatNothing
    <3> HIDE DEF h
    <3>9. Len(x.wire) <= Len(w)
      <4>1. Len(x.wire) \in Nat /\ Len(x.wire) <= Len(Tail(w))
        BY <3>7, SeqLength DEF ReadOf
      <4> QED BY <4>1, <3>1, <1>0, SMT
    <3> QED BY <1>3, <3>3, <3>7, <3>8, <3>9 DEF ReadOf
  <2> QED BY <2>2, <2>3, <2>4
<1> QED BY <1>1, <1>2, <1>3

(* What is left of thread t's PDU, of which a units are out, is written as far as
   there is room: m units, of a socket that had w in it. *)
WroteOf(x, w, t, a, m) ==
  /\ x.ok = TRUE
  /\ x.wpdu = [buf |-> t, sz |-> Size[t], solong |-> a + m]
  /\ x.wire = w \o SubSeq(Pdu(t), a + 1, a + m)
  /\ m \in Nat /\ a + m <= Size[t] /\ Len(w) + m <= SocketBuffer

(* Or write fails. *)
WriteFailed(x, w, t) ==
  x.ok = FALSE /\ x.wpdu = [buf |-> t, sz |-> 0, solong |-> -1] /\ x.wire = w

(* What writepdu does. *)
LEMMA WritepduWrites ==
  ASSUME NEW e, wire[e] \in Seq(Unit), Len(wire[e]) <= SocketBuffer, NEW t \in Thread,
         NEW a \in 0 .. Size[t], NEW down,
         NEW v, v = [buf |-> t, sz |-> Size[t], solong |-> a]
  PROVE  \/ WriteFailed(writepdu(e, v, down), wire[e], t)
         \/ \E m \in Nat : WroteOf(writepdu(e, v, down), wire[e], t, a, m)
<1> DEFINE n == Min({Room(e), Size[t] - a})
           x == writepdu(e, v, down)
<1>0. v.buf = t /\ v.sz = Size[t] /\ v.solong = a
  OBVIOUS
<1>1. Size[t] \in Nat /\ SocketBuffer \in Nat /\ Len(wire[e]) \in Nat
  BY PduUnits, SizeAssumption, SeqLength
<1>2. n \in Nat /\ a + n <= Size[t] /\ Len(wire[e]) + n <= SocketBuffer
  <2>1. Room(e) \in Nat /\ Size[t] - a \in Nat /\ Room(e) = SocketBuffer - Len(wire[e])
    BY <1>1, SMT DEF Room
  <2>2. Room(e) \in Int /\ Size[t] - a \in Int
    BY <2>1, SMT
  <2>3. n \in {Room(e), Size[t] - a} /\ n <= Room(e) /\ n <= Size[t] - a
    BY <2>2, MinOfTwo
  <2> HIDE DEF n
  <2>4. n \in Nat
    BY <2>1, <2>3
  <2> QED BY <2>1, <2>3, <2>4, <1>1, SMT
<1>3. CASE down \/ Gone(Peer(e))
  <2>1. x = [ok |-> FALSE, wpdu |-> [v EXCEPT !.solong = -1, !.sz = 0], wire |-> wire[e]]
    BY <1>3 DEF writepdu
  <2> HIDE DEF x
  <2>2. [v EXCEPT !.solong = -1, !.sz = 0] = [buf |-> t, sz |-> 0, solong |-> -1]
    <3> DEFINE c == -1
               y == [buf |-> t, sz |-> Size[t], solong |-> c]
    <3>1. [[v EXCEPT !.solong = c] EXCEPT !.sz = 0] = [v EXCEPT !.solong = -1, !.sz = 0]
      OBVIOUS
    <3> HIDE DEF c
    <3>2. [v EXCEPT !.solong = c] = y
      BY SMT
    <3>3. [y EXCEPT !.sz = 0] = [buf |-> t, sz |-> 0, solong |-> c]
      BY SMT
    <3> QED BY <3>1, <3>2, <3>3 DEF c
  <2>3. x.ok = FALSE /\ x.wpdu = [v EXCEPT !.solong = -1, !.sz = 0] /\ x.wire = wire[e]
    BY <2>1
  <2>4. WriteFailed(x, wire[e], t)
    BY <2>2, <2>3 DEF WriteFailed
  <2> QED BY <2>4 DEF x
<1>4. CASE ~(down \/ Gone(Peer(e)))
  <2>1. x = [ok |-> TRUE, wpdu |-> [v EXCEPT !.solong = @ + n],
             wire |-> wire[e] \o SubSeq(Pdu(t), a + 1, a + n)]
    BY <1>0, <1>4 DEF writepdu
  <2> HIDE DEF n, x
  <2>2. [v EXCEPT !.solong = @ + n] = [buf |-> t, sz |-> Size[t], solong |-> a + n]
    BY SMT
  <2>3. x.ok = TRUE /\ x.wpdu = [v EXCEPT !.solong = @ + n]
        /\ x.wire = wire[e] \o SubSeq(Pdu(t), a + 1, a + n)
    BY <2>1
  <2>4. WroteOf(x, wire[e], t, a, n)
    BY <2>2, <2>3, <1>2 DEF WroteOf
  <2> QED BY <2>4, <1>2 DEF x
<1> QED BY <1>3, <1>4

-----------------------------------------------------------------------------
(* What is written on each end, and what arrives *)

(* One thread at a time writes on an end: the last that send accepted. *)
Writing(e) ==
  LET w == wpdu[e] IN
  /\ w.buf = NoThread => w.sz = 0
  /\ w.buf # NoThread => /\ w.buf \in Thread /\ On(w.buf) = e /\ at[w.buf] \in Writers
                         /\ order[e] # <<>> /\ order[e][Len(order[e])] = w.buf
  /\ w.buf # NoThread /\ ~dead[e] => /\ w = [buf |-> w.buf, sz |-> Size[w.buf], solong |-> w.solong]
                                     /\ w.solong \in 0 .. Size[w.buf]

(* Those who have sent, have sent once. *)
Accepted(e) ==
  /\ \A i \in 1 .. Len(order[e]) : /\ On(order[e][i]) = e /\ order[e][i][2] \in Call
                                   /\ at[order[e][i]] \in Begun
  /\ \A i, j \in 1 .. Len(order[e]) : order[e][i] = order[e][j] => i = j

(* The next unit that an end will write, which has accepted o and has v as wpdu_. *)
Goes_on(o, v, s, p, k) ==
  IF v.buf # NoThread /\ v.solong < v.sz
  THEN Ends_at(s, p, k, Len(o), v.solong + 1)
  ELSE Ends_at(s, p, k, Len(o) + 1, 1)

(* Of the PDUs of o, n have been given to got_pdu, and s is under way; more is to
   come, unless no more is written because the end is dead. *)
Flows(o, n, s, v, ended) ==
  \E p, k : Traced(o, n, s, p, k) /\ (~ended => Goes_on(o, v, s, p, k))

(* The peer of e is given what e has accepted, and while it lives the rest of that is
   on the way, without gaps. *)
Stream(e) == rpdu[Peer(e)] \o wire[e]
Arriving(e) ==
  /\ Begins(rpdu[e])
  /\ Len(wire[e]) <= SocketBuffer
  /\ Len(got[e]) <= Len(order[Peer(e)])
  /\ \A i \in 1 .. Len(got[e]) : got[e][i] = Pdu(order[Peer(e)][i])
Flowing(e) ==
  ~dead[Peer(e)] => Flows(order[e], Len(got[Peer(e)]), Stream(e), wpdu[e], dead[e])

(* A job is the work of a request that has been read. *)
InvJobs ==
  \A x \in Call : at[Job(x)] # "out" =>
    \E i \in 1 .. Len(got[Server]) : order[Client][i] = Caller(x)

InvStream ==
  /\ wpdu \in [Fd -> [buf : Thread \cup {NoThread}, sz : Nat, solong : Int]]
  /\ rpdu \in [Fd -> Seq(Unit)] /\ wire \in [Fd -> Seq(Unit)]
  /\ order \in [Fd -> Seq(Thread)] /\ got \in [Fd -> Seq(Seq(Unit))]
  /\ \A t \in Thread : at[t] \in Writers => wpdu[On(t)].buf = t
  /\ \A e \in Fd : Writing(e) /\ Accepted(e) /\ Arriving(e) /\ Flowing(e)

-----------------------------------------------------------------------------
(* Steps and the stream *)

(* An end that is dead stays dead. *)
Dies == dead' \in [Fd -> BOOLEAN] /\ \A e \in Fd : dead[e] => dead'[e]

(* u begins to write in no step of these, and is no job that starts. *)
Kept(u) ==
  /\ at'[u] \in Writers <=> at[u] \in Writers
  /\ at[u] \in Begun => at'[u] \in Begun
  /\ at[u] # "out" \/ at'[u] = "out" \/ On(u) = Client \/ u[2] = Closer

(* Threads that are signalled are of this kind. *)
LEMMA WokenKept ==
  ASSUME NEW u, Woken(u)
  PROVE  Kept(u)
BY SameRole DEF Kept

(* And so are all if the one that moves is. *)
LEMMA AllKept ==
  ASSUME NEW t \in Thread, Others(t), Kept(t)
  PROVE  \A u \in Thread : Kept(u)
BY WokenKept DEF Others

(* Nothing is written or read. *)
LEMMA SameStream ==
  ASSUME InvStream, InvJobs, UNCHANGED <<wpdu, rpdu, wire, order, got>>, Dies,
         \A u \in Thread : Kept(u)
  PROVE  InvStream' /\ InvJobs'
<1>1. UNCHANGED <<wpdu, rpdu, wire, order, got>>
  OBVIOUS
<1>2. ASSUME NEW t \in Thread, at'[t] \in Writers PROVE wpdu[On(t)].buf = t
  BY <1>2 DEF InvStream, Kept
<1>3. ASSUME NEW e \in Fd PROVE Writing(e)'
  <2>1. Writing(e) /\ (~dead'[e] => ~dead[e])
    BY DEF InvStream, Dies
  <2>2. wpdu[e].buf # NoThread => wpdu[e].buf \in Thread /\ at'[wpdu[e].buf] \in Writers
    BY <2>1 DEF Writing, Kept
  <2> QED BY <2>1, <2>2, <1>1 DEF Writing
<1>4. ASSUME NEW e \in Fd PROVE Accepted(e)'
  <2>1. order[e] \in Seq(Thread) /\ Accepted(e)
    BY DEF InvStream
  <2>2. ASSUME NEW i \in 1 .. Len(order[e]) PROVE at'[order[e][i]] \in Begun
    <3>1. order[e][i] \in Thread
      BY <2>1, SeqElement
    <3> QED BY <2>1, <3>1 DEF Accepted, Kept
  <2> QED BY <2>1, <2>2, <1>1 DEF Accepted
<1>5. ASSUME NEW e \in Fd PROVE Arriving(e)'
  BY <1>1 DEF InvStream, Arriving
<1>6. ASSUME NEW e \in Fd PROVE Flowing(e)'
  <2>1. Flowing(e) /\ (~dead'[e] => ~dead[e]) /\ (~dead'[Peer(e)] => ~dead[Peer(e)])
    BY Ends DEF InvStream, Dies
  <2>2. Stream(e)' = Stream(e)
    BY <1>1 DEF Stream
  <2>3. \A o, n, s, v : Flows(o, n, s, v, dead[e]) => Flows(o, n, s, v, dead'[e])
    BY <2>1 DEF Flows
  <2> QED BY <2>1, <2>2, <2>3, <1>1 DEF Flowing
<1>7. InvJobs'
  <2>1. ASSUME NEW x \in Call, at'[Job(x)] # "out" PROVE at[Job(x)] # "out"
    <3>1. Job(x) \in Thread /\ On(Job(x)) = Server /\ Job(x)[2] = x /\ x # Closer /\ Client # Server
      BY Threads, Ends, EndsAssumption DEF Job
    <3> QED BY <2>1, <3>1 DEF Kept
  <2> QED BY <2>1, <1>1 DEF InvJobs
<1> QED BY <1>1, <1>2, <1>3, <1>4, <1>5, <1>6, <1>7 DEF InvStream

(* A step that writes on end e: what it leaves alone. *)
WritesOn(e) ==
  /\ UNCHANGED <<rpdu, got>> /\ Dies
  /\ wpdu' \in [Fd -> [buf : Thread \cup {NoThread}, sz : Nat, solong : Int]]
  /\ wire' \in [Fd -> Seq(Unit)] /\ order' \in [Fd -> Seq(Thread)]
  /\ \A f \in Fd : f # e => wpdu'[f] = wpdu[f] /\ wire'[f] = wire[f] /\ order'[f] = order[f]
  /\ Len(order[e]) <= Len(order'[e])
  /\ \A i \in 1 .. Len(order[e]) : order'[e][i] = order[e][i]
  /\ \A u \in Thread : On(u) # e => Kept(u)
  /\ \A u \in Thread : at[u] = "out" => at'[u] = "out"

(* And what it must take care of. *)
LEMMA EndStream ==
  ASSUME InvStream, InvJobs, NEW e \in Fd, WritesOn(e),
         \A t \in Thread : On(t) = e /\ at'[t] \in Writers => wpdu'[e].buf = t,
         Writing(e)', Accepted(e)', Len(wire'[e]) <= SocketBuffer, Flowing(e)'
  PROVE  InvStream' /\ InvJobs'
<1>1. UNCHANGED <<rpdu, got>>
  BY DEF WritesOn
<1>2. ASSUME NEW t \in Thread, at'[t] \in Writers PROVE wpdu'[On(t)].buf = t
  <2>1. CASE On(t) = e
    BY <2>1, <1>2
  <2>2. CASE On(t) # e
    BY <2>2, <1>2, Threads DEF InvStream, Kept, WritesOn
  <2> QED BY <2>1, <2>2
<1>3. ASSUME NEW f \in Fd, f # e PROVE Writing(f)' /\ Accepted(f)' /\ Flowing(f)'
  <2>0. wpdu'[f] = wpdu[f] /\ wire'[f] = wire[f] /\ order'[f] = order[f]
    BY <1>3 DEF WritesOn
  <2>1. Writing(f) /\ Accepted(f) /\ Flowing(f) /\ order[f] \in Seq(Thread)
    BY DEF InvStream
  <2>2. (~dead'[f] => ~dead[f]) /\ (~dead'[Peer(f)] => ~dead[Peer(f)])
    BY Ends DEF WritesOn, Dies
  <2>3. wpdu[f].buf # NoThread => wpdu[f].buf \in Thread /\ at'[wpdu[f].buf] \in Writers
    BY <1>3, <2>1 DEF Writing, Kept, WritesOn
  <2>4. Writing(f)'
    BY <2>0, <2>1, <2>2, <2>3 DEF Writing
  <2>5. ASSUME NEW i \in 1 .. Len(order[f]) PROVE at'[order[f][i]] \in Begun
    <3>1. order[f][i] \in Thread
      BY <2>1, SeqElement
    <3> QED BY <1>3, <2>1, <3>1 DEF Accepted, Kept, WritesOn
  <2>6. Accepted(f)'
    BY <2>0, <2>1, <2>5 DEF Accepted
  <2>7. Stream(f)' = Stream(f)
    BY <2>0, <1>1 DEF Stream
  <2>8. \A o, n, s, v : Flows(o, n, s, v, dead[f]) => Flows(o, n, s, v, dead'[f])
    BY <2>2 DEF Flows
  <2>9. Flowing(f)'
    BY <2>0, <2>1, <2>2, <2>7, <2>8, <1>1 DEF Flowing
  <2> QED BY <2>4, <2>6, <2>9
<1>4. \A f \in Fd : Writing(f)' /\ Accepted(f)' /\ Flowing(f)'
  BY <1>3
<1>5. ASSUME NEW f \in Fd
      PROVE  /\ Len(order[f]) <= Len(order'[f])
             /\ \A i \in 1 .. Len(order[f]) : order'[f][i] = order[f][i]
  <2>1. CASE f = e
    BY <2>1 DEF WritesOn
  <2>2. CASE f # e
    <3>1. order'[f] = order[f] /\ Len(order[f]) \in Nat
      BY <2>2, SeqLength DEF WritesOn, InvStream
    <3>2. Len(order[f]) <= Len(order[f])
      BY <3>1, SMT
    <3> QED BY <3>1, <3>2
  <2> QED BY <2>1, <2>2
<1>6. ASSUME NEW f \in Fd PROVE Len(got[f]) <= Len(order[Peer(f)]) /\ Len(got[f]) <= Len(order'[Peer(f)])
  <2>0. Peer(f) \in Fd
    BY Ends
  <2>1. /\ Len(got[f]) <= Len(order[Peer(f)])
        /\ Len(order[Peer(f)]) <= Len(order'[Peer(f)])
    BY <2>0, <1>5 DEF InvStream, Arriving
  <2>2. Len(got[f]) \in Nat /\ Len(order[Peer(f)]) \in Nat /\ Len(order'[Peer(f)]) \in Nat
    BY <2>0, SeqLength DEF InvStream, WritesOn
  <2> DEFINE g == Len(got[f])
             a == Len(order[Peer(f)])
             b == Len(order'[Peer(f)])
  <2> HIDE DEF g, a, b
  <2>3. g \in Nat /\ a \in Nat /\ b \in Nat /\ g <= a /\ a <= b
    BY <2>1, <2>2 DEF g, a, b
  <2>4. g <= a /\ g <= b
    BY <2>3, SMT
  <2> QED BY <2>4 DEF g, a, b
<1>7. ASSUME NEW f \in Fd, NEW i \in 1 .. Len(got[f]) PROVE order'[Peer(f)][i] = order[Peer(f)][i]
  <2>1. Len(got[f]) \in Nat /\ Len(order[Peer(f)]) \in Nat /\ Peer(f) \in Fd
    BY Ends, SeqLength DEF InvStream
  <2>2. Len(got[f]) <= Len(order[Peer(f)])
    BY <1>6
  <2> DEFINE g == Len(got[f])
             a == Len(order[Peer(f)])
  <2>3. i \in 1 .. g
    OBVIOUS
  <2> HIDE DEF g, a
  <2>4. g \in Nat /\ a \in Nat /\ g <= a
    BY <2>1, <2>2 DEF g, a
  <2>5. i \in 1 .. a
    BY <2>3, <2>4, SMT
  <2> QED BY <2>1, <2>5, <1>5 DEF a
<1>8. ASSUME NEW f \in Fd PROVE Arriving(f)'
  <2>1. Arriving(f)
    BY DEF InvStream
  <2>2. Len(wire'[f]) <= SocketBuffer
    BY <2>1 DEF Arriving, WritesOn
  <2> QED BY <2>1, <2>2, <1>1, <1>6, <1>7 DEF Arriving
<1>9. InvJobs'
  <2>1. ASSUME NEW x \in Call, at'[Job(x)] # "out" PROVE at[Job(x)] # "out"
    BY <2>1, Threads DEF WritesOn
  <2>2. \A i \in 1 .. Len(got[Server]) : order'[Client][i] = order[Client][i]
    <3>1. Server \in Fd /\ Peer(Server) = Client
      BY Ends
    <3>2. \A i \in 1 .. Len(got[Server]) : order'[Peer(Server)][i] = order[Peer(Server)][i]
      BY <3>1, <1>7
    <3> QED BY <3>1, <3>2
  <2> QED BY <2>1, <2>2, <1>1 DEF InvJobs
<1> QED BY <1>1, <1>2, <1>4, <1>8, <1>9 DEF InvStream, WritesOn

(* send returns: all of its PDU is written, or the end is dead. *)
LEMMA ReturnedStream ==
  ASSUME InvStream, InvJobs, at \in [Thread -> Places], dead \in [Fd -> BOOLEAN],
         NEW t \in Thread, at[t] \in Writers, NEW ok \in BOOLEAN, SendReturns(t, ok),
         UNCHANGED <<rpdu, wire, order, got, dead>>,
         dead[On(t)] \/ ~(wpdu[On(t)].solong < wpdu[On(t)].sz)
  PROVE  InvStream' /\ InvJobs'
<1> DEFINE e == On(t)
<1>0. e \in Fd
  BY Threads
<1>1. Others(t) /\ at'[t] \in {"sent", "failed"}
  BY Returned
<1>2. UNCHANGED <<rpdu, wire, order, got, dead>>
  OBVIOUS
<1>3. /\ wpdu' \in [Fd -> [buf : Thread \cup {NoThread}, sz : Nat, solong : Int]]
      /\ wpdu'[e] = Idle /\ \A f \in Fd : f # e => wpdu'[f] = wpdu[f]
  <2>1. wpdu \in [Fd -> [buf : Thread \cup {NoThread}, sz : Nat, solong : Int]]
    BY DEF InvStream
  <2>2. wpdu' = [wpdu EXCEPT ![e] = Idle]
    BY DEF SendReturns
  <2>3. Idle \in [buf : Thread \cup {NoThread}, sz : Nat, solong : Int]
    BY SMT DEF Idle
  <2> HIDE DEF e
  <2> QED BY <1>0, <2>1, <2>2, <2>3
<1>4. Idle.buf = NoThread /\ Idle.sz = 0
  BY DEF Idle
<1> HIDE DEF e
<1>5. wpdu[e].buf = t /\ Accepted(e) /\ Flowing(e) /\ Arriving(e) /\ order[e] \in Seq(Thread)
  BY <1>0 DEF InvStream, e
<1>6. ASSUME NEW u \in Thread, On(u) = e PROVE at'[u] \notin Writers
  <2>1. CASE u = t
    BY <2>1, <1>1 DEF Writers
  <2>2. CASE u # t
    <3>1. at[u] \notin Writers
      BY <2>2, <1>5, <1>6 DEF InvStream
    <3> QED BY <2>2, <3>1, <1>1, SameRole DEF Others
  <2> QED BY <2>1, <2>2
<1>7. WritesOn(e)
  <2>1. Dies
    BY <1>2 DEF Dies
  <2>2. /\ Len(order[e]) <= Len(order'[e])
        /\ \A i \in 1 .. Len(order[e]) : order'[e][i] = order[e][i]
    <3>1. Len(order[e]) \in Nat
      BY <1>5, SeqLength
    <3>2. Len(order[e]) <= Len(order[e])
      BY <3>1, SMT
    <3> QED BY <3>2, <1>2
  <2>3. ASSUME NEW u \in Thread, On(u) # e PROVE Kept(u)
    <3>1. u # t
      BY <2>3 DEF e
    <3> QED BY <3>1, <1>1, WokenKept DEF Others
  <2>4. ASSUME NEW u \in Thread, at[u] = "out" PROVE at'[u] = "out"
    <3>1. u # t
      BY <2>4 DEF Writers
    <3> QED BY <3>1, <2>4, <1>1, SameRole DEF Others
  <2> QED BY <2>1, <2>2, <2>3, <2>4, <1>2, <1>3 DEF WritesOn, InvStream
<1>8. Writing(e)'
  BY <1>3, <1>4 DEF Writing
<1>9. Accepted(e)'
  <2>1. ASSUME NEW i \in 1 .. Len(order[e]) PROVE at'[order[e][i]] \in Begun
    <3>1. order[e][i] \in Thread /\ at[order[e][i]] \in Begun
      BY <1>5, SeqElement DEF Accepted
    <3>2. CASE order[e][i] = t
      BY <3>2, <1>1 DEF Begun
    <3>3. CASE order[e][i] # t
      BY <3>1, <3>3, <1>1, SameRole DEF Others
    <3> QED BY <3>2, <3>3
  <2> QED BY <2>1, <1>2, <1>5 DEF Accepted
<1>10. Flowing(e)'
  <2>1. \A o, n, s : Flows(o, n, s, wpdu[e], dead[e]) => Flows(o, n, s, wpdu'[e], dead[e])
    <3>1. ~dead[e] => ~(wpdu[e].solong < wpdu[e].sz)
      BY DEF e
    <3>2. \A o, s, p, k : ~dead[e] /\ Goes_on(o, wpdu[e], s, p, k) => Goes_on(o, wpdu'[e], s, p, k)
      BY <3>1, <1>3, <1>4 DEF Goes_on
    <3> QED BY <3>2 DEF Flows
  <2>2. Stream(e)' = Stream(e)
    BY <1>2 DEF Stream
  <2> QED BY <2>1, <2>2, <1>2, <1>5 DEF Flowing
<1>11. Len(wire'[e]) <= SocketBuffer
  BY <1>2, <1>5 DEF Arriving
<1> QED BY <1>0, <1>6, <1>7, <1>8, <1>9, <1>10, <1>11, EndStream

(* The unit that follows s is the one after the first a of the last PDU of o, or
   the first of the next. *)
NextAt(o, s, p, k, a) ==
  IF a < Size[o[Len(o)]] THEN Ends_at(s, p, k, Len(o), a + 1) ELSE Ends_at(s, p, k, Len(o) + 1, 1)

(* Of the last PDU of o, that of t, a units are out, or all. *)
OutUpTo(o, n, s, t, a) ==
  /\ o # <<>> /\ o[Len(o)] = t
  /\ \E p, k : Traced(o, n, s, p, k) /\ NextAt(o, s, p, k, a)

(* m more are to go, and have gone. *)
Left(t, a, m) == a \in 0 .. Size[t] /\ m \in Nat /\ a + m <= Size[t]
OutNow(o, n, s, t, a, m, u) == u \in Seq(Unit) /\ Len(u) = m /\ OutUpTo(o, n, s \o u, t, a + m)

(* u is m units. *)
Units(u, m) == u \in Seq(Unit) /\ Len(u) = m

(* What writepdu takes from a PDU is units of it, one after the other. *)
LEMMA PartOfPdu ==
  ASSUME NEW t \in Thread, NEW a, NEW m, Left(t, a, m)
  PROVE  Units(SubSeq(Pdu(t), a + 1, a + m), m)
<1>1. a \in 0 .. Size[t] /\ m \in Nat /\ a + m <= Size[t]
  BY DEF Left
<1>2. Size[t] \in Nat /\ \A i \in 1 .. Size[t] : Pdu(t)[i] \in Unit
  BY PduUnits
<1> DEFINE z == Size[t]
<1> HIDE DEF z
<1>3. a \in 0 .. z /\ m \in Nat /\ a + m <= z /\ z \in Nat
  BY <1>1, <1>2 DEF z
<1>4. \A i \in (a + 1) .. (a + m) : i \in 1 .. z
  BY <1>3, SMT
<1>5. \A i \in (a + 1) .. (a + m) : Pdu(t)[i] \in Unit
  BY <1>2, <1>4 DEF z
<1>6. a + 1 \in Int /\ a + m \in Int
  BY <1>3, SMT
<1> DEFINE u == SubSeq(Pdu(t), a + 1, a + m)
<1>7. u \in Seq(Unit) /\ Len(u) = IF a + 1 <= a + m THEN (a + m) - (a + 1) + 1 ELSE 0
  BY <1>5, <1>6, SeqSub
<1> HIDE DEF u
<1>8. Len(u) = m
  BY <1>3, <1>7, SMT
<1> QED BY <1>7, <1>8 DEF u, Units

(* Some more units of the last PDU are written, or none. *)
LEMMA WrittenOn ==
  ASSUME NEW o \in Seq(Thread), NEW n \in Nat, NEW s \in Seq(Unit), NEW t \in Thread,
         NEW a, NEW m, Left(t, a, m), OutUpTo(o, n, s, t, a)
  PROVE  OutNow(o, n, s, t, a, m, SubSeq(Pdu(t), a + 1, a + m))
<1> a \in 0 .. Size[t] /\ m \in Nat /\ a + m <= Size[t]
  BY DEF Left
<1> o # <<>> /\ o[Len(o)] = t
  BY DEF OutUpTo
<1> PICK p, k : Traced(o, n, s, p, k) /\ NextAt(o, s, p, k, a)
  BY DEF OutUpTo
<1> DEFINE u == SubSeq(Pdu(t), a + 1, a + m)
           z == s \o u
<1>0. Size[t] \in Nat
  BY PduUnits
<1>1. a \in Nat /\ a <= Size[t] /\ a + m \in Nat
  BY <1>0, SMT
<1>2. CASE a < Size[t]
  <2>1. Ends_at(s, p, k, Len(o), a + 1)
    BY <1>2 DEF NextAt
  <2>2. Midway(o, n, s, p, k, t, a, m)
    BY <2>1, <1>1, <1>2 DEF Midway
  <2>a. Further(o, n, s, t, a, m, u)
    BY <2>2, <1>1, TracedWrite
  <2> HIDE DEF u
  <2>3. PICK q, l : /\ Traced(o, n, z, q, l)
                    /\ a + m < Size[t] => Ends_at(z, q, l, Len(o), a + m + 1)
                    /\ a + m = Size[t] => Ends_at(z, q, l, Len(o) + 1, 1)
    BY <2>a DEF Further
  <2> HIDE DEF z
  <2>4. a + m < Size[t] \/ a + m = Size[t]
    BY <1>0, <1>1, SMT
  <2>5. a + m = Size[t] => ~(a + m < Size[t])
    BY <1>0, <1>1, SMT
  <2>6. NextAt(o, z, q, l, a + m)
    BY <2>3, <2>4, <2>5 DEF NextAt
  <2> QED BY <2>a, <2>3, <2>6 DEF u, z, Further, OutUpTo, OutNow
<1>3. CASE ~(a < Size[t])
  <2>1. m = 0 /\ a + m = a
    BY <1>0, <1>1, <1>3, SMT
  <2>2. a + 1 \in Int /\ a \in Int /\ a < a + 1
    BY <1>1, SMT
  <2>3. u = <<>>
    BY <2>1, <2>2, SubNothing
  <2> HIDE DEF u
  <2>4. u \in Seq(Unit) /\ Len(u) = m
    BY <2>1, <2>3, SeqEmpty
  <2>5. z = s
    BY <2>3, ConcatNothing
  <2> HIDE DEF z
  <2> QED BY <2>1, <2>4, <2>5 DEF u, z, OutNow
<1> QED BY <1>2, <1>3

(* The end's socket has taken m units more of the PDU of t, the last that send
   accepted. *)
LEMMA FlowsOn ==
  ASSUME NEW e \in Fd, NEW r \in Seq(Unit), NEW w \in Seq(Unit), NEW o \in Seq(Thread), NEW n \in Nat,
         NEW t \in Thread, NEW a, NEW m, Left(t, a, m), OutUpTo(o, n, r \o w, t, a),
         Len(w) + m <= SocketBuffer, NEW v,
         v = w \o SubSeq(Pdu(t), a + 1, a + m)
  PROVE  /\ v \in Seq(Unit) /\ Len(v) <= SocketBuffer
         /\ OutUpTo(o, n, r \o v, t, a + m)
<1> DEFINE u == SubSeq(Pdu(t), a + 1, a + m)
           s == r \o w
<1>1. s \in Seq(Unit) /\ OutUpTo(o, n, s, t, a)
  BY Concatenated
<1> HIDE DEF s
<1>2. OutNow(o, n, s, t, a, m, u)
  BY <1>1, WrittenOn
<1>3. u \in Seq(Unit) /\ Len(u) = m /\ OutUpTo(o, n, (r \o w) \o u, t, a + m)
  BY <1>2 DEF s, OutNow
<1> HIDE DEF u
<1>4. u \in Seq(Unit)
  BY <1>3
<1>5. (r \o w) \o u = r \o v
  BY <1>4, Regroup DEF u
<1>6. v \in Seq(Unit) /\ Len(v) = Len(w) + Len(u)
  BY <1>4, Concatenated DEF u
<1> QED BY <1>3, <1>5, <1>6

(* A step in which thread t starts to write on end e: w is in the socket then, v is
   wpdu_, and ended says whether the write failed. *)
Starts(t, e, w, v, ended) ==
  /\ order' = [order EXCEPT ![e] = Append(@, t)]
  /\ wire' = [wire EXCEPT ![e] = w]
  /\ wpdu' = [wpdu EXCEPT ![e] = v]
  /\ dead' = [dead EXCEPT ![e] = ended]
  /\ UNCHANGED <<rpdu, got>>
  /\ w \in Seq(Unit) /\ Len(w) <= SocketBuffer
  /\ v \in [buf : Thread \cup {NoThread}, sz : Nat, solong : Int]
  /\ ended \in BOOLEAN

(* wpdu_ of an end on which t writes, or nobody does. *)
WpduOf(v, t, ended) ==
  /\ v.buf \in {t, NoThread} /\ (at'[t] \in Writers <=> v.buf = t)
  /\ v.buf = NoThread => v.sz = 0
  /\ v.buf = t /\ ~ended => /\ v = [buf |-> t, sz |-> Size[t], solong |-> v.solong]
                            /\ v.solong \in 0 .. Size[t]

(* send starts to write: the stream goes on with the units of its PDU. *)
LEMMA StartsStream ==
  ASSUME InvStream, InvJobs, at \in [Thread -> Places], dead \in [Fd -> BOOLEAN],
         NEW t \in Thread, SendBegins(t), ~dead[On(t)], ~Busy(On(t)), t[2] \in Call,
         Others(t), at'[t] \in Begun, NEW w, NEW v, NEW ended,
         Starts(t, On(t), w, v, ended), WpduOf(v, t, ended),
         LET f == Peer(On(t)) IN
         ~dead[f] => Flows(Append(order[On(t)], t), Len(got[f]), rpdu[f] \o w, v, ended)
  PROVE  InvStream' /\ InvJobs'
<1> DEFINE e == On(t)
           f == Peer(e)
<1>0. e \in Fd /\ f \in Fd /\ f # e
  BY Threads, Ends
<1>1. ~dead[f] => Flows(Append(order[e], t), Len(got[f]), rpdu[f] \o w, v, ended)
  OBVIOUS
<1>2. On(t) = e /\ Starts(t, e, w, v, ended) /\ ~dead[e] /\ wpdu[e].buf = NoThread
  BY DEF Busy
<1>3. /\ order \in [Fd -> Seq(Thread)] /\ wire \in [Fd -> Seq(Unit)]
      /\ wpdu \in [Fd -> [buf : Thread \cup {NoThread}, sz : Nat, solong : Int]]
      /\ Accepted(e) /\ Arriving(e)
  BY <1>0 DEF InvStream
<1>f. f = Peer(e)
  OBVIOUS
<1> HIDE DEF e, f
<1>4. /\ order' \in [Fd -> Seq(Thread)] /\ order'[e] = Append(order[e], t)
      /\ \A g \in Fd : g # e => order'[g] = order[g]
  <2>1. order[e] \in Seq(Thread)
    BY <1>0, <1>3
  <2>2. Append(order[e], t) \in Seq(Thread)
    BY <2>1, SeqAppend
  <2>3. order' = [order EXCEPT ![e] = Append(order[e], t)]
    BY <1>2 DEF Starts
  <2> QED BY <2>2, <2>3, <1>0, <1>3
<1>5. /\ wire' \in [Fd -> Seq(Unit)] /\ wire'[e] = w
      /\ \A g \in Fd : g # e => wire'[g] = wire[g]
  BY <1>0, <1>2, <1>3, SMT DEF Starts
<1>6. /\ wpdu' \in [Fd -> [buf : Thread \cup {NoThread}, sz : Nat, solong : Int]]
      /\ wpdu'[e] = v /\ \A g \in Fd : g # e => wpdu'[g] = wpdu[g]
  <2>1. /\ v \in [buf : Thread \cup {NoThread}, sz : Nat, solong : Int]
        /\ wpdu' = [wpdu EXCEPT ![e] = v]
    BY <1>2 DEF Starts
  <2> QED BY <2>1, <1>0, <1>3
<1>7. /\ dead' \in [Fd -> BOOLEAN] /\ dead'[e] = ended
      /\ \A g \in Fd : g # e => dead'[g] = dead[g]
  <2>1. ended \in BOOLEAN /\ dead' = [dead EXCEPT ![e] = ended]
    BY <1>2 DEF Starts
  <2> QED BY <2>1, <1>0
<1>8. Dies
  BY <1>0, <1>2, <1>7 DEF Dies
<1>9. UNCHANGED <<rpdu, got>> /\ Len(w) <= SocketBuffer
  BY <1>2 DEF Starts
<1>10. /\ Len(order'[e]) = Len(order[e]) + 1 /\ Len(order[e]) \in Nat
       /\ \A i \in 1 .. Len(order[e]) : order'[e][i] = order[e][i]
       /\ order'[e][Len(order[e]) + 1] = t
  <2>1. order[e] \in Seq(Thread)
    BY <1>0, <1>3
  <2>2. Longer(Append(order[e], t), order[e], t)
    BY <2>1, Appended
  <2>3. Longer(order'[e], order[e], t)
    BY <2>2, <1>4
  <2> QED BY <2>3 DEF Longer
<1>11. at[t] \notin Begun /\ at[t] \notin Writers /\ at[t] # "out"
  BY DEF SendBegins, Begun, Writers
<1>12. ASSUME NEW u \in Thread, On(u) = e, at'[u] \in Writers PROVE v.buf = u
  <2>1. u = t
    <3>1. ASSUME u # t PROVE FALSE
      <4>1. at[u] \in Writers
        BY <3>1, <1>12, SameRole DEF Others
      <4>2. wpdu[e].buf = u
        BY <4>1, <1>12 DEF InvStream
      <4> QED BY <4>2, <1>2, SizeAssumption
    <3> QED BY <3>1
  <2> QED BY <2>1, <1>12 DEF WpduOf
<1>13. WritesOn(e)
  <2>1. Len(order[e]) <= Len(order'[e])
    BY <1>10, NextNumber
  <2>2. ASSUME NEW u \in Thread, On(u) # e PROVE Kept(u)
    <3>1. u # t
      BY <2>2, <1>2
    <3> QED BY <3>1, WokenKept DEF Others
  <2>3. ASSUME NEW u \in Thread, at[u] = "out" PROVE at'[u] = "out"
    <3>1. u # t
      BY <2>3, <1>11
    <3> QED BY <3>1, <2>3, SameRole DEF Others
  <2> QED BY <2>1, <2>2, <2>3, <1>4, <1>5, <1>6, <1>8, <1>9, <1>10 DEF WritesOn
<1>14. Writing(e)'
  <2> DEFINE n == Len(order[e]) + 1
  <2>1. order'[e][Len(order'[e])] = t /\ order'[e] # <<>>
    <3>1. Len(order'[e]) # 0
      BY <1>10, NextNumber
    <3>2. Len(<<>>) = 0
      BY SeqEmpty
    <3> QED BY <3>1, <3>2, <1>10
  <2>2. t # NoThread
    BY SizeAssumption
  <2> QED BY <2>1, <2>2, <1>2, <1>6, <1>7 DEF Writing, WpduOf
<1>15. Accepted(e)'
  <2> DEFINE n == Len(order[e])
             N == n + 1
  <2>1. \A i \in 1 .. N : i \in 1 .. n \/ i = N
    BY <1>10, NextNumber
  <2>2. Len(order'[e]) = N /\ order'[e][N] = t /\ \A i \in 1 .. n : order'[e][i] = order[e][i]
    BY <1>10
  <2>3. ASSUME NEW i \in 1 .. n
        PROVE  /\ On(order[e][i]) = e /\ order[e][i][2] \in Call
               /\ at'[order[e][i]] \in Begun /\ order[e][i] # t
    <3>1. order[e][i] \in Thread
      <4>1. order[e] \in Seq(Thread)
        BY <1>0, <1>3
      <4> QED BY <4>1, SeqElement
    <3>2. On(order[e][i]) = e /\ order[e][i][2] \in Call /\ at[order[e][i]] \in Begun
      BY <1>3 DEF Accepted
    <3>3. order[e][i] # t
      BY <3>2, <1>11
    <3> QED BY <3>1, <3>2, <3>3, SameRole DEF Others
  <2>4. \A i, j \in 1 .. n : order[e][i] = order[e][j] => i = j
    BY <1>3 DEF Accepted
  <2> HIDE DEF n, N
  <2>5. \A i \in 1 .. N : /\ On(order'[e][i]) = e /\ order'[e][i][2] \in Call
                          /\ at'[order'[e][i]] \in Begun
    BY <2>1, <2>2, <2>3, <1>2
  <2>6. \A i, j \in 1 .. N : order'[e][i] = order'[e][j] => i = j
    BY <2>1, <2>2, <2>3, <2>4
  <2> QED BY <2>2, <2>5, <2>6 DEF Accepted
<1>16. Flowing(e)'
  <2>1. Stream(e)' = rpdu[f] \o w
    BY <1>5, <1>9, <1>f DEF Stream
  <2> QED BY <2>1, <1>f, <1>0, <1>1, <1>4, <1>6, <1>7, <1>9 DEF Flowing
<1>17. Len(wire'[e]) <= SocketBuffer
  BY <1>5, <1>9
<1> QED BY <1>0, <1>6, <1>12, <1>13, <1>14, <1>15, <1>16, <1>17, EndStream

(* The stream of an end on which nobody writes, or its sender all but returned. *)
LEMMA FlowsFromIdle ==
  ASSUME NEW o \in Seq(Thread), NEW n \in Nat, NEW s \in Seq(Unit), NEW v, NEW t \in Thread,
         v.buf = NoThread, Flows(o, n, s, v, FALSE)
  PROVE  OutUpTo(Append(o, t), n, s, t, 0)
<1> DEFINE o2 == Append(o, t)
<1>1. PICK p, k : Traced(o, n, s, p, k) /\ Goes_on(o, v, s, p, k)
  BY DEF Flows
<1>2. Ends_at(s, p, k, Len(o) + 1, 1)
  BY <1>1 DEF Goes_on
<1>3. Traced(o2, n, s, p, k)
  BY <1>1, TracedAppend
<1>4. /\ o2 \in Seq(Thread) /\ Len(o2) = Len(o) + 1 /\ Len(o) \in Nat
      /\ o2[Len(o) + 1] = t
  BY SeqAppend, SeqLength, SMT
<1>5. o2 # <<>>
  <2>1. Len(o2) # 0
    BY <1>4, SMT
  <2> HIDE DEF o2
  <2> QED BY <2>1, SeqEmpty
<1> HIDE DEF o2
<1>6. 0 < Size[t]
  BY PduUnits, SMT
<1>7. 0 + 1 = 1
  BY SMT
<1>8. NextAt(o2, s, p, k, 0)
  BY <1>2, <1>4, <1>6, <1>7 DEF NextAt
<1> QED BY <1>3, <1>4, <1>5, <1>8 DEF OutUpTo, o2

(* What is out so far is what wpdu_ says. *)
LEMMA FlowsFromOut ==
  ASSUME NEW o, NEW n, NEW s, NEW t \in Thread, NEW a, OutUpTo(o, n, s, t, a), NEW v,
         \/ v.buf = t /\ v.sz = Size[t] /\ v.solong = a
         \/ v.buf = NoThread /\ ~(a < Size[t])
  PROVE  Flows(o, n, s, v, FALSE)
<1>1. o[Len(o)] = t
  BY DEF OutUpTo
<1>2. PICK p, k : Traced(o, n, s, p, k) /\ NextAt(o, s, p, k, a)
  BY DEF OutUpTo
<1>3. t # NoThread
  BY SizeAssumption
<1>4. Goes_on(o, v, s, p, k)
  <2>1. IF a < Size[t] THEN Ends_at(s, p, k, Len(o), a + 1) ELSE Ends_at(s, p, k, Len(o) + 1, 1)
    BY <1>1, <1>2 DEF NextAt
  <2>2. CASE v.buf = t /\ v.sz = Size[t] /\ v.solong = a
    <3>1. v.buf # NoThread /\ (v.solong < v.sz <=> a < Size[t]) /\ v.solong + 1 = a + 1
      BY <2>2, <1>3
    <3> QED BY <3>1, <2>1 DEF Goes_on
  <2>3. CASE v.buf = NoThread /\ ~(a < Size[t])
    BY <2>1, <2>3 DEF Goes_on
  <2> QED BY <2>2, <2>3
<1> QED BY <1>2, <1>4 DEF Flows

(* And conversely. *)
LEMMA OutFromFlows ==
  ASSUME NEW o, NEW n, NEW s, NEW t \in Thread, NEW v, Flows(o, n, s, v, FALSE),
         o # <<>>, o[Len(o)] = t, v.buf = t, v.sz = Size[t]
  PROVE  OutUpTo(o, n, s, t, v.solong)
<1>1. PICK p, k : Traced(o, n, s, p, k) /\ Goes_on(o, v, s, p, k)
  BY DEF Flows
<1>2. t # NoThread
  BY SizeAssumption
<1>3. NextAt(o, s, p, k, v.solong)
  BY <1>1, <1>2 DEF Goes_on, NextAt
<1> QED BY <1>1, <1>3 DEF OutUpTo

(* The write fails and the end dies: what is under way still is. *)
LEMMA FlowsEnded ==
  ASSUME NEW o, NEW n, NEW s, NEW v, NEW ended, Flows(o, n, s, v, ended), NEW w
  PROVE  Flows(o, n, s, w, TRUE)
BY DEF Flows

(* The PDU under way is the last accepted when another is, and fails at once. *)
LEMMA FlowsAccepted ==
  ASSUME NEW o \in Seq(Thread), NEW n \in Nat, NEW s \in Seq(Unit), NEW v, NEW ended,
         Flows(o, n, s, v, ended), NEW w, NEW t \in Thread
  PROVE  Flows(Append(o, t), n, s, w, TRUE)
<1>1. PICK p, k : Traced(o, n, s, p, k)
  BY DEF Flows
<1>2. Traced(Append(o, t), n, s, p, k)
  BY <1>1, TracedAppend
<1> QED BY <1>2 DEF Flows

(* What select saw in a socket is still there. *)
Fuller == \A f \in Fd : wire[f] # <<>> => wire'[f] # <<>>

(* What is in a socket stays there when units are written behind it. *)
LEMMA Behind ==
  ASSUME NEW w \in Seq(Unit), NEW u \in Seq(Unit), w # <<>>
  PROVE  w \o u # <<>>
<1> DEFINE x == w \o u
<1>1. Len(x) = Len(w) + Len(u)
  BY Concatenated
<1>2. Len(w) \in Nat /\ Len(w) # 0 /\ Len(u) \in Nat
  BY SeqEmpty, SeqLength
<1> HIDE DEF x
<1>3. Len(x) # 0
  BY <1>1, <1>2, SMT
<1>4. x # <<>>
  BY <1>3, SeqEmpty
<1> QED BY <1>4 DEF x

(* send, once it is its turn: it is done, or waits for room, or finds the end dead. *)
SendDone(t) == SendReturns(t, TRUE) /\ UNCHANGED <<pollVars, dead>>
SendAwaits(t) ==
  /\ Move(t, "send_complete") /\ add_callback(On(t))
  /\ UNCHANGED <<loop, readable, writable, calling, dead>>
SendFails(t) ==
  Move(t, "send_remove") /\ UNCHANGED pollVars /\ dead' = [dead EXCEPT ![On(t)] = TRUE]

(* The units that send writes, as far as there is room. *)
LEMMA SendWritesStream ==
  ASSUME InvStream, InvJobs, at \in [Thread -> Places], dead \in [Fd -> BOOLEAN],
         NEW t \in Thread, SendWrites(t), t[2] \in Call
  PROVE  /\ InvStream' /\ InvJobs' /\ Fuller
         /\ SendDone(t) \/ SendAwaits(t) \/ SendFails(t)
<1> DEFINE e == On(t)
           f == Peer(e)
           v0 == [buf |-> t, sz |-> Size[t], solong |-> 0]
           o == Append(order[e], t)
           n == Len(got[f])
           r == rpdu[f]
           w == wire[e]
<1>0. e \in Fd /\ f \in Fd /\ f # e
  BY Threads, Ends
<1>1. /\ SendBegins(t) /\ ~dead[On(t)] /\ ~Busy(On(t)) /\ wpdu[e].buf = NoThread
      /\ order' = [order EXCEPT ![e] = Append(@, t)]
      /\ UNCHANGED <<rpdu, got>>
  BY DEF SendWrites, Busy
<1>2. PICK lose :
        LET x == writepdu(e, v0, lose \/ shut[e]) IN
        /\ wire' = [wire EXCEPT ![e] = x.wire]
        /\ dead' = [dead EXCEPT ![e] = ~x.ok]
        /\ IF x.ok /\ x.wpdu.solong = x.wpdu.sz
           THEN SendReturns(t, TRUE) /\ UNCHANGED pollVars
           ELSE /\ wpdu' = [wpdu EXCEPT ![e] = x.wpdu]
                /\ IF x.ok THEN /\ Move(t, "send_complete")
                                /\ add_callback(e)
                                /\ UNCHANGED <<loop, readable, writable, calling>>
                   ELSE Move(t, "send_remove") /\ UNCHANGED pollVars
  BY DEF SendWrites
<1> DEFINE x == writepdu(e, v0, lose \/ shut[e])
<1>3. /\ wire' = [wire EXCEPT ![e] = x.wire]
      /\ dead' = [dead EXCEPT ![e] = ~x.ok]
      /\ x.ok /\ x.wpdu.solong = x.wpdu.sz => SendReturns(t, TRUE) /\ UNCHANGED pollVars
      /\ ~(x.ok /\ x.wpdu.solong = x.wpdu.sz) => wpdu' = [wpdu EXCEPT ![e] = x.wpdu]
      /\ x.ok /\ x.wpdu.solong # x.wpdu.sz =>
           /\ Move(t, "send_complete") /\ add_callback(e)
           /\ UNCHANGED <<loop, readable, writable, calling>>
      /\ ~x.ok => Move(t, "send_remove") /\ UNCHANGED pollVars
  BY <1>2
<1>4. /\ order[e] \in Seq(Thread) /\ n \in Nat /\ r \in Seq(Unit) /\ w \in Seq(Unit)
      /\ Len(w) <= SocketBuffer /\ order[e] \in Seq(Thread)
      /\ wire \in [Fd -> Seq(Unit)]
  BY <1>0, SeqLength DEF InvStream, Arriving
<1>5. o \in Seq(Thread)
  BY <1>4, SeqAppend
<1>6. ~dead[f] => Flows(order[e], n, r \o w, wpdu[e], FALSE)
  <2>1. Flowing(e) /\ ~dead[e]
    BY <1>0, <1>1 DEF InvStream
  <2> QED BY <2>1 DEF Flowing, Stream, Flows
<1>7. r \o w \in Seq(Unit)
  BY <1>4, Concatenated
<1>8. 0 \in 0 .. Size[t] /\ 0 + 1 = 1 /\ Size[t] \in Nat
  BY PduUnits, SMT
<1>9. \/ WriteFailed(x, w, t)
      \/ \E m \in Nat : WroteOf(x, w, t, 0, m)
  <2>1. \A a \in 0 .. Size[t] : \A v, down : v = [buf |-> t, sz |-> Size[t], solong |-> a] =>
          \/ WriteFailed(writepdu(e, v, down), w, t)
          \/ \E m \in Nat : WroteOf(writepdu(e, v, down), w, t, a, m)
    BY <1>4, WritepduWrites
  <2>2. v0 = [buf |-> t, sz |-> Size[t], solong |-> 0]
    OBVIOUS
  <2> HIDE DEF v0
  <2> QED BY <2>1, <2>2, <1>8
<1>f. f = Peer(On(t)) /\ e = On(t)
  OBVIOUS
<1>fu. ASSUME NEW y, wire' = [wire EXCEPT ![e] = y], w # <<>> => y # <<>> PROVE Fuller
  <2>1. \A g \in Fd : wire'[g] = IF g = e THEN y ELSE wire[g]
    BY <1>4, <1>fu
  <2> QED BY <2>1, <1>fu DEF Fuller
<1> HIDE DEF x, v0
<1>10. CASE WriteFailed(x, w, t)
  <2> DEFINE c == -1
             v == [buf |-> t, sz |-> 0, solong |-> c]
  <2>1. x.ok = FALSE /\ x.wpdu = v /\ x.wire = w
    BY <1>10 DEF WriteFailed
  <2>2. Move(t, "send_remove") /\ UNCHANGED pollVars /\ dead' = [dead EXCEPT ![e] = TRUE]
        /\ wpdu' = [wpdu EXCEPT ![e] = v] /\ wire' = [wire EXCEPT ![e] = w]
    BY <2>1, <1>3
  <2>c. c \in Int
    BY SMT
  <2> HIDE DEF c
  <2>3. v \in [buf : Thread \cup {NoThread}, sz : Nat, solong : Int]
    BY <2>c
  <2>4. Starts(t, e, w, v, TRUE)
    BY <2>2, <2>3, <1>1, <1>4 DEF Starts
  <2>5. Others(t) /\ at'[t] = "send_remove"
    BY <2>2, Moved DEF Places
  <2>6. WpduOf(v, t, TRUE) /\ at'[t] \in Begun
    <3>1. v.buf = t /\ t # NoThread
      BY SizeAssumption
    <3> QED BY <3>1, <2>5 DEF WpduOf, Writers, Begun
  <2>7. ~dead[f] => Flows(o, n, r \o w, v, TRUE)
    BY <1>4, <1>6, <1>7, FlowsAccepted
  <2>8. InvStream' /\ InvJobs'
    BY <1>1, <1>f, <2>4, <2>5, <2>6, <2>7, StartsStream
  <2>9. Fuller
    BY <2>2, <1>fu
  <2> QED BY <2>2, <2>8, <2>9 DEF SendFails
<1>11. ASSUME NEW m \in Nat, WroteOf(x, w, t, 0, m)
       PROVE  /\ InvStream' /\ InvJobs' /\ Fuller
              /\ SendDone(t) \/ SendAwaits(t) \/ SendFails(t)
  <2> DEFINE u == SubSeq(Pdu(t), 0 + 1, 0 + m)
             y == w \o u
             v == [buf |-> t, sz |-> Size[t], solong |-> 0 + m]
  <2>1. /\ x.ok = TRUE /\ x.wpdu = v /\ x.wire = y
        /\ 0 + m <= Size[t] /\ Len(w) + m <= SocketBuffer
    BY <1>11 DEF WroteOf
  <2>2. Left(t, 0, m)
    BY <2>1, <1>8 DEF Left
  <2>3. u \in Seq(Unit) /\ Len(u) = m
    <3>1. Units(u, m)
      BY <2>2, PartOfPdu
    <3> QED BY <3>1 DEF Units
  <2>4. y \in Seq(Unit) /\ Len(y) <= SocketBuffer
    <3>1. y \in Seq(Unit) /\ Len(y) = Len(w) + Len(u)
      BY <2>3, <1>4, Concatenated
    <3> QED BY <3>1, <2>3, <2>1
  <2>5. ~dead[f] => OutUpTo(o, n, r \o y, t, 0 + m)
    <3>1. ASSUME ~dead[f] PROVE OutUpTo(o, n, r \o y, t, 0 + m)
      <4>1. OutUpTo(o, n, r \o w, t, 0)
        BY <3>1, <1>1, <1>4, <1>6, <1>7, FlowsFromIdle
      <4>2. y = w \o SubSeq(Pdu(t), 0 + 1, 0 + m)
        OBVIOUS
      <4> HIDE DEF y, o, n, r, w
      <4> QED BY <4>1, <4>2, <2>1, <2>2, <1>0, <1>4, <1>5, FlowsOn
    <3> QED BY <3>1
  <2>6. wire' = [wire EXCEPT ![e] = y] /\ Fuller
    <3>1. w # <<>> => y # <<>>
      BY <2>3, <1>4, Behind
    <3>2. wire' = [wire EXCEPT ![e] = y]
      BY <2>1, <1>3
    <3> HIDE DEF y
    <3> QED BY <3>1, <3>2, <1>fu
  <2>7. dead' = dead /\ dead' = [dead EXCEPT ![e] = FALSE]
    <3>1. dead' = [dead EXCEPT ![e] = FALSE]
      BY <2>1, <1>3
    <3>2. dead[e] = FALSE
      BY <1>0, <1>1, <1>f
    <3> HIDE DEF e
    <3> QED BY <3>1, <3>2, <1>0
  <2>8. v.buf = t /\ v.sz = Size[t] /\ v.solong = 0 + m /\ t # NoThread
    BY SizeAssumption
  <2>9. x.wpdu.solong = 0 + m /\ x.wpdu.sz = Size[t]
    BY <2>1, <2>8
  <2>10. 0 + m = m /\ (~(m < Size[t]) <=> m = Size[t]) /\ m \in 0 .. Size[t]
    BY <2>1, <1>8, SMT
  <2> HIDE DEF y
  <2>11. CASE 0 + m = Size[t]
    <3>1. SendReturns(t, TRUE) /\ UNCHANGED pollVars
      BY <2>1, <2>9, <2>11, <1>3
    <3>2. Others(t) /\ at'[t] \in {"sent", "failed"} /\ wpdu' = [wpdu EXCEPT ![e] = Idle]
      BY <3>1, Returned DEF SendReturns
    <3>3. /\ Idle \in [buf : Thread \cup {NoThread}, sz : Nat, solong : Int]
      BY SMT DEF Idle
    <3>4. Idle.buf = NoThread /\ Idle.sz = 0
      BY DEF Idle
    <3>5. Starts(t, e, y, Idle, FALSE)
      BY <3>2, <3>3, <2>4, <2>6, <2>7, <1>1 DEF Starts
    <3>6. WpduOf(Idle, t, FALSE) /\ at'[t] \in Begun
      BY <3>2, <3>4, <2>8 DEF WpduOf, Writers, Begun
    <3>7. ~dead[f] => Flows(o, n, r \o y, Idle, FALSE)
      <4>1. ~(0 + m < Size[t])
        BY <2>10, <2>11
      <4> QED BY <4>1, <3>4, <2>5, FlowsFromOut
    <3>8. InvStream' /\ InvJobs'
      BY <1>1, <1>f, <3>2, <3>5, <3>6, <3>7, StartsStream
    <3> QED BY <3>1, <3>8, <2>6, <2>7 DEF SendDone
  <2>12. CASE 0 + m # Size[t]
    <3>1. /\ Move(t, "send_complete") /\ add_callback(e)
          /\ UNCHANGED <<loop, readable, writable, calling>>
          /\ wpdu' = [wpdu EXCEPT ![e] = v]
      BY <2>1, <2>9, <2>12, <1>3
    <3>2. Others(t) /\ at'[t] = "send_complete"
      BY <3>1, Moved DEF Places
    <3>3. v \in [buf : Thread \cup {NoThread}, sz : Nat, solong : Int]
      BY <1>8, <2>10, SMT
    <3>5. Starts(t, e, y, v, FALSE)
      BY <3>1, <3>3, <2>4, <2>6, <2>7, <1>1 DEF Starts
    <3>6. WpduOf(v, t, FALSE) /\ at'[t] \in Begun
      BY <3>2, <2>8, <2>10 DEF WpduOf, Writers, Begun
    <3>7. ~dead[f] => Flows(o, n, r \o y, v, FALSE)
      <4> HIDE DEF v
      <4> QED BY <2>5, <2>8, FlowsFromOut
    <3>8. InvStream' /\ InvJobs'
      BY <1>1, <1>f, <3>2, <3>5, <3>6, <3>7, StartsStream
    <3> QED BY <3>1, <3>8, <2>6, <2>7 DEF SendAwaits
  <2> QED BY <2>11, <2>12
<1> QED BY <1>9, <1>10, <1>11

(* A step in which the poll thread writes more of t's PDU on end e. *)
Continues(e, w, v, ended) ==
  /\ wire' = [wire EXCEPT ![e] = w]
  /\ wpdu' = [wpdu EXCEPT ![e] = v]
  /\ dead' = [dead EXCEPT ![e] = ended]
  /\ UNCHANGED <<rpdu, got, order>>
  /\ w \in Seq(Unit) /\ Len(w) <= SocketBuffer
  /\ v \in [buf : Thread \cup {NoThread}, sz : Nat, solong : Int]
  /\ ended \in BOOLEAN

(* What remains to be shown of it. *)
LEMMA ContinuesStream ==
  ASSUME InvStream, InvJobs, dead \in [Fd -> BOOLEAN], Still,
         NEW e \in Fd, ~dead[e], NEW t \in Thread, wpdu[e].buf = t,
         NEW w, NEW v, NEW ended, Continues(e, w, v, ended), v.buf = t,
         ~ended => v = [buf |-> t, sz |-> Size[t], solong |-> v.solong] /\ v.solong \in 0 .. Size[t],
         ~dead[Peer(e)] => Flows(order[e], Len(got[Peer(e)]), rpdu[Peer(e)] \o w, v, ended)
  PROVE  InvStream' /\ InvJobs'
<1> DEFINE f == Peer(e)
<1>0. f \in Fd /\ f # e /\ f = Peer(e)
  BY Ends
<1>1. ~dead[f] => Flows(order[e], Len(got[f]), rpdu[f] \o w, v, ended)
  OBVIOUS
<1>2. /\ order \in [Fd -> Seq(Thread)] /\ wire \in [Fd -> Seq(Unit)]
      /\ wpdu \in [Fd -> [buf : Thread \cup {NoThread}, sz : Nat, solong : Int]]
      /\ Accepted(e) /\ Writing(e) /\ order[e] \in Seq(Thread)
  BY DEF InvStream
<1> HIDE DEF f
<1>3. /\ wire' \in [Fd -> Seq(Unit)] /\ wire'[e] = w
      /\ \A g \in Fd : g # e => wire'[g] = wire[g]
  BY <1>2 DEF Continues
<1>4. /\ wpdu' \in [Fd -> [buf : Thread \cup {NoThread}, sz : Nat, solong : Int]]
      /\ wpdu'[e] = v /\ \A g \in Fd : g # e => wpdu'[g] = wpdu[g]
  <2>1. /\ v \in [buf : Thread \cup {NoThread}, sz : Nat, solong : Int]
        /\ wpdu' = [wpdu EXCEPT ![e] = v]
    BY DEF Continues
  <2> QED BY <2>1, <1>2
<1>5. /\ dead' \in [Fd -> BOOLEAN] /\ dead'[e] = ended
      /\ \A g \in Fd : g # e => dead'[g] = dead[g]
  <2>1. ended \in BOOLEAN /\ dead' = [dead EXCEPT ![e] = ended]
    BY DEF Continues
  <2> QED BY <2>1
<1>6. UNCHANGED <<rpdu, got, order>> /\ Len(w) <= SocketBuffer
  BY DEF Continues
<1>7. \A u \in Thread :
        Kept(u) /\ (at'[u] \in Writers <=> at[u] \in Writers) /\ (at[u] = "out" => at'[u] = "out")
  BY WokenKept, SameRole DEF Still
<1>8. WritesOn(e)
  <2>1. Dies
    BY <1>5 DEF Dies
  <2>2. Len(order[e]) \in Nat
    BY <1>2, SeqLength
  <2>3. Len(order[e]) <= Len(order[e])
    BY <2>2, SMT
  <2> QED BY <2>1, <2>3, <1>2, <1>3, <1>4, <1>6, <1>7 DEF WritesOn
<1>9. Writing(e)'
  <2>1. /\ t # NoThread /\ On(t) = e /\ at'[t] \in Writers
        /\ order[e] # <<>> /\ order[e][Len(order[e])] = t
    BY <1>2, <1>7, SizeAssumption DEF Writing
  <2> QED BY <2>1, <1>4, <1>5, <1>6 DEF Writing
<1>10. Accepted(e)'
  <2>1. ASSUME NEW i \in 1 .. Len(order[e]) PROVE at'[order[e][i]] \in Begun
    <3>1. order[e][i] \in Thread /\ at[order[e][i]] \in Begun
      BY <1>2, SeqElement DEF Accepted
    <3> QED BY <3>1, <1>7 DEF Kept
  <2> QED BY <2>1, <1>2, <1>6 DEF Accepted
<1>11. Flowing(e)'
  <2>1. Stream(e)' = rpdu[f] \o w
    BY <1>0, <1>3, <1>6 DEF Stream
  <2> QED BY <2>1, <1>0, <1>1, <1>4, <1>5, <1>6 DEF Flowing
<1>12. ASSUME NEW u \in Thread, On(u) = e, at'[u] \in Writers PROVE wpdu'[e].buf = u
  BY <1>12, <1>4, <1>7 DEF InvStream
<1>13. Len(wire'[e]) <= SocketBuffer
  BY <1>3, <1>6
<1> QED BY <1>8, <1>9, <1>10, <1>11, <1>12, <1>13, EndStream

(* write_cb: it has nothing to write, or writes, or gives the connection up. *)
WriteCbIdles(e) ==
  del_callback(e, "CB_WRONLY") /\ UNCHANGED <<dead, at>>
WriteCbGoesOn(e) == UNCHANGED <<watchVars, dead>>
WriteCbFails(e) == del_callback(e, "CB_RDWR") /\ dead' = [dead EXCEPT ![e] = TRUE]

(* The units that write_cb writes. *)
LEMMA WriteCbStream ==
  ASSUME InvStream, InvJobs, at \in [Thread -> Places], dead \in [Fd -> BOOLEAN],
         NEW e \in Fd, WriteCb(e)
  PROVE  /\ InvStream' /\ InvJobs' /\ Fuller /\ Still
         /\ WriteCbIdles(e) \/ WriteCbGoesOn(e) \/ WriteCbFails(e)
<1>0. ~dead[e] /\ UNCHANGED <<rpdu, order, got>>
  BY DEF WriteCb
<1>1. CASE wpdu[e].sz = 0
  <2>1. del_callback(e, "CB_WRONLY") /\ UNCHANGED <<dead, wpdu, wire, at>>
    BY <1>1 DEF WriteCb
  <2>2. Still /\ Dies /\ Fuller
    BY <2>1 DEF Still, Dies, Fuller, Woken
  <2>3. \A u \in Thread : Kept(u)
    BY <2>2, WokenKept DEF Still
  <2> QED BY <2>1, <2>2, <2>3, <1>0, SameStream DEF WriteCbIdles
<1>2. CASE wpdu[e].sz # 0
  <2> DEFINE x == writepdu(e, wpdu[e], shut[e])
             t == wpdu[e].buf
             a == wpdu[e].solong
             f == Peer(e)
             o == order[e]
             n == Len(got[f])
             r == rpdu[f]
             w == wire[e]
  <2>1. /\ wpdu' = [wpdu EXCEPT ![e] = x.wpdu]
        /\ wire' = [wire EXCEPT ![e] = x.wire]
        /\ dead' = [dead EXCEPT ![e] = ~x.ok]
        /\ x.ok => UNCHANGED watchVars
        /\ ~x.ok => del_callback(e, "CB_RDWR")
        /\ x.ok /\ x.wpdu.solong < x.wpdu.sz => UNCHANGED at
        /\ ~(x.ok /\ x.wpdu.solong < x.wpdu.sz) => SignalComplete(e)
    BY <1>2 DEF WriteCb
  <2>2. Still
    <3>1. CASE UNCHANGED at
      BY <3>1 DEF Still, Woken
    <3>2. CASE SignalComplete(e)
      BY <3>2, Signalled
    <3> QED BY <2>1, <3>1, <3>2
  <2>3. /\ t \in Thread /\ o # <<>> /\ o[Len(o)] = t
        /\ wpdu[e] = [buf |-> t, sz |-> Size[t], solong |-> a] /\ a \in 0 .. Size[t]
    <3>1. Writing(e)
      BY DEF InvStream
    <3> QED BY <3>1, <1>0, <1>2 DEF Writing
  <2>4. /\ o \in Seq(Thread) /\ n \in Nat /\ r \in Seq(Unit) /\ w \in Seq(Unit)
        /\ Len(w) <= SocketBuffer /\ f \in Fd /\ wire \in [Fd -> Seq(Unit)]
    <3>1. f \in Fd
      BY Ends
    <3> QED BY <3>1, SeqLength DEF InvStream, Arriving
  <2>5. ~dead[f] => Flows(o, n, r \o w, wpdu[e], FALSE)
    <3>1. Flowing(e)
      BY DEF InvStream
    <3> QED BY <3>1, <1>0 DEF Flowing, Stream, Flows
  <2>6. WriteFailed(x, w, t) \/ \E m \in Nat : WroteOf(x, w, t, a, m)
    BY <2>3, <2>4, WritepduWrites
  <2>fu. ASSUME NEW y, wire' = [wire EXCEPT ![e] = y], w # <<>> => y # <<>> PROVE Fuller
    <3>1. \A g \in Fd : wire'[g] = IF g = e THEN y ELSE wire[g]
      BY <2>4, <2>fu
    <3> QED BY <3>1, <2>fu DEF Fuller
  <2> HIDE DEF x
  <2>7. CASE WriteFailed(x, w, t)
    <3> DEFINE c == -1
               v == [buf |-> t, sz |-> 0, solong |-> c]
    <3>1. x.ok = FALSE /\ x.wpdu = v /\ x.wire = w
      BY <2>7 DEF WriteFailed
    <3>2. /\ wpdu' = [wpdu EXCEPT ![e] = v] /\ wire' = [wire EXCEPT ![e] = w]
          /\ dead' = [dead EXCEPT ![e] = TRUE] /\ del_callback(e, "CB_RDWR")
      BY <3>1, <2>1
    <3>c. c \in Int
      BY SMT
    <3> HIDE DEF c
    <3>t. t \in Thread
      BY <2>3
    <3> HIDE DEF t
    <3>3. v \in [buf : Thread \cup {NoThread}, sz : Nat, solong : Int] /\ v.buf = t
      BY <3>c, <3>t
    <3>4. Continues(e, w, v, TRUE)
      BY <3>2, <3>3, <1>0, <2>4 DEF Continues
    <3>5. ~dead[f] => Flows(o, n, r \o w, v, TRUE)
      BY <2>5, FlowsEnded
    <3>6. wpdu[e].buf = t
      BY DEF t
    <3> HIDE DEF v
    <3>7. InvStream' /\ InvJobs'
      BY <3>3, <3>4, <3>5, <3>6, <3>t, <1>0, <2>2, ContinuesStream
    <3> QED BY <3>2, <3>7, <2>2, <2>fu DEF WriteCbFails
  <2>8. ASSUME NEW m \in Nat, WroteOf(x, w, t, a, m)
        PROVE  InvStream' /\ InvJobs' /\ Fuller /\ WriteCbGoesOn(e)
    <3> DEFINE u == SubSeq(Pdu(t), a + 1, a + m)
               y == w \o u
               j == a + m
               v == [buf |-> t, sz |-> Size[t], solong |-> j]
    <3>1. /\ x.ok = TRUE /\ x.wpdu = v /\ x.wire = y
          /\ a + m <= Size[t] /\ Len(w) + m <= SocketBuffer
      BY <2>8 DEF WroteOf
    <3>2. Left(t, a, m)
      BY <3>1, <2>3 DEF Left
    <3>3. /\ wpdu' = [wpdu EXCEPT ![e] = v] /\ wire' = [wire EXCEPT ![e] = y]
          /\ dead' = [dead EXCEPT ![e] = FALSE] /\ UNCHANGED watchVars
      BY <3>1, <2>1
    <3>4. dead' = dead
      <4>1. dead[e] = FALSE
        BY <1>0
      <4>2. dead' = [dead EXCEPT ![e] = FALSE]
        BY <3>3
      <4> QED BY <4>1, <4>2
    <3>t. /\ t \in Thread /\ wpdu[e].buf = t /\ wpdu[e].sz = Size[t]
          /\ wpdu[e].solong = a /\ a \in 0 .. Size[t]
      <4> HIDE DEF t, a
      <4> QED BY <2>3, SMT
    <3>s. t \in Thread /\ Size[t] \in Nat
      BY <3>t, PduUnits
    <3> HIDE DEF t, a
    <3>5. j \in 0 .. Size[t]
      <4>1. a + m <= Size[t] /\ a \in 0 .. Size[t] /\ Size[t] \in Nat
        BY <3>1, <3>s, <3>t
      <4> QED BY <4>1, SMT
    <3>6. u \in Seq(Unit) /\ Len(u) = m
      <4>1. Units(u, m)
        BY <3>2, <3>s, PartOfPdu
      <4> QED BY <4>1 DEF Units
    <3>7. y \in Seq(Unit) /\ Len(y) <= SocketBuffer
      <4>1. y \in Seq(Unit) /\ Len(y) = Len(w) + Len(u)
        BY <3>6, <2>4, Concatenated
      <4> QED BY <4>1, <3>6, <3>1
    <3>8. Fuller
      <4>1. w # <<>> => y # <<>>
        BY <3>6, <2>4, Behind
      <4> HIDE DEF y
      <4> QED BY <4>1, <3>3, <2>fu
    <3>y. y = w \o SubSeq(Pdu(t), a + 1, a + m)
      OBVIOUS
    <3>9. ~dead[f] => OutUpTo(o, n, r \o y, t, a + m)
      <4>1. ASSUME ~dead[f] PROVE OutUpTo(o, n, r \o y, t, a + m)
        <5>1. Flows(o, n, r \o w, wpdu[e], FALSE)
          BY <4>1, <2>5
        <5>2. OutUpTo(o, n, r \o w, t, a)
          BY <5>1, <2>3, <3>t, OutFromFlows DEF t
        <5> HIDE DEF y, o, n, r, w
        <5> QED BY <5>2, <3>y, <3>1, <3>2, <3>t, <2>4, FlowsOn
      <4> QED BY <4>1
    <3> HIDE DEF y
    <3>10. v.buf = t /\ v.sz = Size[t] /\ v.solong = j
      OBVIOUS
    <3>11. v \in [buf : Thread \cup {NoThread}, sz : Nat, solong : Int]
      <4>1. j \in Int
        BY <3>5, <3>s, SMT
      <4> HIDE DEF j
      <4> QED BY <3>t, <3>s, <4>1
    <3>12. v = [buf |-> t, sz |-> Size[t], solong |-> v.solong] /\ v.solong \in 0 .. Size[t]
      BY <3>5, <3>10
    <3>13. Continues(e, y, v, FALSE)
      BY <3>3, <3>7, <3>11, <1>0 DEF Continues
    <3> HIDE DEF v
    <3>14. ~dead[f] => Flows(o, n, r \o y, v, FALSE)
      BY <3>9, <3>10, <3>t, FlowsFromOut
    <3>15. InvStream' /\ InvJobs'
      BY <3>10, <3>12, <3>13, <3>14, <3>t, <1>0, <2>2, ContinuesStream
    <3> QED BY <3>3, <3>4, <3>8, <3>15 DEF WriteCbGoesOn
  <2> QED BY <2>2, <2>6, <2>7, <2>8
<1> QED BY <1>1, <1>2

-----------------------------------------------------------------------------
(* Reading and the stream *)

(* A step in which end e reads: x is in rpdu_ then, w is left in the socket, and g
   has been given to got_pdu. *)
Reads(e, x, w, g, ended) ==
  /\ rpdu' = [rpdu EXCEPT ![e] = x]
  /\ wire' = [wire EXCEPT ![Peer(e)] = w]
  /\ got' = [got EXCEPT ![e] = g]
  /\ dead' = [dead EXCEPT ![e] = ended]
  /\ UNCHANGED <<wpdu, order>>
  /\ Begins(x) /\ w \in Seq(Unit) /\ Len(w) <= SocketBuffer
  /\ g \in Seq(Seq(Unit)) /\ ended \in BOOLEAN

(* g is what the peer of e has accepted, in order. *)
GivenTo(e, g) ==
  /\ Len(g) <= Len(order[Peer(e)])
  /\ \A i \in 1 .. Len(g) : g[i] = Pdu(order[Peer(e)][i])

(* u does not start or end to write. *)
SameWriter(u) ==
  /\ at'[u] \in Writers <=> at[u] \in Writers
  /\ at[u] \in Begun => at'[u] \in Begun

(* What a step that reads must take care of. *)
LEMMA ReadsStream ==
  ASSUME InvStream, dead \in [Fd -> BOOLEAN], NEW e \in Fd, ~dead[e],
         \A u \in Thread : SameWriter(u),
         NEW x, NEW w, NEW g, NEW ended, Reads(e, x, w, g, ended), GivenTo(e, g),
         ~ended => Flows(order[Peer(e)], Len(g), x \o w, wpdu[Peer(e)], dead[Peer(e)])
  PROVE  InvStream'
<1> DEFINE f == Peer(e)
<1>0. f \in Fd /\ f # e /\ f = Peer(e) /\ Peer(f) = e /\ \A h \in Fd : h = e \/ h = f
  BY Ends
<1>1. ~ended => Flows(order[f], Len(g), x \o w, wpdu[f], dead[f])
  OBVIOUS
<1> HIDE DEF f
<1>2. /\ rpdu \in [Fd -> Seq(Unit)] /\ wire \in [Fd -> Seq(Unit)]
      /\ got \in [Fd -> Seq(Seq(Unit))] /\ order \in [Fd -> Seq(Thread)]
      /\ wpdu \in [Fd -> [buf : Thread \cup {NoThread}, sz : Nat, solong : Int]]
  BY DEF InvStream
<1>3. /\ rpdu' \in [Fd -> Seq(Unit)] /\ rpdu'[e] = x /\ rpdu'[f] = rpdu[f]
  <2>1. x \in Seq(Unit) /\ rpdu' = [rpdu EXCEPT ![e] = x]
    BY DEF Reads, Begins
  <2> QED BY <2>1, <1>0, <1>2
<1>4. /\ wire' \in [Fd -> Seq(Unit)] /\ wire'[f] = w /\ wire'[e] = wire[e]
  <2>1. w \in Seq(Unit) /\ wire' = [wire EXCEPT ![f] = w]
    BY <1>0 DEF Reads
  <2> QED BY <2>1, <1>0, <1>2
<1>5. /\ got' \in [Fd -> Seq(Seq(Unit))] /\ got'[e] = g /\ got'[f] = got[f]
  <2>1. g \in Seq(Seq(Unit)) /\ got' = [got EXCEPT ![e] = g]
    BY DEF Reads
  <2> QED BY <2>1, <1>0, <1>2
<1>6. /\ dead' \in [Fd -> BOOLEAN] /\ dead'[e] = ended /\ dead'[f] = dead[f]
  <2>1. ended \in BOOLEAN /\ dead' = [dead EXCEPT ![e] = ended]
    BY DEF Reads
  <2> QED BY <2>1, <1>0
<1>7. UNCHANGED <<wpdu, order>> /\ Begins(x) /\ Len(w) <= SocketBuffer
  BY DEF Reads
<1>8. ASSUME NEW h \in Fd PROVE Writing(h)'
  <2>1. Writing(h) /\ (~dead'[h] => ~dead[h])
    BY <1>0, <1>6 DEF InvStream
  <2>2. wpdu[h].buf # NoThread => wpdu[h].buf \in Thread /\ at'[wpdu[h].buf] \in Writers
    BY <2>1 DEF Writing, SameWriter
  <2> QED BY <2>1, <2>2, <1>7 DEF Writing
<1>9. ASSUME NEW h \in Fd PROVE Accepted(h)'
  <2>1. order[h] \in Seq(Thread) /\ Accepted(h)
    BY DEF InvStream
  <2>2. ASSUME NEW i \in 1 .. Len(order[h]) PROVE at'[order[h][i]] \in Begun
    <3>1. order[h][i] \in Thread
      BY <2>1, SeqElement
    <3> QED BY <2>1, <3>1 DEF Accepted, SameWriter
  <2> QED BY <2>1, <2>2, <1>7 DEF Accepted
<1>10. Arriving(e)'
  <2>1. Len(wire[e]) <= SocketBuffer
    BY DEF InvStream, Arriving
  <2> QED BY <2>1, <1>3, <1>4, <1>5, <1>7 DEF Arriving, GivenTo
<1>11. Arriving(f)'
  <2>1. Arriving(f)
    BY <1>0 DEF InvStream
  <2> QED BY <2>1, <1>3, <1>4, <1>5, <1>7 DEF Arriving
<1>12. Flowing(f)'
  <2>1. Stream(f)' = x \o w
    BY <1>0, <1>3, <1>4 DEF Stream
  <2> QED BY <2>1, <1>0, <1>1, <1>5, <1>6, <1>7 DEF Flowing
<1>13. Flowing(e)'
  <2>1. Flowing(e)
    BY DEF InvStream
  <2>2. Stream(e)' = Stream(e)
    BY <1>0, <1>3, <1>4 DEF Stream
  <2>3. \A o, n, s, v : Flows(o, n, s, v, dead[e]) => Flows(o, n, s, v, ended)
    BY DEF Flows
  <2> QED BY <2>1, <2>2, <2>3, <1>0, <1>5, <1>6, <1>7 DEF Flowing
<1>14. ASSUME NEW u \in Thread, at'[u] \in Writers PROVE wpdu'[On(u)].buf = u
  BY <1>7, <1>14 DEF InvStream, SameWriter
<1>15. \A h \in Fd : Arriving(h)' /\ Flowing(h)'
  BY <1>0, <1>10, <1>11, <1>12, <1>13
<1>16. /\ wpdu' \in [Fd -> [buf : Thread \cup {NoThread}, sz : Nat, solong : Int]]
       /\ order' \in [Fd -> Seq(Thread)]
  BY <1>2, <1>7
<1> QED BY <1>3, <1>4, <1>5, <1>8, <1>9, <1>14, <1>15, <1>16 DEF InvStream

(* The caller whose request the server has just read, all of it, has no job yet. *)
LEMMA TakenOnce ==
  ASSUME InvStream, InvJobs, NEW n, n = Len(got[Server]) + 1, n \in 1 .. Len(order[Client])
  PROVE  /\ order[Client][n] \in Thread /\ order[Client][n][2] \in Call
         /\ order[Client][n] = Caller(order[Client][n][2])
         /\ at[Job(order[Client][n][2])] = "out"
<1> DEFINE c == order[Client][n]
           x == c[2]
<1>0. Client \in Fd /\ Server \in Fd /\ Peer(Server) = Client
  BY Ends
<1>1. order[Client] \in Seq(Thread) /\ Accepted(Client) /\ got[Server] \in Seq(Seq(Unit))
  BY <1>0 DEF InvStream
<1>2. c \in Thread
  BY <1>1, SeqElement
<1>3. On(c) = Client /\ x \in Call
  BY <1>1 DEF Accepted
<1>4. c = Caller(x)
  BY <1>2, <1>3, Threads DEF Caller
<1>5. Len(got[Server]) \in Nat /\ Len(order[Client]) \in Nat
  BY <1>1, SeqLength
<1>6. at[Job(x)] = "out"
  <2>1. SUFFICES ASSUME at[Job(x)] # "out" PROVE FALSE
    OBVIOUS
  <2>2. PICK i \in 1 .. Len(got[Server]) : order[Client][i] = Caller(x)
    BY <2>1, <1>3 DEF InvJobs
  <2> DEFINE a == Len(got[Server])
             b == Len(order[Client])
  <2>3. a \in Nat /\ b \in Nat /\ n = a + 1 /\ n \in 1 .. b /\ i \in 1 .. a
    BY <1>5
  <2> HIDE DEF a, b, c, x
  <2>4. i \in 1 .. b /\ i # n
    BY <2>3, SMT
  <2>5. order[Client][i] = order[Client][n]
    BY <2>2, <1>4 DEF c
  <2> QED BY <2>4, <2>5, <1>1 DEF Accepted, b
<1> QED BY <1>2, <1>3, <1>4, <1>6

(* read_cb: it gives the connection up, or reads and makes no job, or makes one. *)
ReadFails(e) ==
  del_callback(e, "CB_RDWR") /\ dead' = [dead EXCEPT ![e] = TRUE] /\ Still /\ UNCHANGED refno
ReadKeeps(e) == UNCHANGED <<watchVars, dead, at, refno>>
ReadTakes(e) ==
  /\ e = Server /\ IncRef(Server) /\ UNCHANGED <<watchVars, dead>>
  /\ \E x \in Call : at[Job(x)] = "out" /\ at' = [at EXCEPT ![Job(x)] = "dispatch"]

(* A PDU that is complete is the next that the peer sent. *)
LEMMA TakenNext ==
  ASSUME InvStream, dead \in [Fd -> BOOLEAN], NEW e \in Fd, ~dead[e],
         NEW r \in Seq(Unit), NEW w \in Seq(Unit), r \o w = rpdu[e] \o wire[Peer(e)], Complete(r)
  PROVE  LET f == Peer(e)
             n == Len(got[e]) + 1 IN
         /\ n \in 1 .. Len(order[f]) /\ r = Pdu(order[f][n]) /\ r[1][1] = order[f][n]
         /\ GivenTo(e, Append(got[e], r)) /\ Append(got[e], r) \in Seq(Seq(Unit))
         /\ Len(Append(got[e], r)) = n
         /\ <<>> \o w = w
         /\ Flows(order[f], n, w, wpdu[f], dead[f])
<1> DEFINE f == Peer(e)
           a == Len(got[e])
           n == a + 1
           o == order[f]
           s == r \o w
           g == Append(got[e], r)
<1>0. f \in Fd /\ Peer(f) = e
  BY Ends
<1>1. got[e] \in Seq(Seq(Unit)) /\ o \in Seq(Thread) /\ Arriving(e) /\ Flowing(f)
  BY <1>0 DEF InvStream
<1>2. a \in Nat /\ Len(o) \in Nat
  BY <1>1, SeqLength
<1>3. Flows(o, a, s, wpdu[f], dead[f])
  <2>1. Stream(f) = s
    BY <1>0 DEF Stream
  <2> QED BY <2>1, <1>0, <1>1 DEF Flowing
<1>4. PICK p, k : Traced(o, a, s, p, k) /\ (~dead[f] => Goes_on(o, wpdu[f], s, p, k))
  BY <1>3 DEF Flows
<1>5. r # <<>> /\ Len(r) = Size[r[1][1]]
  BY DEF Complete
<1>6. /\ n \in 1 .. Len(o) /\ r = Pdu(o[n]) /\ r[1][1] = o[n]
      /\ \E q, l : /\ Traced(o, n, w, q, l)
                   /\ \A P, K : Ends_at(s, p, k, P, K) => Ends_at(w, q, l, P, K)
  BY <1>1, <1>2, <1>4, <1>5, TracedTaken
<1>7. Flows(o, n, w, wpdu[f], dead[f])
  <2>1. PICK q, l : /\ Traced(o, n, w, q, l)
                    /\ \A P, K : Ends_at(s, p, k, P, K) => Ends_at(w, q, l, P, K)
    BY <1>6
  <2>2. Goes_on(o, wpdu[f], s, p, k) => Goes_on(o, wpdu[f], w, q, l)
    BY <2>1 DEF Goes_on
  <2> QED BY <2>1, <2>2, <1>4 DEF Flows
<1>8. /\ g \in Seq(Seq(Unit)) /\ Len(g) = n /\ g[n] = r
      /\ \A i \in 1 .. a : g[i] = got[e][i]
  <2> HIDE DEF o, s, f
  <2> QED BY <1>1, <1>2, SeqAppend, SMT
<1> HIDE DEF n, o, g, s
<1>9. GivenTo(e, g)
  <2>1. \A i \in 1 .. n : i \in 1 .. a \/ i = n
    BY <1>2, SMT DEF n
  <2>2. n <= Len(o) /\ n \in Nat
    BY <1>2, <1>6, SMT
  <2>3. \A i \in 1 .. a : got[e][i] = Pdu(o[i])
    BY <1>1 DEF Arriving, o
  <2>4. \A i \in 1 .. n : g[i] = Pdu(o[i])
    BY <2>1, <2>3, <1>6, <1>8
  <2> QED BY <2>2, <2>4, <1>8 DEF GivenTo, o
<1>10. <<>> \o w = w
  BY ConcatNothing
<1> QED BY <1>6, <1>7, <1>8, <1>9, <1>10 DEF n, o, g

(* What read_cb reads. *)
LEMMA ReadStepStream ==
  ASSUME InvStream, InvJobs, at \in [Thread -> Places], dead \in [Fd -> BOOLEAN],
         NEW e \in Fd, ReadStep(e)
  PROVE  /\ InvStream' /\ InvJobs' /\ wire'[e] = wire[e]
         /\ ReadFails(e) \/ ReadKeeps(e) \/ ReadTakes(e)
<1> DEFINE f == Peer(e)
<1>0. f \in Fd /\ f # e
  BY Ends
<1>1. PICK r \in readpdu(e), taken \in BOOLEAN : ReadCb(e, r, taken) /\ GotRequest(e, r, taken)
  BY DEF ReadStep
<1>2. /\ ~dead[e]
      /\ wire' = [wire EXCEPT ![f] = r.wire]
      /\ dead' = [dead EXCEPT ![e] = ~r.ok]
      /\ IF r.ok THEN UNCHANGED watchVars ELSE del_callback(e, "CB_RDWR")
      /\ rpdu' = [rpdu EXCEPT ![e] = IF Complete(r.rpdu) /\ taken THEN <<>> ELSE r.rpdu]
      /\ got' = IF Complete(r.rpdu) /\ taken THEN [got EXCEPT ![e] = Append(@, r.rpdu)] ELSE got
      /\ UNCHANGED <<wpdu, order>>
  BY <1>1 DEF ReadCb
<1>3. /\ Arriving(e) /\ Arriving(f) /\ wire \in [Fd -> Seq(Unit)] /\ wire[f] \in Seq(Unit)
      /\ got \in [Fd -> Seq(Seq(Unit))] /\ got[e] \in Seq(Seq(Unit)) /\ Begins(rpdu[e])
  BY <1>0 DEF InvStream, Arriving
<1>4. ReadOf(r, rpdu[e], wire[f])
  BY <1>3, ReadpduReads
<1>5. /\ r.ok \in BOOLEAN /\ r.wire \in Seq(Unit) /\ Len(r.wire) <= SocketBuffer
      /\ ~r.ok => r.rpdu = <<>>
      /\ r.ok => /\ Begins(r.rpdu) /\ r.rpdu \in Seq(Unit)
                 /\ r.rpdu \o r.wire = rpdu[e] \o wire[f]
  <2>1. Len(r.wire) <= Len(wire[f]) /\ Len(wire[f]) <= SocketBuffer /\ r.wire \in Seq(Unit)
    BY <1>3, <1>4 DEF ReadOf, Arriving
  <2>2. Len(r.wire) \in Nat /\ Len(wire[f]) \in Nat /\ SocketBuffer \in Nat
    BY <2>1, <1>3, SeqLength, SizeAssumption
  <2> DEFINE i == Len(r.wire)
             j == Len(wire[f])
  <2> HIDE DEF i, j
  <2>3. i \in Nat /\ j \in Nat /\ SocketBuffer \in Nat /\ i <= j /\ j <= SocketBuffer
    BY <2>1, <2>2 DEF i, j
  <2>4. i <= SocketBuffer
    BY <2>3, SMT
  <2> QED BY <2>1, <2>4, <1>4 DEF ReadOf, Begins, i
<1>6. wire'[e] = wire[e]
  BY <1>0, <1>2, <1>3
<1>7. GivenTo(e, got[e])
  BY <1>3 DEF Arriving, GivenTo
<1>8. got = [got EXCEPT ![e] = got[e]]
  BY <1>3
<1>9. CASE ~r.ok
  <2>1. ~Complete(r.rpdu)
    BY <1>5, <1>9 DEF Complete
  <2>2. /\ SignalComplete(e) /\ UNCHANGED refno /\ del_callback(e, "CB_RDWR")
        /\ dead' = [dead EXCEPT ![e] = TRUE]
        /\ rpdu' = [rpdu EXCEPT ![e] = <<>>] /\ got' = got
    BY <2>1, <1>1, <1>2, <1>5, <1>9 DEF GotRequest
  <2>3. Still
    BY <2>2, Signalled
  <2>4. Begins(<<>>)
    BY SeqEmpty DEF Begins
  <2>5. Reads(e, <<>>, r.wire, got[e], TRUE)
    BY <2>2, <2>4, <1>2, <1>3, <1>5, <1>8 DEF Reads
  <2>6. \A u \in Thread : SameWriter(u) /\ Kept(u)
    BY <2>3, WokenKept DEF Still, SameWriter, Kept
  <2>7. InvStream'
    BY <2>5, <2>6, <1>2, <1>7, ReadsStream
  <2>8. InvJobs'
    <3>1. \A x \in Call : at'[Job(x)] = "out" <=> at[Job(x)] = "out"
      BY <2>3, SameRole, Threads DEF Still
    <3> QED BY <3>1, <2>2, <1>2 DEF InvJobs
  <2> QED BY <2>2, <2>3, <2>7, <2>8, <1>6 DEF ReadFails
<1>10. CASE r.ok /\ ~(Complete(r.rpdu) /\ taken)
  <2>1. /\ rpdu' = [rpdu EXCEPT ![e] = r.rpdu] /\ got' = got /\ UNCHANGED watchVars
        /\ dead' = [dead EXCEPT ![e] = FALSE]
    BY <1>2, <1>5, <1>10
  <2>2. UNCHANGED <<at, refno>>
    BY <1>1, <1>10 DEF GotRequest
  <2>3. dead' = dead
    <3>1. dead[e] = FALSE
      BY <1>2
    <3> QED BY <2>1, <3>1
  <2>4. Reads(e, r.rpdu, r.wire, got[e], FALSE)
    BY <2>1, <1>2, <1>3, <1>5, <1>8, <1>10 DEF Reads
  <2>5. Flows(order[f], Len(got[e]), r.rpdu \o r.wire, wpdu[f], dead[f])
    <3>1. Flowing(f) /\ Peer(f) = e
      BY <1>0, Ends DEF InvStream
    <3>2. Stream(f) = r.rpdu \o r.wire
      BY <3>1, <1>5, <1>10 DEF Stream
    <3> QED BY <3>1, <3>2, <1>2 DEF Flowing
  <2>6. \A u \in Thread : SameWriter(u)
    BY <2>2 DEF SameWriter
  <2>7. InvStream'
    BY <2>4, <2>5, <2>6, <1>2, <1>7, ReadsStream
  <2>8. InvJobs'
    BY <2>1, <2>2, <1>2 DEF InvJobs
  <2> QED BY <2>1, <2>2, <2>3, <2>7, <2>8, <1>6 DEF ReadKeeps
<1>11. CASE r.ok /\ Complete(r.rpdu) /\ taken
  <2> DEFINE g == Append(got[e], r.rpdu)
             n == Len(got[e]) + 1
  <2>1. /\ rpdu' = [rpdu EXCEPT ![e] = <<>>] /\ got' = [got EXCEPT ![e] = g]
        /\ UNCHANGED watchVars /\ dead' = [dead EXCEPT ![e] = FALSE]
    BY <1>2, <1>5, <1>11
  <2>2. dead' = dead
    <3>1. dead[e] = FALSE
      BY <1>2
    <3> QED BY <2>1, <3>1
  <2>3. /\ n \in 1 .. Len(order[f]) /\ r.rpdu[1][1] = order[f][n]
        /\ GivenTo(e, g) /\ g \in Seq(Seq(Unit)) /\ Len(g) = n
        /\ <<>> \o r.wire = r.wire
        /\ Flows(order[f], n, r.wire, wpdu[f], dead[f])
    BY <1>2, <1>5, <1>11, TakenNext
  <2> HIDE DEF g, n
  <2>4. Reads(e, <<>>, r.wire, g, FALSE)
    <3>1. Begins(<<>>)
      BY SeqEmpty DEF Begins
    <3> QED BY <3>1, <2>1, <2>3, <1>2, <1>5 DEF Reads
  <2>5. Flows(order[f], Len(g), <<>> \o r.wire, wpdu[f], dead[f])
    BY <2>3
  <2>6. /\ got'[e] = g /\ order' = order /\ Len(got[e]) \in Nat
    BY <2>1, <1>2, <1>3, SeqLength
  <2>7. CASE e = Server
    <3> DEFINE c == order[Client][n]
               x == c[2]
    <3>1. f = Client
      BY <2>7, Ends
    <3>2. /\ c \in Thread /\ x \in Call /\ c = Caller(x) /\ at[Job(x)] = "out"
      BY <2>3, <2>7, <3>1, TakenOnce DEF n
    <3>3. IncRef(Server) /\ at' = [at EXCEPT ![Job(x)] = "dispatch"]
      BY <2>3, <2>7, <3>1, <1>1, <1>11 DEF GotRequest
    <3> HIDE DEF c, x
    <3>4. /\ Job(x) \in Thread /\ at'[Job(x)] = "dispatch"
          /\ \A u \in Thread : u # Job(x) => at'[u] = at[u]
      <4>1. Job(x) \in Thread
        BY <3>2, Threads
      <4> QED BY <4>1, <3>3
    <3>5. \A u \in Thread : SameWriter(u)
      BY <3>2, <3>4 DEF SameWriter, Writers, Begun
    <3>6. InvStream'
      BY <2>3, <2>4, <2>5, <3>5, <1>2, ReadsStream
    <3>7. InvJobs'
      <4>1. Len(got'[Server]) = n /\ n = Len(got[Server]) + 1 /\ Len(got[Server]) \in Nat
        BY <2>3, <2>6, <2>7 DEF n
      <4>2. n \in 1 .. n /\ \A i \in 1 .. Len(got[Server]) : i \in 1 .. n
        BY <4>1, SMT
      <4>3. ASSUME NEW y \in Call, at'[Job(y)] # "out"
            PROVE  \E i \in 1 .. n : order[Client][i] = Caller(y)
        <5>1. CASE Job(y) = Job(x)
          <6>1. y = x
            <7>1. x \in Call \cup {Closer} /\ y \in Call \cup {Closer} /\ Server \in Fd
              BY <3>2, Ends
            <7> QED BY <5>1, <7>1, Threads DEF Job
          <6> QED BY <6>1, <3>2, <4>2 DEF c
        <5>2. CASE Job(y) # Job(x)
          <6>1. at[Job(y)] # "out"
            BY <5>2, <4>3, <3>4, Threads
          <6> QED BY <6>1, <4>2 DEF InvJobs
        <5> QED BY <5>1, <5>2
      <4> QED BY <4>1, <4>3, <2>6 DEF InvJobs
    <3>8. ReadTakes(e)
      BY <3>2, <3>3, <2>1, <2>2, <2>7 DEF ReadTakes
    <3> QED BY <3>6, <3>7, <3>8, <1>6
  <2>8. CASE e # Server
    <3>1. UNCHANGED <<at, refno>>
      BY <2>8, <1>1, <1>11 DEF GotRequest
    <3>2. \A u \in Thread : SameWriter(u)
      BY <3>1 DEF SameWriter
    <3>3. InvStream'
      BY <2>3, <2>4, <2>5, <3>2, <1>2, ReadsStream
    <3>4. got'[Server] = got[Server]
      BY <2>1, <2>8, <1>3, Ends
    <3>5. InvJobs'
      BY <3>1, <3>4, <2>6 DEF InvJobs
    <3> QED BY <3>1, <3>3, <3>5, <2>1, <2>2, <1>6 DEF ReadKeeps
  <2> QED BY <2>7, <2>8
<1> QED BY <1>5, <1>9, <1>10, <1>11

-----------------------------------------------------------------------------
(* The start *)

(* Nothing has been written. *)
LEMMA FlowsFromStart == Flows(<<>>, 0, <<>>, Idle, FALSE)
<1> DEFINE p == [i \in 1 .. Len(<<>>) + 1 |-> 1]
<1>1. Len(<<>>) = 0
  BY SeqEmpty
<1>2. 1 .. Len(<<>>) = {} /\ Len(<<>>) + 1 = 1 /\ 1 \in 1 .. Len(<<>>) + 1 /\ 1 \in Nat /\ 0 + 1 = 1
  BY <1>1, SMT
<1>3. p \in [1 .. Len(<<>>) + 1 -> Nat] /\ p[1] = 1
  BY <1>2
<1> HIDE DEF p
<1>4. Runs(Len(<<>>), Len(<<>>), Sizes(<<>>), 0, p, p)
  BY <1>2, <1>3 DEF Runs
<1>5. Traced(<<>>, 0, <<>>, p, p)
  BY <1>2, <1>3, <1>4 DEF Traced
<1>6. Goes_on(<<>>, Idle, <<>>, p, p)
  <2>1. Idle.buf = NoThread
    BY DEF Idle
  <2> QED BY <2>1, <1>2, <1>3 DEF Goes_on, Ends_at
<1> QED BY <1>5, <1>6 DEF Flows

(* No PDU has been sent or read. *)
LEMMA StartStream ==
  ASSUME Init
  PROVE  InvStream /\ InvJobs
<1>1. /\ wpdu = [e \in Fd |-> Idle] /\ rpdu = [e \in Fd |-> <<>>] /\ wire = [e \in Fd |-> <<>>]
      /\ order = [e \in Fd |-> <<>>] /\ got = [e \in Fd |-> <<>>]
      /\ at = [t \in Thread |-> "out"] /\ dead = [e \in Fd |-> FALSE]
  BY DEF Init, connInit
<1>2. /\ Idle \in [buf : Thread \cup {NoThread}, sz : Nat, solong : Int]
      /\ Idle.buf = NoThread /\ Idle.sz = 0
  BY SMT DEF Idle
<1>3. /\ <<>> \in Seq(Unit) /\ <<>> \in Seq(Thread) /\ <<>> \in Seq(Seq(Unit))
      /\ Len(<<>>) = 0 /\ <<>> \o <<>> = <<>>
  BY SeqEmpty, SMT
<1>4. 1 .. Len(<<>>) = {} /\ Len(<<>>) <= SocketBuffer /\ Len(<<>>) <= Len(<<>>)
  BY <1>3, SizeAssumption, SMT
<1>5. \A e \in Fd : /\ wpdu[e] = Idle /\ rpdu[e] = <<>> /\ wire[e] = <<>>
                    /\ order[e] = <<>> /\ got[e] = <<>> /\ ~dead[e] /\ dead[e] = FALSE /\ Peer(e) \in Fd
  BY <1>1, Ends
<1>6. \A t \in Thread : at[t] = "out" /\ at[t] \notin Writers
  BY <1>1 DEF Writers
<1>7. /\ wpdu \in [Fd -> [buf : Thread \cup {NoThread}, sz : Nat, solong : Int]]
      /\ rpdu \in [Fd -> Seq(Unit)] /\ wire \in [Fd -> Seq(Unit)]
      /\ order \in [Fd -> Seq(Thread)] /\ got \in [Fd -> Seq(Seq(Unit))]
  BY <1>1, <1>2, <1>3
<1>8. ASSUME NEW e \in Fd PROVE Writing(e) /\ Accepted(e)
  <2>1. Writing(e)
    BY <1>2, <1>5 DEF Writing
  <2>2. Accepted(e)
    BY <1>4, <1>5 DEF Accepted
  <2> QED BY <2>1, <2>2
<1>9. ASSUME NEW e \in Fd PROVE Arriving(e)
  BY <1>3, <1>4, <1>5 DEF Arriving, Begins
<1>10. ASSUME NEW e \in Fd PROVE Flowing(e)
  <2>1. Stream(e) = <<>>
    BY <1>3, <1>5 DEF Stream
  <2>2. Len(got[Peer(e)]) = 0
    BY <1>3, <1>5
  <2> QED BY <2>1, <2>2, <1>5, FlowsFromStart DEF Flowing
<1>11. InvJobs
  BY <1>6, Threads DEF InvJobs
<1> QED BY <1>6, <1>7, <1>8, <1>9, <1>10, <1>11 DEF InvStream

(* Both ends are watched. *)
LEMMA StartWatched ==
  ASSUME Init
  PROVE  InvWatched
<1>1. /\ rfds = Fd /\ callbacks = Fd /\ removing = [t \in Thread |-> "no"] /\ calling = {}
      /\ at = [t \in Thread |-> "out"] /\ dead = [e \in Fd |-> FALSE]
  BY DEF Init, pollInit, connInit
<1>2. at \in [Thread -> Places] /\ \A t \in Thread : at[t] \notin Removers
  BY <1>1 DEF Places, Removers
<1>3. dead \in [Fd -> BOOLEAN] /\ \A e \in Fd : ~dead[e]
  BY <1>1
<1>4. removing \in [Thread -> {"no", "waiting", "woken"}] /\ \A t \in Thread : removing[t] = "no"
  BY <1>1
<1>5. \A e \in Fd : Watched(e)
  BY <1>1, <1>3 DEF Watched
<1>6. \A t \in Thread : Remover(t)
  BY <1>2, <1>4 DEF Remover
<1>7. calling \subseteq {"read", "write"} \X callbacks /\ ~(calling # {})
  BY <1>1
<1> QED BY <1>2, <1>3, <1>4, <1>5, <1>6, <1>7 DEF InvWatched

-----------------------------------------------------------------------------
(* The invariant *)

(* A destructor closes what its object still owns, and nobody else closes. *)
Placed(t) ==
  /\ t[2] = Closer => at[t] \in {"out", "close_remove", "closed", "over"}
  /\ at[t] \in {"close_remove", "closed"} => t[2] = Closer /\ Owned(On(t))

InvPlaces == \A t \in Thread : Placed(t)

(* Those whose reference is counted: users, and the jobs that leaked theirs. *)
Referring(e) == {t \in Thread : On(t) = e /\ t[2] # Closer /\ at[t] \notin {"out", "over"}}
Refs(e) ==
  Cardinality(Referring(e)) + (IF Owned(e) THEN 1 ELSE 0) + (IF Saved(e) THEN 1 ELSE 0)

(* The counts are exact, and a deleted connection is dead and has no references. *)
InvRefs ==
  /\ refno \in [Fd -> Nat] /\ deleted \in [Fd -> BOOLEAN] /\ shut \in [Fd -> BOOLEAN]
  /\ \A e \in Fd : refno[e] = Refs(e) /\ (deleted[e] => dead[e] /\ refno[e] = 0)

(* The poll thread will read e, as select has told it to: there is something to read. *)
Sought(e) == (loop = "callbacks" /\ e \in readable) \/ <<"read", e>> \in calling
Data(e) == wire[Peer(e)] # <<>> \/ Gone(e) \/ Gone(Peer(e))

InvReadable ==
  \A e \in Fd : /\ <<"read", e>> \in calling => e \notin readable
                /\ ~dead[e] /\ Sought(e) => Data(e)

IInv == InvWatched /\ InvPlaces /\ InvStream /\ InvJobs /\ InvRefs /\ InvReadable

-----------------------------------------------------------------------------
(* References *)

(* How many have a reference: the calls and jobs of S, an owner if p, a table if q. *)
Count(S, p, q) == Cardinality(S) + (IF p THEN 1 ELSE 0) + (IF q THEN 1 ELSE 0)

(* References are counted. *)
LEMMA HoldersCount ==
  ASSUME NEW e
  PROVE  /\ Refs(e) = Count(Referring(e), Owned(e), Saved(e))
         /\ Refs(e)' = Count(Referring(e)', Owned(e)', Saved(e)')
         /\ Referring(e) \in SUBSET Thread /\ Referring(e)' \in SUBSET Thread
         /\ Owned(e) \in BOOLEAN /\ Saved(e) \in BOOLEAN
         /\ Owned(e)' \in BOOLEAN /\ Saved(e)' \in BOOLEAN
<1>1. Referring(e) \in SUBSET Thread /\ Referring(e)' \in SUBSET Thread
  BY DEF Referring
<1>2. /\ Refs(e) = Count(Referring(e), Owned(e), Saved(e))
      /\ Refs(e)' = Count(Referring(e)', Owned(e)', Saved(e)')
  BY DEF Refs, Count
<1>3. /\ Owned(e) \in BOOLEAN /\ Saved(e) \in BOOLEAN
      /\ Owned(e)' \in BOOLEAN /\ Saved(e)' \in BOOLEAN
  BY DEF Owned, Saved
<1> QED BY <1>1, <1>2, <1>3

(* u is, or is not, a call or job that has a reference, as before. *)
Stays(u) == at'[u] \in {"out", "over"} <=> at[u] \in {"out", "over"}

(* Nobody comes or goes. *)
LEMMA UsersSame ==
  ASSUME \A u \in Thread : u[2] # Closer => Stays(u)
  PROVE  \A e : Referring(e)' = Referring(e)
<1>1. ASSUME NEW e, NEW u \in Thread PROVE u \in Referring(e)' <=> u \in Referring(e)
  BY DEF Referring, Stays
<1>2. ASSUME NEW e, NEW u, u \notin Thread PROVE u \notin Referring(e)' /\ u \notin Referring(e)
  BY <1>2 DEF Referring
<1>3. ASSUME NEW e PROVE Referring(e)' = Referring(e)
  <2>1. \A u : u \in Referring(e)' <=> u \in Referring(e)
    BY <1>1, <1>2
  <2> QED BY <2>1
<1> QED BY <1>3

(* Thread t comes. *)
LEMMA UsersEnter ==
  ASSUME NEW t \in Thread, t[2] # Closer, at[t] \in {"out", "over"}, at'[t] \notin {"out", "over"},
         \A u \in Thread : u # t => Stays(u)
  PROVE  /\ Referring(On(t))' = Referring(On(t)) \cup {t} /\ t \notin Referring(On(t))
         /\ \A e : e # On(t) => Referring(e)' = Referring(e)
<1>1. t \in Referring(On(t))' /\ t \notin Referring(On(t))
  BY DEF Referring
<1>2. ASSUME NEW e, NEW u, u # t PROVE u \in Referring(e)' <=> u \in Referring(e)
  BY <1>2 DEF Referring, Stays
<1>3. ASSUME NEW e, e # On(t) PROVE t \notin Referring(e)' /\ t \notin Referring(e)
  BY <1>3 DEF Referring
<1>4. Referring(On(t))' = Referring(On(t)) \cup {t}
  BY <1>1, <1>2
<1>5. ASSUME NEW e, e # On(t) PROVE Referring(e)' = Referring(e)
  <2>1. \A u : u \in Referring(e)' <=> u \in Referring(e)
    BY <1>2, <1>3, <1>5
  <2> QED BY <2>1
<1> QED BY <1>1, <1>4, <1>5

(* Thread t goes. *)
LEMMA UsersLeave ==
  ASSUME NEW t \in Thread, t[2] # Closer, at[t] \notin {"out", "over"}, at'[t] \in {"out", "over"},
         \A u \in Thread : u # t => Stays(u)
  PROVE  /\ Referring(On(t))' = Referring(On(t)) \ {t} /\ t \in Referring(On(t))
         /\ \A e : e # On(t) => Referring(e)' = Referring(e)
<1>1. t \notin Referring(On(t))' /\ t \in Referring(On(t))
  BY DEF Referring
<1>2. ASSUME NEW e, NEW u, u # t PROVE u \in Referring(e)' <=> u \in Referring(e)
  BY <1>2 DEF Referring, Stays
<1>3. ASSUME NEW e, e # On(t) PROVE t \notin Referring(e)' /\ t \notin Referring(e)
  BY <1>3 DEF Referring
<1>4. Referring(On(t))' = Referring(On(t)) \ {t}
  BY <1>1, <1>2
<1>5. ASSUME NEW e, e # On(t) PROVE Referring(e)' = Referring(e)
  <2>1. \A u : u \in Referring(e)' <=> u \in Referring(e)
    BY <1>2, <1>3, <1>5
  <2> QED BY <2>1
<1> QED BY <1>1, <1>4, <1>5

(* The owners are the same. *)
LEMMA OwnersSame ==
  ASSUME UNCHANGED <<chan, listener, conns>>
  PROVE  \A e : Owned(e)' = Owned(e) /\ Saved(e)' = Saved(e)
BY DEF Owned, Saved

(* End e has the holders it had. *)
SameHolders(e) == Referring(e)' = Referring(e) /\ Owned(e)' = Owned(e) /\ Saved(e)' = Saved(e)

(* It has as many. *)
LEMMA HoldersSame ==
  ASSUME NEW e, SameHolders(e)
  PROVE  Refs(e)' = Refs(e)
BY HoldersCount DEF SameHolders

(* End e has one holder more, or one less. *)
OneMore(e) == Refs(e)' = Refs(e) + 1 /\ \A f \in Fd : f # e => SameHolders(f)
OneLess(e) ==
  Refs(e)' = Refs(e) - 1 /\ Refs(e) # 0 /\ \A f \in Fd : f # e => SameHolders(f)

(* No incref, no decref. *)
LEMMA RefsSame ==
  ASSUME InvRefs, UNCHANGED <<refno, deleted>>, shut' \in [Fd -> BOOLEAN], Dies,
         \A e \in Fd : SameHolders(e)
  PROVE  InvRefs'
<1>1. \A e \in Fd : Refs(e)' = Refs(e)
  BY HoldersSame
<1> QED BY <1>1 DEF InvRefs, Dies

(* incref. *)
LEMMA RefsMore ==
  ASSUME InvRefs, UNCHANGED <<deleted, shut>>, Dies, NEW e \in Fd, IncRef(e), ~deleted[e], OneMore(e)
  PROVE  InvRefs'
<1>1. refno \in [Fd -> Nat] /\ refno' = [refno EXCEPT ![e] = refno[e] + 1]
  BY DEF InvRefs, IncRef
<1>2. refno' \in [Fd -> Nat] /\ refno'[e] = refno[e] + 1 /\ \A f \in Fd : f # e => refno'[f] = refno[f]
  BY <1>1, SMT
<1>3. \A f \in Fd : refno'[f] = Refs(f)'
  BY <1>2, HoldersSame DEF OneMore, InvRefs
<1> QED BY <1>2, <1>3 DEF InvRefs, Dies

(* decref, and ~connection if it is the last: then nobody has the connection. *)
LEMMA RefsLess ==
  ASSUME InvRefs, UNCHANGED <<dead, shut>>, NEW e \in Fd, DecRef(e), OneLess(e)
  PROVE  InvRefs' /\ \A f \in Fd : deleted[f] => deleted'[f]
<1>1. /\ refno \in [Fd -> Nat] /\ refno' = [refno EXCEPT ![e] = refno[e] - 1]
      /\ deleted \in [Fd -> BOOLEAN] /\ deleted' = [deleted EXCEPT ![e] = (refno[e] = 1 /\ dead[e])]
      /\ refno[e] # 0
  BY DEF InvRefs, DecRef, OneLess
<1>2. refno' \in [Fd -> Nat] /\ refno'[e] = refno[e] - 1 /\ \A f \in Fd : f # e => refno'[f] = refno[f]
  BY <1>1, SMT
<1>3. /\ deleted' \in [Fd -> BOOLEAN] /\ (deleted'[e] <=> refno[e] = 1 /\ dead[e])
      /\ \A f \in Fd : f # e => deleted'[f] = deleted[f]
  <2> DEFINE b == (refno[e] = 1 /\ dead[e])
  <2>1. b \in BOOLEAN
    OBVIOUS
  <2>2. deleted' = [deleted EXCEPT ![e] = b] /\ deleted \in [Fd -> BOOLEAN]
    BY <1>1
  <2> HIDE DEF b
  <2>3. /\ deleted' \in [Fd -> BOOLEAN] /\ deleted'[e] = b
        /\ \A f \in Fd : f # e => deleted'[f] = deleted[f]
    BY <2>1, <2>2
  <2> QED BY <2>3 DEF b
<1>4. refno[e] = 1 => refno'[e] = 0
  BY <1>2, SMT
<1>5. \A f \in Fd : refno'[f] = Refs(f)'
  BY <1>2, HoldersSame DEF OneLess, InvRefs
<1>6. ~deleted[e]
  BY <1>1 DEF InvRefs
<1>7. \A f \in Fd : deleted[f] => deleted'[f]
  BY <1>3, <1>6
<1> QED BY <1>2, <1>3, <1>4, <1>5, <1>7 DEF InvRefs

-----------------------------------------------------------------------------
(* Steps of threads *)

(* Those inside send or dispatch, who have a reference. *)
Using == Places \ {"out", "over", "close_remove", "closed"}

(* A thread that is signalled comes and goes as little as one that is not. *)
LEMMA WokenStays ==
  ASSUME NEW u, Woken(u)
  PROVE  Stays(u)
BY SameRole DEF Stays

(* Nobody closes what is no longer owned. *)
LEMMA PlacesKept ==
  ASSUME InvPlaces, NEW t \in Thread, Others(t), Placed(t)', \A e : Owned(e) => Owned(e)'
  PROVE  InvPlaces'
<1>1. ASSUME NEW u \in Thread, u # t PROVE Placed(u)'
  <2>1. Placed(u) /\ Woken(u)
    BY <1>1 DEF InvPlaces, Others
  <2>2. \A p \in {"out", "over", "closed", "close_remove"} : at'[u] = p <=> at[u] = p
    BY <2>1, SameRole
  <2> QED BY <2>1, <2>2 DEF Placed
<1> QED BY <1>1 DEF InvPlaces

(* The owner of e lets go of it. *)
LEMMA PlacesReleased ==
  ASSUME InvPlaces, NEW e \in Fd, at'[Destroyer(e)] \in {"out", "over"},
         \A u \in Thread : u # Destroyer(e) => at'[u] = at[u],
         \A f \in Fd : f # e => Owned(f)' = Owned(f)
  PROVE  InvPlaces'
<1>1. ASSUME NEW u \in Thread, u = Destroyer(e) PROVE Placed(u)'
  BY <1>1 DEF Placed
<1>2. ASSUME NEW u \in Thread, u # Destroyer(e) PROVE Placed(u)'
  <2>1. Placed(u) /\ at'[u] = at[u] /\ On(u) \in Fd
    BY <1>2, Threads DEF InvPlaces
  <2>2. u[2] = Closer => On(u) # e
    BY <1>2, Threads DEF Destroyer
  <2>3. u[2] = Closer => Owned(On(u))' = Owned(On(u))
    BY <2>1, <2>2
  <2> QED BY <2>1, <2>3 DEF Placed
<1> QED BY <1>1, <1>2 DEF InvPlaces

(* Nothing is taken out of the sockets, or reopened. *)
Grows ==
  /\ Dies /\ Fuller
  /\ \A e \in Fd : (shut[e] => shut'[e]) /\ (deleted[e] => deleted'[e])

(* What the poll thread will read it can still read. *)
LEMMA ReadableKept ==
  ASSUME InvReadable, Grows,
         \A e \in Fd : (Sought(e)' => Sought(e)) /\ (<<"read", e>> \in calling' => e \notin readable')
  PROVE  InvReadable'
<1>1. ASSUME NEW e \in Fd, ~dead'[e], Sought(e)' PROVE Data(e)'
  <2>1. Data(e)
    BY <1>1 DEF InvReadable, Grows, Dies
  <2>2. Peer(e) \in Fd
    BY Ends
  <2> QED BY <2>1, <2>2 DEF Data, Gone, Grows, Fuller
<1> QED BY <1>1 DEF InvReadable

(* The poll thread does nothing. *)
LEMMA ReadableSame ==
  ASSUME InvReadable, Grows, UNCHANGED <<loop, readable, calling>>
  PROVE  InvReadable'
<1>1. UNCHANGED <<loop, readable, calling>>
  OBVIOUS
<1>2. \A e \in Fd : (Sought(e)' => Sought(e)) /\ (<<"read", e>> \in calling' => e \notin readable')
  BY <1>1 DEF Sought, InvReadable
<1> QED BY <1>2, ReadableKept

(* A callback returns. *)
LEMMA ReadableCalled ==
  ASSUME InvReadable, Grows, NEW k, NEW f, CalledBack(k, f)
  PROVE  InvReadable'
<1>1. UNCHANGED <<loop, readable>> /\ calling' = {}
  BY DEF CalledBack
<1>2. \A e \in Fd : (Sought(e)' => Sought(e)) /\ (<<"read", e>> \in calling' => e \notin readable')
  BY <1>1 DEF Sought
<1> QED BY <1>2, ReadableKept

(* A thread that has a reference goes on, *)
LEMMA UsingStep ==
  ASSUME InvPlaces, InvRefs, NEW t \in Thread, Others(t), at[t] \in Using, at'[t] \in Using,
         UNCHANGED <<refno, deleted, chan, listener, conns>>, shut' \in [Fd -> BOOLEAN], Dies
  PROVE  InvPlaces' /\ InvRefs'
<1>1. \A e : Owned(e)' = Owned(e) /\ Saved(e)' = Saved(e)
  BY DEF Owned, Saved
<1>2. Placed(t)'
  <2>1. t[2] # Closer
    BY DEF InvPlaces, Placed, Using
  <2> QED BY <2>1 DEF Placed, Using
<1>3. InvPlaces'
  BY <1>1, <1>2, PlacesKept
<1>4. \A u \in Thread : Stays(u)
  <2>1. Stays(t)
    BY DEF Stays, Using
  <2> QED BY <2>1, WokenStays DEF Others
<1>5. \A e : SameHolders(e)
  BY <1>1, <1>4, UsersSame DEF SameHolders
<1>6. InvRefs'
  BY <1>5, RefsSame
<1> QED BY <1>3, <1>6

(* or nobody moves. *)
LEMMA StillStep ==
  ASSUME InvPlaces, InvRefs, Still,
         UNCHANGED <<refno, deleted, chan, listener, conns>>, shut' \in [Fd -> BOOLEAN], Dies
  PROVE  InvPlaces' /\ InvRefs'
<1>1. \A e : Owned(e)' = Owned(e) /\ Saved(e)' = Saved(e)
  BY DEF Owned, Saved
<1>3. InvPlaces'
  <2>1. ASSUME NEW u \in Thread PROVE Placed(u)'
    <3>1. Placed(u) /\ Woken(u)
      BY DEF InvPlaces, Still
    <3>2. \A p \in {"out", "over", "closed", "close_remove"} : at'[u] = p <=> at[u] = p
      BY <3>1, SameRole
    <3> QED BY <1>1, <3>1, <3>2 DEF Placed
  <2> QED BY <2>1 DEF InvPlaces
<1>4. \A u \in Thread : Stays(u)
  BY WokenStays DEF Still
<1>5. \A e : SameHolders(e)
  BY <1>1, <1>4, UsersSame DEF SameHolders
<1>6. InvRefs'
  BY <1>5, RefsSame
<1> QED BY <1>3, <1>6

(* t moves without writing or removing anything. *)
LEMMA QuietStep ==
  ASSUME IInv, NEW t \in Thread, Others(t), Kept(t), at[t] \notin Removers, at'[t] \notin Removers,
         UNCHANGED <<pollVars, dead, wpdu, rpdu, netVars, order, got>>,
         \A e \in Fd : deleted[e] => deleted'[e]
  PROVE  InvWatched' /\ InvStream' /\ InvJobs' /\ InvReadable'
<1>1. /\ UNCHANGED <<pollVars, dead>> /\ UNCHANGED <<wpdu, rpdu, wire, order, got>>
      /\ UNCHANGED <<loop, readable, calling>> /\ UNCHANGED <<shut, wire, dead>>
  BY DEF pollVars, netVars
<1>2. Dies
  BY <1>1 DEF IInv, InvWatched, Dies
<1>3. Grows
  BY <1>1, <1>2 DEF Grows, Fuller
<1>4. InvWatched'
  BY <1>1, MovedWatched DEF IInv
<1>5. InvStream' /\ InvJobs'
  BY <1>1, <1>2, AllKept, SameStream DEF IInv
<1>6. InvReadable'
  BY <1>1, <1>3, ReadableSame DEF IInv
<1> QED BY <1>4, <1>5, <1>6

(* t moves, and keeps its reference. *)
LEMMA UsingQuietStep ==
  ASSUME IInv, NEW t \in Thread, Others(t), Kept(t),
         at[t] \in Using \ Removers, at'[t] \in Using \ Removers,
         UNCHANGED <<pollVars, objVars, netVars, order, got, chan, listener, conns>>
  PROVE  IInv'
<1>1. /\ UNCHANGED <<refno, deleted, chan, listener, conns>> /\ UNCHANGED shut /\ UNCHANGED dead
      /\ UNCHANGED <<pollVars, dead, wpdu, rpdu, netVars, order, got>>
  BY DEF objVars, netVars
<1>2. Dies /\ shut' \in [Fd -> BOOLEAN]
  BY <1>1 DEF IInv, InvWatched, InvRefs, Dies
<1>3. at[t] \in Using /\ at'[t] \in Using /\ at[t] \notin Removers /\ at'[t] \notin Removers
  OBVIOUS
<1>4. InvPlaces' /\ InvRefs'
  BY <1>1, <1>2, <1>3, UsingStep DEF IInv
<1>5. \A e \in Fd : deleted[e] => deleted'[e]
  BY <1>1
<1>6. InvWatched' /\ InvStream' /\ InvJobs' /\ InvReadable'
  BY <1>1, <1>3, <1>5, QuietStep
<1> QED BY <1>4, <1>6 DEF IInv

(* Where threads are that have a reference. *)
LEMMA Used ==
  \A p \in {"send", "send_wait", "send_wait_woken", "send_complete", "send_complete_woken",
            "sent", "failed", "dispatch", "handler", "kept"} :
    p \in Places /\ p \in Using \ Removers
BY DEF Places, Using, Removers

(* send finds the end dead, *)
LEMMA SendOnDeadStep ==
  ASSUME IInv, NEW t \in Thread, SendOnDead(t), UNCHANGED userVars
  PROVE  IInv'
<1>1. /\ SendBegins(t) /\ Move(t, "failed")
      /\ UNCHANGED <<pollVars, objVars, netVars, order, got, chan, listener, conns>>
  BY DEF SendOnDead, userVars
<1>2. Others(t) /\ at'[t] = "failed"
  BY <1>1, Used, Moved DEF IInv, InvWatched
<1>3. at[t] \in Using \ Removers /\ at'[t] \in Using \ Removers
  BY <1>1, <1>2, Used DEF SendBegins
<1>4. Kept(t)
  BY <1>1, <1>2 DEF Kept, SendBegins, Writers, Begun
<1> QED BY <1>1, <1>2, <1>3, <1>4, UsingQuietStep

(* or finds it busy. *)
LEMMA SendWaitsStep ==
  ASSUME IInv, NEW t \in Thread, SendWaits(t), UNCHANGED userVars
  PROVE  IInv'
<1>1. /\ SendBegins(t) /\ Move(t, "send_wait")
      /\ UNCHANGED <<pollVars, objVars, netVars, order, got, chan, listener, conns>>
  BY DEF SendWaits, userVars
<1>2. Others(t) /\ at'[t] = "send_wait"
  BY <1>1, Used, Moved DEF IInv, InvWatched
<1>3. at[t] \in Using \ Removers /\ at'[t] \in Using \ Removers
  BY <1>1, <1>2, Used DEF SendBegins
<1>4. Kept(t)
  BY <1>1, <1>2 DEF Kept, SendBegins, Writers, Begun
<1> QED BY <1>1, <1>2, <1>3, <1>4, UsingQuietStep

(* send writes. *)
LEMMA SendWritesStep ==
  ASSUME IInv, NEW t \in Thread, SendWrites(t), UNCHANGED userVars
  PROVE  IInv'
<1> DEFINE e == On(t)
<1>0. e \in Fd /\ at \in [Thread -> Places] /\ dead \in [Fd -> BOOLEAN] /\ shut \in [Fd -> BOOLEAN]
  BY Threads DEF IInv, InvWatched, InvRefs
<1>1. /\ SendBegins(t) /\ ~dead[e] /\ UNCHANGED <<refno, deleted>>
      /\ \E lose : shut' = [shut EXCEPT ![e] = shut[e] \/ lose]
  BY DEF SendWrites
<1>2. UNCHANGED <<refno, deleted, chan, listener, conns>>
  BY <1>1 DEF userVars
<1>3. t[2] \in Call
  <2>1. t[2] # Closer
    BY <1>1 DEF SendBegins, IInv, InvPlaces, Placed
  <2> QED BY <2>1, Threads
<1>4. /\ InvStream' /\ InvJobs' /\ Fuller
      /\ SendDone(t) \/ SendAwaits(t) \/ SendFails(t)
  BY <1>0, <1>3, SendWritesStream DEF IInv
<1>5. shut' \in [Fd -> BOOLEAN] /\ \A f \in Fd : shut[f] => shut'[f]
  <2>1. PICK lose : shut' = [shut EXCEPT ![e] = shut[e] \/ lose]
    BY <1>1
  <2> DEFINE b == shut[e] \/ lose
  <2>2. b \in BOOLEAN /\ (shut[e] => b) /\ shut' = [shut EXCEPT ![e] = b]
    BY <2>1
  <2> HIDE DEF b
  <2>3. shut' \in [Fd -> BOOLEAN] /\ shut'[e] = b /\ \A f \in Fd : f # e => shut'[f] = shut[f]
    BY <1>0, <2>2
  <2> QED BY <2>2, <2>3
<1>6. at[t] \in Using /\ at[t] \notin Removers
  BY <1>1, Used DEF SendBegins
<1>7. ASSUME Others(t), at'[t] \in Using, Dies, InvWatched', UNCHANGED <<loop, readable, calling>>
      PROVE  IInv'
  <2>1. InvPlaces' /\ InvRefs'
    BY <1>2, <1>5, <1>6, <1>7, UsingStep DEF IInv
  <2>2. Grows
    BY <1>2, <1>4, <1>5, <1>7 DEF Grows
  <2>3. InvReadable'
    BY <1>7, <2>2, ReadableSame DEF IInv
  <2> QED BY <1>4, <1>7, <2>1, <2>3 DEF IInv
<1>8. CASE SendDone(t)
  <2>1. SendReturns(t, TRUE) /\ UNCHANGED <<pollVars, dead>>
    BY <1>8 DEF SendDone
  <2>2. Others(t) /\ at'[t] \in {"sent", "failed"}
    BY <2>1, <1>0, Returned
  <2>3. at'[t] \in Using /\ at'[t] \notin Removers
    BY <2>2, Used
  <2>4. InvWatched'
    BY <2>1, <2>2, <2>3, <1>6, MovedWatched DEF IInv
  <2>5. Dies /\ UNCHANGED <<loop, readable, calling>>
    BY <2>1, <1>0 DEF Dies, pollVars
  <2> QED BY <1>7, <2>2, <2>3, <2>4, <2>5
<1>9. CASE SendAwaits(t)
  <2>1. /\ Move(t, "send_complete") /\ add_callback(On(t))
        /\ UNCHANGED <<loop, readable, writable, calling, dead>>
    BY <1>9 DEF SendAwaits
  <2>2. Others(t) /\ at'[t] = "send_complete"
    BY <2>1, <1>0, Used, Moved
  <2>3. at'[t] \in Using /\ at'[t] \notin Removers
    BY <2>2, Used
  <2>4. InvWatched'
    BY <2>1, <2>2, <2>3, <1>1, <1>6, RoomWatched DEF IInv
  <2>5. Dies /\ UNCHANGED <<loop, readable, calling>>
    BY <2>1, <1>0 DEF Dies
  <2> QED BY <1>7, <2>2, <2>3, <2>4, <2>5
<1>10. CASE SendFails(t)
  <2>1. Move(t, "send_remove") /\ UNCHANGED pollVars /\ dead' = [dead EXCEPT ![e] = TRUE]
    BY <1>10 DEF SendFails
  <2>2. "send_remove" \in Places /\ "send_remove" \in Using /\ "send_remove" \in Removers
    BY DEF Places, Using, Removers
  <2>3. Others(t) /\ at'[t] = "send_remove"
    BY <2>1, <2>2, <1>0, Moved
  <2>4. InvWatched'
    BY <2>1, <2>2, <2>3, <1>1, DiedWatched DEF IInv
  <2>5. Dies
    BY <2>1, <1>0 DEF Dies
  <2>6. UNCHANGED <<loop, readable, calling>>
    BY <2>1 DEF pollVars
  <2> QED BY <1>7, <2>2, <2>3, <2>4, <2>5, <2>6
<1> QED BY <1>4, <1>8, <1>9, <1>10

(* send is woken, and returns or waits again. *)
LEMMA SendCompletesStep ==
  ASSUME IInv, NEW t \in Thread, SendCompletes(t), UNCHANGED userVars
  PROVE  IInv'
<1> DEFINE w == wpdu[On(t)]
           over == dead[On(t)] \/ w.solong < 0 \/ w.solong >= w.sz
           ok == ~dead[On(t)] /\ w.solong = w.sz
<1>0. On(t) \in Fd /\ at \in [Thread -> Places] /\ dead \in [Fd -> BOOLEAN] /\ shut \in [Fd -> BOOLEAN]
  BY Threads DEF IInv, InvWatched, InvRefs
<1>1. /\ at[t] = "send_complete_woken"
      /\ over => SendReturns(t, ok)
      /\ ~over => Move(t, "send_complete") /\ UNCHANGED wpdu
      /\ UNCHANGED <<pollVars, dead, rpdu, refno, deleted, netVars, order, got>>
  BY DEF SendCompletes
<1>2. at[t] \in Using \ Removers /\ at[t] \in Using /\ at[t] \notin Removers /\ at[t] \in Writers
  BY <1>1, Used DEF Writers
<1>3. CASE ~over
  <2>1. Move(t, "send_complete") /\ UNCHANGED wpdu
    BY <1>1, <1>3
  <2>2. Others(t) /\ at'[t] = "send_complete"
    BY <2>1, <1>0, Used, Moved
  <2>3. at'[t] \in Using \ Removers
    BY <2>2, Used
  <2>4. Kept(t)
    BY <2>2, <1>1 DEF Kept, Writers, Begun
  <2>5. UNCHANGED <<pollVars, objVars, netVars, order, got, chan, listener, conns>>
    BY <1>1, <2>1 DEF objVars, userVars
  <2> QED BY <1>2, <2>2, <2>3, <2>4, <2>5, UsingQuietStep
<1>4. CASE over
  <2>0. ok \in BOOLEAN /\ SendReturns(t, ok)
    BY <1>1, <1>4
  <2> HIDE DEF ok
  <2>1. Others(t) /\ at'[t] \in {"sent", "failed"}
    BY <2>0, <1>0, Returned
  <2>2. at'[t] \in Using /\ at'[t] \notin Removers
    BY <2>1, Used
  <2>3. dead[On(t)] \/ ~(w.solong < w.sz)
    <3>1. ASSUME ~dead[On(t)] PROVE ~(w.solong < w.sz)
      <4>1. w.buf = t /\ Writing(On(t))
        BY <1>0, <1>2 DEF IInv, InvStream
      <4>2. w.buf # NoThread
        BY <4>1, SizeAssumption
      <4>3. w = [buf |-> w.buf, sz |-> Size[w.buf], solong |-> w.solong] /\ w.solong \in 0 .. Size[w.buf]
        BY <3>1, <4>1, <4>2 DEF Writing
      <4> DEFINE a == w.solong
                 b == w.sz
      <4>4. a \in Int /\ ~(a < 0) /\ b = Size[t]
        BY <4>1, <4>3, SMT
      <4>5. b \in Nat
        BY <4>4, SizeAssumption
      <4>6. a < 0 \/ a >= b
        BY <1>4, <3>1
      <4> HIDE DEF a, b, w
      <4>7. ~(a < b)
        BY <4>4, <4>5, <4>6, SMT
      <4> QED BY <4>7 DEF a, b
    <3> QED BY <3>1
  <2>4. InvWatched'
    BY <1>1, <1>2, <2>1, <2>2, MovedWatched DEF IInv
  <2>5. UNCHANGED <<rpdu, wire, order, got, dead>> /\ UNCHANGED <<shut, wire>>
    BY <1>1 DEF netVars
  <2>6. InvStream' /\ InvJobs'
    BY <1>0, <1>2, <2>0, <2>3, <2>5, ReturnedStream DEF IInv
  <2>7. Dies /\ shut' \in [Fd -> BOOLEAN]
    BY <1>0, <2>5 DEF Dies
  <2>8. UNCHANGED <<refno, deleted, chan, listener, conns>>
    BY <1>1 DEF userVars
  <2>9. InvPlaces' /\ InvRefs'
    BY <1>2, <2>1, <2>2, <2>7, <2>8, UsingStep DEF IInv
  <2>10. Grows /\ UNCHANGED <<loop, readable, calling>>
    BY <1>1, <2>5, <2>7 DEF Grows, Fuller, pollVars
  <2>11. InvReadable'
    BY <2>10, ReadableSame DEF IInv
  <2> QED BY <2>4, <2>6, <2>9, <2>11 DEF IInv
<1> QED BY <1>3, <1>4

(* A destructor is no user of the connection. *)
LEMMA CloserRefs ==
  ASSUME InvRefs, NEW t \in Thread, Others(t), t[2] = Closer,
         UNCHANGED <<refno, deleted, chan, listener, conns>>, shut' \in [Fd -> BOOLEAN], Dies
  PROVE  InvRefs'
<1>1. \A e : Owned(e)' = Owned(e) /\ Saved(e)' = Saved(e)
  BY DEF Owned, Saved
<1>2. \A u \in Thread : u[2] # Closer => Stays(u)
  BY WokenStays DEF Others
<1>3. \A e : SameHolders(e)
  BY <1>1, <1>2, UsersSame DEF SameHolders
<1> QED BY <1>3, RefsSame

(* block_remove_fd, up to the wait, *)
LEMMA RemoveStartsStep ==
  ASSUME IInv, NEW t \in Thread, RemoveStarts(t), UNCHANGED userVars
  PROVE  IInv'
<1>1. UNCHANGED connVars /\ UNCHANGED <<loop, readable, calling>>
  BY DEF RemoveStarts, StartRemove
<1>2. /\ UNCHANGED <<wpdu, rpdu, wire, order, got>> /\ UNCHANGED <<at, dead, shut>>
      /\ UNCHANGED <<refno, deleted, chan, listener, conns>>
  BY <1>1 DEF connVars, objVars, netVars, userVars
<1>3. Still /\ Dies /\ shut' \in [Fd -> BOOLEAN]
  BY <1>2 DEF Still, Dies, Woken, IInv, InvWatched, InvRefs
<1>4. InvWatched'
  BY RemoveStartsWatched DEF IInv
<1>5. InvStream' /\ InvJobs'
  BY <1>2, <1>3, WokenKept, SameStream DEF IInv, Still
<1>6. InvPlaces' /\ InvRefs'
  BY <1>2, <1>3, StillStep DEF IInv
<1>7. InvReadable'
  BY <1>1, <1>2, <1>3, ReadableSame DEF IInv, Grows, Fuller
<1> QED BY <1>4, <1>5, <1>6, <1>7 DEF IInv

(* and after it. *)
LEMMA RemoveReturnsStep ==
  ASSUME IInv, NEW t \in Thread, RemoveReturns(t), UNCHANGED userVars
  PROVE  IInv'
<1>0. On(t) \in Fd /\ at \in [Thread -> Places] /\ dead \in [Fd -> BOOLEAN] /\ shut \in [Fd -> BOOLEAN]
  BY Threads DEF IInv, InvWatched, InvRefs
<1>1. /\ at[t] \in {"send_remove", "close_remove"}
      /\ at[t] = "send_remove" => SendReturns(t, FALSE)
      /\ at[t] # "send_remove" => Move(t, "closed") /\ UNCHANGED wpdu
      /\ UNCHANGED <<loop, readable, calling>>
      /\ UNCHANGED <<dead, rpdu, refno, deleted, netVars, order, got>>
  BY DEF RemoveReturns, EndRemove
<1>2. /\ UNCHANGED <<rpdu, wire, order, got, dead>> /\ UNCHANGED <<shut, wire>>
      /\ UNCHANGED <<refno, deleted, chan, listener, conns>>
  BY <1>1 DEF netVars, userVars
<1>3. Dies /\ shut' \in [Fd -> BOOLEAN]
  BY <1>0, <1>2 DEF Dies
<1>4. InvWatched'
  BY RemoveReturnsWatched DEF IInv
<1>5. InvReadable'
  BY <1>1, <1>2, <1>3, ReadableSame DEF IInv, Grows, Fuller
<1>6. CASE at[t] = "send_remove"
  <2>1. SendReturns(t, FALSE) /\ FALSE \in BOOLEAN
    BY <1>1, <1>6
  <2>2. at[t] \in Using /\ at[t] \in Writers /\ at[t] \in Removers
    BY <1>6 DEF Using, Places, Writers, Removers
  <2>3. dead[On(t)]
    BY <2>2 DEF IInv, InvWatched, Remover
  <2>4. InvStream' /\ InvJobs'
    BY <1>0, <1>2, <2>1, <2>2, <2>3, ReturnedStream DEF IInv
  <2>5. Others(t) /\ at'[t] \in {"sent", "failed"}
    BY <2>1, <1>0, Returned
  <2>6. at'[t] \in Using
    BY <2>5, Used
  <2>7. InvPlaces' /\ InvRefs'
    BY <1>2, <1>3, <2>2, <2>5, <2>6, UsingStep DEF IInv
  <2> QED BY <1>4, <1>5, <2>4, <2>7 DEF IInv
<1>7. CASE at[t] = "close_remove"
  <2>1. Move(t, "closed") /\ UNCHANGED <<wpdu, rpdu, wire, order, got>> /\ "closed" \in Places
    BY <1>1, <1>2, <1>7 DEF Places
  <2>2. Others(t) /\ at'[t] = "closed"
    BY <2>1, <1>0, Moved
  <2>3. Kept(t)
    BY <1>7, <2>2 DEF Kept, Writers, Begun
  <2>4. InvStream' /\ InvJobs'
    BY <1>3, <2>1, <2>2, <2>3, AllKept, SameStream DEF IInv
  <2>5. t[2] = Closer /\ Owned(On(t))
    BY <1>7 DEF IInv, InvPlaces, Placed
  <2>6. \A e : Owned(e)' = Owned(e)
    BY <1>2 DEF Owned
  <2>7. Placed(t)'
    BY <2>2, <2>5, <2>6 DEF Placed
  <2>8. InvPlaces'
    BY <2>2, <2>6, <2>7, PlacesKept DEF IInv
  <2>9. InvRefs'
    BY <1>2, <1>3, <2>2, <2>5, CloserRefs DEF IInv
  <2> QED BY <1>4, <1>5, <2>4, <2>8, <2>9 DEF IInv
<1> QED BY <1>1, <1>6, <1>7

=============================================================================
