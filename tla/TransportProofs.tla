--------------------------- MODULE TransportProofs ---------------------------
(***************************************************************************)
(* The invariant of Transport is inductive, and the theorems about it      *)
(* follow: framing, reference counts, and when a connection may be         *)
(* deleted.  First what counting users comes to, then the steps of the     *)
(* poll thread and those that take or drop a reference.                    *)
(***************************************************************************)
EXTENDS StreamProofs, FiniteSetTheorems

(* The leaves are for Zenon, unless they cite SMT. *)
USE Zenon

(* Counting *)

(* Threads are finitely many. *)
LEMMA Counted ==
  ASSUME NEW S \in SUBSET Thread
  PROVE  IsFiniteSet(S) /\ Cardinality(S) \in Nat /\ (Cardinality(S) = 0 <=> S = {})
<1>1. IsFiniteSet(Call)
  <2>1. MaxCalls \in Nat
    BY EndsAssumption
  <2>2. 1 \in Int /\ MaxCalls \in Int
    BY <2>1, SMT
  <2> QED BY <2>2, FS_Interval DEF Call
<1>2. IsFiniteSet(Call \cup {Closer})
  BY <1>1, FS_AddElement
<1>3. IsFiniteSet({Client}) /\ IsFiniteSet({Client} \cup {Server})
  BY FS_Singleton, FS_AddElement
<1>4. Fd = {Client} \cup {Server}
  BY EndsAssumption
<1>5. IsFiniteSet(Thread)
  <2>1. IsFiniteSet(Fd)
    BY <1>3, <1>4
  <2>2. IsFiniteSet(Fd \X (Call \cup {Closer}))
    BY <2>1, <1>2, FS_Product
  <2> QED BY <2>2, EndsAssumption
<1>6. IsFiniteSet(S)
  BY <1>5, FS_Subset
<1> QED BY <1>6, FS_CardinalityType, FS_EmptySet

(* What a count of zero means. *)
LEMMA CountZero ==
  ASSUME NEW S \in SUBSET Thread, NEW p \in BOOLEAN, NEW q \in BOOLEAN
  PROVE  Count(S, p, q) \in Nat /\ (Count(S, p, q) = 0 <=> S = {} /\ ~p /\ ~q)
<1> DEFINE c == Cardinality(S)
<1>1. c \in Nat /\ (c = 0 <=> S = {})
  BY Counted
<1>2. Count(S, p, q) = c + (IF p THEN 1 ELSE 0) + (IF q THEN 1 ELSE 0)
  BY DEF Count
<1> HIDE DEF c
<1>3. /\ Count(S, p, q) \in Nat
      /\ Count(S, p, q) = 0 <=> c = 0 /\ ~p /\ ~q
  BY <1>1, <1>2, SMT
<1> QED BY <1>1, <1>3

(* A call or a job comes or goes. *)
LEMMA CountUsers ==
  ASSUME NEW S \in SUBSET Thread, NEW t \in Thread, NEW p \in BOOLEAN, NEW q \in BOOLEAN
  PROVE  /\ t \notin S => Count(S \cup {t}, p, q) = Count(S, p, q) + 1
         /\ t \in S => Count(S \ {t}, p, q) = Count(S, p, q) - 1
<1> DEFINE c == Cardinality(S)
           a == Cardinality(S \cup {t})
           d == Cardinality(S \ {t})
<1>1. c \in Nat /\ IsFiniteSet(S)
  BY Counted
<1>2. t \notin S => a = c + 1
  BY <1>1, FS_AddElement
<1>3. t \in S => d = c - 1
  BY <1>1, FS_RemoveElement
<1>4. /\ Count(S, p, q) = c + (IF p THEN 1 ELSE 0) + (IF q THEN 1 ELSE 0)
      /\ Count(S \cup {t}, p, q) = a + (IF p THEN 1 ELSE 0) + (IF q THEN 1 ELSE 0)
      /\ Count(S \ {t}, p, q) = d + (IF p THEN 1 ELSE 0) + (IF q THEN 1 ELSE 0)
  BY DEF Count
<1> HIDE DEF a, c, d
<1>5. t \notin S => Count(S \cup {t}, p, q) = Count(S, p, q) + 1
  BY <1>1, <1>2, <1>4, SMT
<1>6. t \in S => Count(S \ {t}, p, q) = Count(S, p, q) - 1
  BY <1>1, <1>3, <1>4, SMT
<1> QED BY <1>5, <1>6

(* An object or a table comes or goes. *)
LEMMA CountOwners ==
  ASSUME NEW S \in SUBSET Thread, NEW p \in BOOLEAN
  PROVE  /\ Count(S, FALSE, p) = Count(S, TRUE, p) - 1
         /\ Count(S, p, FALSE) = Count(S, p, TRUE) - 1
         /\ Count(S, p, TRUE) = Count(S, p, FALSE) + 1
<1> DEFINE c == Cardinality(S)
<1>1. c \in Nat
  BY Counted
<1> HIDE DEF c
<1>2. \A y, z : Count(S, y, z) = c + (IF y THEN 1 ELSE 0) + (IF z THEN 1 ELSE 0)
  BY DEF Count, c
<1> DEFINE b == IF p THEN 1 ELSE 0
<1>3. /\ Count(S, FALSE, p) = c + 0 + b
      /\ Count(S, TRUE, p) = c + 1 + b
      /\ Count(S, p, FALSE) = c + b + 0
      /\ Count(S, p, TRUE) = c + b + 1
  BY <1>2
<1>4. b \in Nat
  BY SMT
<1> DEFINE i == Count(S, FALSE, p)
           j == Count(S, TRUE, p)
           k == Count(S, p, FALSE)
           l == Count(S, p, TRUE)
<1> HIDE DEF b, i, j, k, l
<1>5. i = c + 0 + b /\ j = c + 1 + b /\ k = c + b + 0 /\ l = c + b + 1
  BY <1>3 DEF i, j, k, l
<1>6. i = j - 1 /\ k = l - 1 /\ l = k + 1
  BY <1>1, <1>4, <1>5, SMT
<1> QED BY <1>6 DEF i, j, k, l

(* A call or a job that comes is one more, *)
LEMMA EnterMore ==
  ASSUME NEW t \in Thread, t[2] # Closer, at[t] \in {"out", "over"}, at'[t] \notin {"out", "over"},
         \A u \in Thread : u # t => Stays(u), UNCHANGED <<chan, listener, conns>>
  PROVE  OneMore(On(t))
<1>1. \A e : Owned(e)' = Owned(e) /\ Saved(e)' = Saved(e)
  BY DEF Owned, Saved
<1>2. /\ Referring(On(t))' = Referring(On(t)) \cup {t} /\ t \notin Referring(On(t))
      /\ \A e : e # On(t) => Referring(e)' = Referring(e)
  BY UsersEnter
<1>3. Refs(On(t))' = Refs(On(t)) + 1
  <2> DEFINE e == On(t)
  <2> HIDE DEF e
  <2>1. Referring(e)' = Referring(e) \cup {t} /\ t \notin Referring(e)
    BY <1>2 DEF e
  <2>2. Count(Referring(e) \cup {t}, Owned(e), Saved(e)) = Count(Referring(e), Owned(e), Saved(e)) + 1
    <3> DEFINE S == Referring(e)
               p == Owned(e)
               q == Saved(e)
    <3>1. S \in SUBSET Thread /\ p \in BOOLEAN /\ q \in BOOLEAN
      BY HoldersCount
    <3>2. t \notin S
      BY <2>1
    <3> HIDE DEF S, p, q
    <3>3. Count(S \cup {t}, p, q) = Count(S, p, q) + 1
      BY <3>1, <3>2, CountUsers
    <3> QED BY <3>3 DEF S, p, q
  <2>3. Refs(e)' = Refs(e) + 1
    BY <2>1, <2>2, <1>1, HoldersCount
  <2> QED BY <2>3 DEF e
<1> QED BY <1>1, <1>2, <1>3 DEF OneMore, SameHolders

(* and one that goes is one less. *)
LEMMA LeaveLess ==
  ASSUME NEW t \in Thread, t[2] # Closer, at[t] \notin {"out", "over"}, at'[t] \in {"out", "over"},
         \A u \in Thread : u # t => Stays(u), UNCHANGED <<chan, listener, conns>>
  PROVE  OneLess(On(t))
<1>1. \A e : Owned(e)' = Owned(e) /\ Saved(e)' = Saved(e)
  BY DEF Owned, Saved
<1>2. /\ Referring(On(t))' = Referring(On(t)) \ {t} /\ t \in Referring(On(t))
      /\ \A e : e # On(t) => Referring(e)' = Referring(e)
  BY UsersLeave
<1>3. Refs(On(t))' = Refs(On(t)) - 1 /\ Refs(On(t)) # 0
  <2> DEFINE e == On(t)
  <2> HIDE DEF e
  <2>1. Referring(e)' = Referring(e) \ {t} /\ t \in Referring(e)
    BY <1>2 DEF e
  <2>2. Count(Referring(e) \ {t}, Owned(e), Saved(e)) = Count(Referring(e), Owned(e), Saved(e)) - 1
    <3> DEFINE S == Referring(e)
               p == Owned(e)
               q == Saved(e)
    <3>1. S \in SUBSET Thread /\ p \in BOOLEAN /\ q \in BOOLEAN
      BY HoldersCount
    <3>2. t \in S
      BY <2>1
    <3> HIDE DEF S, p, q
    <3>3. Count(S \ {t}, p, q) = Count(S, p, q) - 1
      BY <3>1, <3>2, CountUsers
    <3> QED BY <3>3 DEF S, p, q
  <2>3. Refs(e)' = Refs(e) - 1
    BY <2>1, <2>2, <1>1, HoldersCount
  <2>4. Refs(e) # 0
    BY <2>1, HoldersCount, CountZero
  <2> QED BY <2>3, <2>4 DEF e
<1> QED BY <1>1, <1>2, <1>3 DEF OneLess, SameHolders

-----------------------------------------------------------------------------
(* Steps of the poll thread *)

(* The loop: what select returns has something to read, and what is fetched was
   returned by it. *)
LEMMA PollReadable ==
  ASSUME IInv, PollStep
  PROVE  InvReadable'
<1>0. calling # {} => loop = "callbacks"
  BY DEF IInv, InvWatched
<1>1. UNCHANGED connVars /\ (Top \/ WaitReady \/ Select(Readable, Writable) \/ Fetch)
  BY DEF PollStep
<1>2. UNCHANGED <<dead, deleted, shut, wire>>
  BY <1>1 DEF connVars, objVars, netVars
<1>3. Grows
  BY <1>2 DEF Grows, Dies, Fuller, IInv, InvWatched
<1>4. ASSUME calling' = {}, loop' # "callbacks" PROVE InvReadable'
  <2>1. \A e \in Fd : ~Sought(e)' /\ <<"read", e>> \notin calling'
    BY <1>4 DEF Sought
  <2> QED BY <2>1 DEF InvReadable
<1>5. CASE Top
  <2>1. calling' = {} /\ loop' = "wait_ready"
    BY <1>5 DEF Top
  <2>2. loop' # "callbacks"
    BY <2>1
  <2> QED BY <1>4, <2>1, <2>2
<1>6. CASE WaitReady
  <2>1. calling' = calling /\ loop = "wait_ready" /\ loop' = "select"
    BY <1>6 DEF WaitReady
  <2>2. loop' # "callbacks" /\ calling' = {}
    BY <2>1, <1>0
  <2> QED BY <1>4, <2>2
<1>7. CASE Select(Readable, Writable)
  <2>1. calling' = calling /\ loop = "select" /\ readable' = readable \cap Readable
    BY <1>7 DEF Select
  <2>2. calling' = {}
    BY <2>1, <1>0
  <2>3. ASSUME NEW e \in Fd, Sought(e)' PROVE Data(e)'
    <3>1. e \in Readable
      BY <2>1, <2>2, <2>3 DEF Sought
    <3>2. Data(e)
      BY <3>1 DEF Readable, Data
    <3> QED BY <3>2, <1>2 DEF Data, Gone
  <2> QED BY <2>2, <2>3 DEF InvReadable
<1>8. CASE Fetch
  <2>1. loop = "callbacks" /\ loop' = loop /\ calling = {}
    BY <1>8 DEF Fetch
  <2>2. ASSUME NEW e \in Fd
        PROVE  (Sought(e)' => Sought(e)) /\ (<<"read", e>> \in calling' => e \notin readable')
    <3>1. ASSUME NEW fd \in readable, readable' = readable \ {fd},
                 calling' = IF fd \in callbacks THEN {<<"read", fd>>} ELSE {}
          PROVE  (Sought(e)' => Sought(e)) /\ (<<"read", e>> \in calling' => e \notin readable')
      <4>1. <<"read", e>> \in calling' => e = fd
        BY <3>1, SMT
      <4> QED BY <4>1, <3>1, <2>1 DEF Sought
    <3>2. ASSUME NEW fd, UNCHANGED readable,
                 calling' = IF fd \in callbacks THEN {<<"write", fd>>} ELSE {}
          PROVE  (Sought(e)' => Sought(e)) /\ (<<"read", e>> \in calling' => e \notin readable')
      <4>1. <<"read", e>> \notin calling'
        BY <3>2, SMT
      <4> QED BY <4>1, <3>2, <2>1 DEF Sought
    <3> QED BY <1>8, <3>1, <3>2 DEF Fetch
  <2> QED BY <1>3, <2>2, ReadableKept DEF IInv
<1> QED BY <1>1, <1>5, <1>6, <1>7, <1>8

(* Nothing else is touched by the loop. *)
LEMMA PollStepStep ==
  ASSUME IInv, PollStep, UNCHANGED userVars
  PROVE  IInv'
<1>1. UNCHANGED connVars
  BY DEF PollStep
<1>2. /\ UNCHANGED <<wpdu, rpdu, wire, order, got>> /\ UNCHANGED <<at, dead, shut>>
      /\ UNCHANGED <<refno, deleted, chan, listener, conns>>
  BY <1>1 DEF connVars, objVars, netVars, userVars
<1>3. Still /\ Dies /\ shut' \in [Fd -> BOOLEAN]
  BY <1>2 DEF Still, Dies, Woken, IInv, InvWatched, InvRefs
<1>4. InvWatched'
  BY PollStepWatched DEF IInv
<1>5. InvStream' /\ InvJobs'
  BY <1>2, <1>3, WokenKept, SameStream DEF IInv, Still
<1>6. InvPlaces' /\ InvRefs'
  BY <1>2, <1>3, StillStep DEF IInv
<1> QED BY <1>4, <1>5, <1>6, PollReadable DEF IInv

(* A callback that does nothing: write_cb of a dead end, in which the VERIFY
   fails, and read_cb of one. *)
LEMMA CalledStep ==
  ASSUME IInv, NEW k, NEW e, CalledBack(k, e),
         UNCHANGED <<watchVars, objVars, at, netVars, order, got, userVars>>
  PROVE  IInv'
<1>2. /\ UNCHANGED <<wpdu, rpdu, wire, order, got>> /\ UNCHANGED <<at, dead, shut, wire, deleted>>
      /\ UNCHANGED <<refno, deleted, chan, listener, conns>> /\ UNCHANGED <<watchVars, dead>>
  BY DEF objVars, netVars, userVars
<1>3. Still /\ Dies /\ shut' \in [Fd -> BOOLEAN] /\ at' \in [Thread -> Places]
  BY <1>2 DEF Still, Dies, Woken, IInv, InvWatched, InvRefs
<1>4. \A u \in Thread : at'[u] \in Removers <=> at[u] \in Removers
  BY <1>2
<1>5. InvWatched'
  BY <1>2, <1>3, <1>4, CalledWatched DEF IInv
<1>6. InvStream' /\ InvJobs'
  BY <1>2, <1>3, WokenKept, SameStream DEF IInv, Still
<1>7. InvPlaces' /\ InvRefs'
  BY <1>2, <1>3, StillStep DEF IInv
<1>8. Grows
  BY <1>2, <1>3 DEF Grows, Fuller
<1>9. InvReadable'
  BY <1>8, ReadableCalled DEF IInv
<1> QED BY <1>5, <1>6, <1>7, <1>9 DEF IInv

(* write_cb. *)
LEMMA WriteCbStep ==
  ASSUME IInv, NEW e \in Fd, WriteCb(e), UNCHANGED userVars
  PROVE  IInv'
<1>0. at \in [Thread -> Places] /\ dead \in [Fd -> BOOLEAN] /\ shut \in [Fd -> BOOLEAN]
  BY DEF IInv, InvWatched, InvRefs
<1>1. CalledBack("write", e) /\ ~dead[e] /\ UNCHANGED <<refno, deleted, shut>>
  BY DEF WriteCb
<1>2. UNCHANGED <<refno, deleted, chan, listener, conns>> /\ shut' \in [Fd -> BOOLEAN]
  BY <1>0, <1>1 DEF userVars
<1>3. /\ InvStream' /\ InvJobs' /\ Fuller /\ Still
      /\ WriteCbIdles(e) \/ WriteCbGoesOn(e) \/ WriteCbFails(e)
  BY <1>0, WriteCbStream DEF IInv
<1>4. InvWatched' /\ Dies
  <2>1. CASE WriteCbIdles(e)
    <3>1. del_callback(e, "CB_WRONLY") /\ UNCHANGED <<dead, at>>
      BY <2>1 DEF WriteCbIdles
    <3> QED BY <3>1, <1>0, <1>1, IdleWatched DEF IInv, Dies
  <2>2. CASE WriteCbGoesOn(e)
    <3>1. UNCHANGED <<watchVars, dead>>
      BY <2>2 DEF WriteCbGoesOn
    <3>2. at' \in [Thread -> Places] /\ \A u \in Thread : at'[u] \in Removers <=> at[u] \in Removers
      BY <1>3, SameRole DEF Still
    <3>3. InvWatched'
      BY <3>1, <3>2, <1>1, CalledWatched DEF IInv
    <3> QED BY <3>1, <3>3, <1>0 DEF Dies
  <2>3. CASE WriteCbFails(e)
    <3>1. del_callback(e, "CB_RDWR") /\ dead' = [dead EXCEPT ![e] = TRUE]
      BY <2>3 DEF WriteCbFails
    <3>2. InvWatched'
      BY <3>1, <1>1, <1>3, GivenUpWatched DEF IInv
    <3>3. Dies
      BY <3>1, <1>0, SMT DEF Dies
    <3> QED BY <3>2, <3>3
  <2> QED BY <1>3, <2>1, <2>2, <2>3
<1>5. InvPlaces' /\ InvRefs'
  BY <1>2, <1>3, <1>4, StillStep DEF IInv
<1>6. Grows
  BY <1>1, <1>3, <1>4 DEF Grows
<1>7. InvReadable'
  BY <1>1, <1>6, ReadableCalled DEF IInv
<1> QED BY <1>3, <1>4, <1>5, <1>7 DEF IInv

(* read_cb takes from the socket what select saw there, once. *)
LEMMA ReadReadable ==
  ASSUME IInv, NEW e \in Fd, CalledBack("read", e), wire'[e] = wire[e], Dies,
         UNCHANGED <<deleted, shut>>
  PROVE  InvReadable'
<1>1. <<"read", e>> \in calling /\ calling' = {} /\ UNCHANGED <<loop, readable>>
  BY DEF CalledBack
<1>2. \A f \in Fd : <<"read", f>> \notin calling'
  BY <1>1
<1>3. ASSUME NEW f \in Fd, ~dead'[f], Sought(f)' PROVE Data(f)'
  <2>1. f \in readable /\ Sought(f)
    BY <1>1, <1>2, <1>3 DEF Sought
  <2>2. f # e
    BY <1>1, <2>1 DEF IInv, InvReadable
  <2>3. Peer(f) = e
    BY <2>2, Ends
  <2>4. Data(f)
    BY <1>3, <2>1 DEF IInv, InvReadable, Dies
  <2> QED BY <2>3, <2>4 DEF Data, Gone
<1> QED BY <1>2, <1>3 DEF InvReadable

(* A connection that is not dead is not deleted, nor is one that somebody uses. *)
LEMMA InUse ==
  ASSUME InvRefs, NEW e \in Fd
  PROVE  (~dead[e] \/ Referring(e) # {} \/ Owned(e)) => ~deleted[e]
<1>1. Refs(e) = 0 => Referring(e) = {} /\ ~Owned(e)
  <2> DEFINE S == Referring(e)
             p == Owned(e)
             q == Saved(e)
  <2>1. S \in SUBSET Thread /\ p \in BOOLEAN /\ q \in BOOLEAN /\ Refs(e) = Count(S, p, q)
    BY HoldersCount
  <2> HIDE DEF S, p, q
  <2>2. Count(S, p, q) = 0 => S = {} /\ ~p
    BY <2>1, CountZero
  <2> QED BY <2>1, <2>2 DEF S, p
<1> QED BY <1>1 DEF InvRefs

(* got_pdu makes a job, with a reference of its own. *)
LEMMA TakenRefs ==
  ASSUME IInv, NEW x \in Call, at[Job(x)] = "out", at' = [at EXCEPT ![Job(x)] = "dispatch"],
         IncRef(Server), ~dead[Server], UNCHANGED <<dead, shut, deleted, chan, listener, conns>>
  PROVE  InvPlaces' /\ InvRefs' /\ at' \in [Thread -> Places]
         /\ \A u \in Thread : at'[u] \in Removers <=> at[u] \in Removers
<1> DEFINE t == Job(x)
<1>0. /\ t \in Thread /\ On(t) = Server /\ t[2] # Closer /\ Server \in Fd
      /\ at \in [Thread -> Places] /\ dead \in [Fd -> BOOLEAN]
  <2>1. t[2] = x
    BY Ends, Threads DEF Job
  <2>2. t[2] # Closer
    BY <2>1, EndsAssumption
  <2>3. t \in Thread /\ On(t) = Server /\ Server \in Fd
    BY Ends, Threads
  <2> QED BY <2>2, <2>3 DEF IInv, InvWatched
<1> HIDE DEF t
<1>1. Move(t, "dispatch")
  BY DEF Move, t
<1>2. Others(t) /\ at'[t] = "dispatch" /\ \A u \in Thread : u # t => at'[u] = at[u]
  BY <1>0, <1>1, Used, Moved
<1>3. Dies
  BY <1>0 DEF Dies
<1>4. at[t] \in {"out", "over"} /\ at'[t] \notin {"out", "over"}
  BY <1>2 DEF t
<1>5. \A u \in Thread : u # t => Stays(u)
  BY <1>2 DEF Stays
<1>6. UNCHANGED <<chan, listener, conns>> /\ UNCHANGED <<deleted, shut>>
  OBVIOUS
<1>7. OneMore(Server)
  BY <1>0, <1>4, <1>5, <1>6, EnterMore
<1>8. ~deleted[Server]
  BY <1>0, InUse DEF IInv
<1>9. InvRefs'
  BY <1>0, <1>3, <1>6, <1>7, <1>8, RefsMore DEF IInv
<1>10. Placed(t)' /\ \A e : Owned(e) => Owned(e)'
  <2>1. Placed(t)'
    BY <1>0, <1>2 DEF Placed
  <2>2. \A e : Owned(e)' = Owned(e)
    BY <1>6, OwnersSame
  <2> QED BY <2>1, <2>2
<1>11. InvPlaces'
  BY <1>0, <1>2, <1>10, PlacesKept DEF IInv
<1>12. at[t] \notin Removers /\ at'[t] \notin Removers
  BY <1>2 DEF Removers, t
<1>13. \A u \in Thread : at'[u] \in Removers <=> at[u] \in Removers
  BY <1>2, <1>12
<1> QED BY <1>2, <1>9, <1>11, <1>13 DEF Others

(* read_cb. *)
LEMMA ReadStepStep ==
  ASSUME IInv, NEW e \in Fd, ReadStep(e)
  PROVE  IInv'
<1>0. at \in [Thread -> Places] /\ dead \in [Fd -> BOOLEAN] /\ shut \in [Fd -> BOOLEAN]
  BY DEF IInv, InvWatched, InvRefs
<1>1. CalledBack("read", e) /\ ~dead[e] /\ UNCHANGED <<deleted, shut>>
  BY DEF ReadStep, ReadCb
<1>2. UNCHANGED <<chan, listener, conns>> /\ shut' \in [Fd -> BOOLEAN]
  BY <1>0, <1>1 DEF ReadStep
<1>3. /\ InvStream' /\ InvJobs' /\ wire'[e] = wire[e]
      /\ ReadFails(e) \/ ReadKeeps(e) \/ ReadTakes(e)
  BY <1>0, ReadStepStream DEF IInv
<1>4. ASSUME InvWatched', InvPlaces', InvRefs', Dies PROVE IInv'
  <2>1. InvReadable'
    BY <1>1, <1>3, <1>4, ReadReadable
  <2> QED BY <1>3, <1>4, <2>1 DEF IInv
<1>5. CASE ReadFails(e)
  <2>1. del_callback(e, "CB_RDWR") /\ dead' = [dead EXCEPT ![e] = TRUE] /\ Still /\ UNCHANGED refno
    BY <1>5 DEF ReadFails
  <2>2. InvWatched'
    BY <2>1, <1>1, GivenUpWatched DEF IInv
  <2>3. Dies
    BY <2>1, <1>0, SMT DEF Dies
  <2>4. UNCHANGED <<refno, deleted, chan, listener, conns>>
    BY <1>1, <1>2, <2>1
  <2>5. InvPlaces' /\ InvRefs'
    BY <2>1, <2>3, <2>4, <1>2, StillStep DEF IInv
  <2> QED BY <1>4, <2>2, <2>3, <2>5
<1>6. CASE ReadKeeps(e)
  <2>1. UNCHANGED <<watchVars, dead>> /\ UNCHANGED <<at, refno, dead>>
    BY <1>6 DEF ReadKeeps
  <2>2. /\ at' \in [Thread -> Places] /\ \A u \in Thread : at'[u] \in Removers <=> at[u] \in Removers
        /\ Still /\ Dies
    BY <1>0, <2>1 DEF Still, Woken, Dies
  <2>3. InvWatched'
    BY <2>1, <2>2, <1>1, CalledWatched DEF IInv
  <2>4. UNCHANGED <<refno, deleted, chan, listener, conns>>
    BY <1>1, <1>2, <2>1
  <2>5. InvPlaces' /\ InvRefs'
    BY <2>2, <2>4, <1>2, StillStep DEF IInv
  <2> QED BY <1>4, <2>2, <2>3, <2>5
<1>7. CASE ReadTakes(e)
  <2>1. e = Server /\ IncRef(Server) /\ UNCHANGED <<watchVars, dead>>
    BY <1>7 DEF ReadTakes
  <2>2. PICK x \in Call : at[Job(x)] = "out" /\ at' = [at EXCEPT ![Job(x)] = "dispatch"]
    BY <1>7 DEF ReadTakes
  <2>3. UNCHANGED <<dead, shut, deleted, chan, listener, conns>> /\ ~dead[Server]
    BY <1>1, <1>2, <2>1
  <2>4. /\ InvPlaces' /\ InvRefs' /\ at' \in [Thread -> Places]
        /\ \A u \in Thread : at'[u] \in Removers <=> at[u] \in Removers
    BY <2>1, <2>2, <2>3, TakenRefs
  <2>5. InvWatched'
    BY <2>1, <2>4, <1>1, CalledWatched DEF IInv
  <2>6. Dies
    BY <2>3, <1>0 DEF Dies
  <2> QED BY <1>4, <2>4, <2>5, <2>6
<1> QED BY <1>3, <1>5, <1>6, <1>7

-----------------------------------------------------------------------------
(* Steps of the users *)

(* Nobody moves, and nothing is written or removed. *)
LEMMA StillQuietStep ==
  ASSUME IInv, UNCHANGED at,
         UNCHANGED <<pollVars, dead, wpdu, rpdu, netVars, order, got>>,
         \A e \in Fd : deleted[e] => deleted'[e]
  PROVE  InvWatched' /\ InvStream' /\ InvJobs' /\ InvReadable' /\ shut' \in [Fd -> BOOLEAN]
<1>1. /\ UNCHANGED <<pollVars, dead>> /\ UNCHANGED <<wpdu, rpdu, wire, order, got>>
      /\ UNCHANGED <<loop, readable, calling>> /\ UNCHANGED <<shut, wire, dead>>
  BY DEF pollVars, netVars
<1>2. Dies /\ Still /\ shut' \in [Fd -> BOOLEAN]
  BY <1>1 DEF IInv, InvWatched, InvRefs, Dies, Still, Woken
<1>3. Grows
  BY <1>1, <1>2 DEF Grows, Fuller
<1>4. InvWatched'
  BY <1>1, <1>2, SameWatched DEF IInv, Still
<1>5. InvStream' /\ InvJobs'
  BY <1>1, <1>2, WokenKept, SameStream DEF IInv, Still
<1>6. InvReadable'
  BY <1>1, <1>3, ReadableSame DEF IInv
<1> QED BY <1>2, <1>4, <1>5, <1>6

(* call1 starts. *)
LEMMA CallStartsStep ==
  ASSUME IInv, NEW x \in Call, CallStarts(x)
  PROVE  IInv'
<1> DEFINE t == Caller(x)
<1>0. /\ t \in Thread /\ On(t) = Client /\ t[2] # Closer /\ Client \in Fd
      /\ at \in [Thread -> Places] /\ dead \in [Fd -> BOOLEAN]
  <2>1. t[2] = x
    BY Ends, Threads DEF Caller
  <2>2. t[2] # Closer
    BY <2>1, EndsAssumption
  <2>3. t \in Thread /\ On(t) = Client /\ Client \in Fd
    BY Ends, Threads
  <2> QED BY <2>2, <2>3 DEF IInv, InvWatched
<1>1. /\ at[t] = "out" /\ ~dead[Client] /\ IncRef(Client) /\ Move(t, "send")
      /\ UNCHANGED <<pollVars, dead, wpdu, rpdu, netVars, order, got>>
      /\ UNCHANGED <<chan, listener, conns>> /\ UNCHANGED deleted
  BY DEF CallStarts, userVars
<1> HIDE DEF t
<1>2. Others(t) /\ at'[t] = "send" /\ \A u \in Thread : u # t => at'[u] = at[u]
  BY <1>0, <1>1, Used, Moved
<1>3. at[t] \notin Removers /\ at'[t] \notin Removers /\ Kept(t)
  BY <1>0, <1>1, <1>2 DEF Removers, Kept, Writers, Begun
<1>4. InvWatched' /\ InvStream' /\ InvJobs' /\ InvReadable'
  BY <1>0, <1>1, <1>2, <1>3, QuietStep
<1>5. at[t] \in {"out", "over"} /\ at'[t] \notin {"out", "over"} /\ \A u \in Thread : u # t => Stays(u)
  BY <1>1, <1>2 DEF Stays
<1>6. OneMore(Client)
  BY <1>0, <1>1, <1>5, EnterMore
<1>7. ~deleted[Client]
  BY <1>0, <1>1, InUse DEF IInv
<1>8. Dies /\ UNCHANGED <<deleted, shut>>
  BY <1>0, <1>1 DEF Dies, netVars
<1>9. InvRefs'
  BY <1>0, <1>1, <1>6, <1>7, <1>8, RefsMore DEF IInv
<1>10. Placed(t)'
  BY <1>0, <1>2 DEF Placed
<1>11. \A e : Owned(e)' = Owned(e)
  BY <1>1, OwnersSame
<1>12. InvPlaces'
  BY <1>0, <1>2, <1>10, <1>11, PlacesKept DEF IInv
<1> QED BY <1>4, <1>9, <1>12 DEF IInv

(* A call or a job ends with decref. *)
LEMMA LeaveStep ==
  ASSUME IInv, NEW t \in Thread, at[t] \in {"sent", "failed", "handler", "dispatch"},
         Move(t, "over"),
         DecRef(On(t)),
         UNCHANGED <<pollVars, dead, wpdu, rpdu, netVars, order, got, chan, listener, conns>>
  PROVE  IInv'
<1>0. On(t) \in Fd /\ at \in [Thread -> Places] /\ dead \in [Fd -> BOOLEAN]
  BY Threads DEF IInv, InvWatched
<1>1. /\ UNCHANGED <<pollVars, dead, wpdu, rpdu, netVars, order, got>>
      /\ UNCHANGED <<chan, listener, conns>> /\ UNCHANGED <<dead, shut>>
  BY DEF netVars
<1>2. Others(t) /\ at'[t] = "over" /\ \A u \in Thread : u # t => at'[u] = at[u]
  <2>1. "over" \in Places
    BY DEF Places
  <2> QED BY <1>0, <2>1, Moved
<1>3. at[t] \notin Removers /\ at'[t] \notin Removers /\ Kept(t)
  BY <1>2 DEF Removers, Kept, Writers, Begun
<1>4. t[2] # Closer
  BY DEF IInv, InvPlaces, Placed
<1>5. at[t] \notin {"out", "over"} /\ at'[t] \in {"out", "over"} /\ \A u \in Thread : u # t => Stays(u)
  BY <1>2 DEF Stays
<1>6. OneLess(On(t))
  BY <1>1, <1>4, <1>5, LeaveLess
<1>7. InvRefs' /\ \A f \in Fd : deleted[f] => deleted'[f]
  BY <1>0, <1>1, <1>6, RefsLess DEF IInv
<1>8. InvWatched' /\ InvStream' /\ InvJobs' /\ InvReadable'
  BY <1>1, <1>2, <1>3, <1>7, QuietStep
<1>9. Placed(t)'
  BY <1>2, <1>4 DEF Placed
<1>10. \A e : Owned(e)' = Owned(e)
  BY <1>1, OwnersSame
<1>11. InvPlaces'
  BY <1>2, <1>9, <1>10, PlacesKept DEF IInv
<1> QED BY <1>7, <1>8, <1>11 DEF IInv

(* The owner of e lets go of it. *)
LEMMA ReleaseLess ==
  ASSUME NEW e \in Fd, Owned(e), ~Owned(e)', \A f \in Fd : f # e => Owned(f)' = Owned(f),
         UNCHANGED conns, \A u \in Thread : u[2] # Closer => Stays(u)
  PROVE  OneLess(e)
<1>1. \A f : Saved(f)' = Saved(f) /\ Referring(f)' = Referring(f)
  <2>1. ASSUME NEW f PROVE Saved(f)' = Saved(f)
    BY DEF Saved
  <2>2. \A f : Referring(f)' = Referring(f)
    BY UsersSame
  <2> QED BY <2>1, <2>2
<1>2. Refs(e)' = Refs(e) - 1 /\ Refs(e) # 0
  <2> DEFINE S == Referring(e)
             q == Saved(e)
  <2>1. S \in SUBSET Thread /\ q \in BOOLEAN /\ TRUE \in BOOLEAN
    BY HoldersCount
  <2>2. Owned(e) = TRUE /\ Owned(e)' = FALSE
    BY HoldersCount
  <2>3. Refs(e) = Count(S, TRUE, q) /\ Refs(e)' = Count(S, FALSE, q)
    BY <1>1, <2>2, HoldersCount
  <2> HIDE DEF S, q
  <2>4. Count(S, FALSE, q) = Count(S, TRUE, q) - 1
    BY <2>1, CountOwners
  <2>5. Count(S, TRUE, q) # 0
    BY <2>1, CountZero
  <2> QED BY <2>3, <2>4, <2>5
<1>3. \A f \in Fd : f # e => SameHolders(f)
  BY <1>1 DEF SameHolders
<1> QED BY <1>2, <1>3 DEF OneLess

(* It does so with decref, before or after it has closed the connection. *)
LEMMA ReleaseStep ==
  ASSUME IInv, NEW e \in Fd, Owned(e), ~Owned(e)', \A f \in Fd : f # e => Owned(f)' = Owned(f),
         UNCHANGED conns, DecRef(e),
         UNCHANGED <<pollVars, dead, wpdu, rpdu, netVars, order, got>>,
         at[Destroyer(e)] \in {"out", "closed"}, at'[Destroyer(e)] \in {"out", "over"},
         at' \in [Thread -> Places], \A u \in Thread : u # Destroyer(e) => at'[u] = at[u]
  PROVE  IInv'
<1> DEFINE t == Destroyer(e)
<1>0. t \in Thread /\ t[2] = Closer
  BY Threads DEF Destroyer
<1>1. \A u \in Thread : u[2] # Closer => Stays(u)
  BY <1>0 DEF Stays
<1>2. OneLess(e)
  BY <1>1, ReleaseLess
<1>3. UNCHANGED <<dead, shut>>
  BY DEF netVars
<1>4. InvRefs' /\ \A f \in Fd : deleted[f] => deleted'[f]
  BY <1>2, <1>3, RefsLess DEF IInv
<1>5. InvPlaces'
  BY PlacesReleased DEF IInv
<1>6. Others(t)
  BY DEF Others, Woken
<1>7. at[t] \notin Removers /\ at'[t] \notin Removers /\ Kept(t)
  BY <1>0 DEF Removers, Kept, Writers, Begun
<1> HIDE DEF t
<1>8. InvWatched' /\ InvStream' /\ InvJobs' /\ InvReadable'
  BY <1>0, <1>4, <1>6, <1>7, QuietStep
<1> QED BY <1>4, <1>5, <1>8 DEF IInv

(* get_refconn replaces a dead connection. *)
LEMMA ReconnectStep ==
  ASSUME IInv, Reconnect
  PROVE  IInv'
<1>0. Client \in Fd /\ Client # Server
  BY Ends
<1>1. /\ chan = "open" /\ chan' = "replaced" /\ UNCHANGED <<listener, conns>> /\ DecRef(Client)
      /\ at[Destroyer(Client)] = "out" /\ UNCHANGED at
      /\ UNCHANGED <<pollVars, dead, wpdu, rpdu, netVars, order, got>>
  BY DEF Reconnect
<1>2. Owned(Client) /\ ~Owned(Client)'
  BY <1>0, <1>1 DEF Owned
<1>3. \A f \in Fd : f # Client => Owned(f)' = Owned(f)
  BY <1>1 DEF Owned
<1>4. /\ at[Destroyer(Client)] \in {"out", "closed"} /\ at'[Destroyer(Client)] \in {"out", "over"}
      /\ at' \in [Thread -> Places] /\ \A u \in Thread : u # Destroyer(Client) => at'[u] = at[u]
  BY <1>1 DEF IInv, InvWatched
<1>5. UNCHANGED conns
  BY <1>1
<1> QED BY <1>0, <1>1, <1>2, <1>3, <1>4, <1>5, ReleaseStep

(* ~rpcc returns. *)
LEMMA RpccDestroyedStep ==
  ASSUME IInv, RpccDestroyed
  PROVE  IInv'
<1>0. Client \in Fd /\ Client # Server /\ Destroyer(Client) \in Thread /\ On(Destroyer(Client)) = Client
  BY Ends, Threads
<1>1. /\ chan' = "closed" /\ UNCHANGED <<listener, conns>> /\ DecRef(Client)
      /\ at[Destroyer(Client)] = "closed" /\ Move(Destroyer(Client), "over")
      /\ UNCHANGED <<pollVars, dead, wpdu, rpdu, netVars, order, got>>
  BY DEF RpccDestroyed
<1>2. Owned(Client)
  BY <1>0, <1>1 DEF IInv, InvPlaces, Placed
<1>3. ~Owned(Client)'
  BY <1>0, <1>1 DEF Owned
<1>4. \A f \in Fd : f # Client => Owned(f)' = Owned(f)
  BY <1>1 DEF Owned
<1>5. Others(Destroyer(Client)) /\ at'[Destroyer(Client)] = "over"
      /\ \A u \in Thread : u # Destroyer(Client) => at'[u] = at[u]
  <2>1. "over" \in Places /\ at \in [Thread -> Places]
    BY DEF Places, IInv, InvWatched
  <2> QED BY <2>1, <1>0, <1>1, Moved
<1>6. /\ at[Destroyer(Client)] \in {"out", "closed"} /\ at'[Destroyer(Client)] \in {"out", "over"}
      /\ at' \in [Thread -> Places] /\ \A u \in Thread : u # Destroyer(Client) => at'[u] = at[u]
  BY <1>1, <1>5 DEF Others
<1>7. UNCHANGED conns
  BY <1>1
<1> QED BY <1>0, <1>1, <1>2, <1>3, <1>4, <1>6, <1>7, ReleaseStep

(* process_accept drops a dead connection that only the table has. *)
LEMMA AcceptStep ==
  ASSUME IInv, Accept
  PROVE  IInv'
<1>0. Server \in Fd /\ Client # Server
  BY Ends
<1>1. /\ listener /\ listener' = FALSE /\ UNCHANGED <<chan, conns>> /\ DecRef(Server)
      /\ at[Destroyer(Server)] = "out" /\ UNCHANGED at
      /\ UNCHANGED <<pollVars, dead, wpdu, rpdu, netVars, order, got>>
  BY DEF Accept
<1>2. Owned(Server) /\ ~Owned(Server)'
  BY <1>0, <1>1 DEF Owned
<1>3. \A f \in Fd : f # Server => Owned(f)' = Owned(f)
  BY <1>1 DEF Owned
<1>4. /\ at[Destroyer(Server)] \in {"out", "closed"} /\ at'[Destroyer(Server)] \in {"out", "over"}
      /\ at' \in [Thread -> Places] /\ \A u \in Thread : u # Destroyer(Server) => at'[u] = at[u]
  BY <1>1 DEF IInv, InvWatched
<1>5. UNCHANGED conns
  BY <1>1
<1> QED BY <1>0, <1>1, <1>2, <1>3, <1>4, <1>5, ReleaseStep

(* The listener is deleted. *)
LEMMA ListenerDeletedStep ==
  ASSUME IInv, ListenerDeleted
  PROVE  IInv'
<1>0. Server \in Fd /\ Client # Server /\ Destroyer(Server) \in Thread /\ On(Destroyer(Server)) = Server
  BY Ends, Threads
<1>1. /\ listener' = FALSE /\ UNCHANGED <<chan, conns>> /\ DecRef(Server)
      /\ at[Destroyer(Server)] = "closed" /\ Move(Destroyer(Server), "over")
      /\ UNCHANGED <<pollVars, dead, wpdu, rpdu, netVars, order, got>>
  BY DEF ListenerDeleted
<1>2. Owned(Server)
  BY <1>0, <1>1 DEF IInv, InvPlaces, Placed
<1>3. ~Owned(Server)'
  BY <1>0, <1>1 DEF Owned
<1>4. \A f \in Fd : f # Server => Owned(f)' = Owned(f)
  BY <1>1 DEF Owned
<1>5. Others(Destroyer(Server)) /\ at'[Destroyer(Server)] = "over"
      /\ \A u \in Thread : u # Destroyer(Server) => at'[u] = at[u]
  <2>1. "over" \in Places /\ at \in [Thread -> Places]
    BY DEF Places, IInv, InvWatched
  <2> QED BY <2>1, <1>0, <1>1, Moved
<1>6. /\ at[Destroyer(Server)] \in {"out", "closed"} /\ at'[Destroyer(Server)] \in {"out", "over"}
      /\ at' \in [Thread -> Places] /\ \A u \in Thread : u # Destroyer(Server) => at'[u] = at[u]
  BY <1>1, <1>5 DEF Others
<1>7. UNCHANGED conns
  BY <1>1
<1> QED BY <1>0, <1>1, <1>2, <1>3, <1>4, <1>6, <1>7, ReleaseStep

(* closeconn, up to block_remove_fd. *)
LEMMA CloseStep ==
  ASSUME IInv, NEW e \in Fd, Owned(e), at[Destroyer(e)] = "out", CloseConn(Destroyer(e)),
         UNCHANGED <<chan, listener, conns>>
  PROVE  IInv'
<1> DEFINE t == Destroyer(e)
<1>0. /\ t \in Thread /\ On(t) = e /\ t[2] = Closer
      /\ at \in [Thread -> Places] /\ dead \in [Fd -> BOOLEAN] /\ shut \in [Fd -> BOOLEAN]
  <2>1. t \in Thread /\ On(t) = e /\ t[2] = Closer
    BY Threads DEF Destroyer
  <2> QED BY <2>1 DEF IInv, InvWatched, InvRefs
<1> HIDE DEF t
<1>1. /\ at[t] = "out" /\ UNCHANGED <<pollVars, wpdu, rpdu, refno, deleted, wire, order, got>>
      /\ dead[e] => Move(t, "closed") /\ UNCHANGED <<dead, shut>>
      /\ ~dead[e] => /\ dead' = [dead EXCEPT ![e] = TRUE] /\ shut' = [shut EXCEPT ![e] = TRUE]
                     /\ Move(t, "close_remove")
  BY <1>0 DEF CloseConn, t
<1>2. /\ UNCHANGED <<refno, deleted, chan, listener, conns>> /\ UNCHANGED pollVars
      /\ UNCHANGED <<wpdu, rpdu, wire, order, got>> /\ UNCHANGED <<wire, deleted>>
      /\ UNCHANGED <<loop, readable, calling>>
  BY <1>1 DEF pollVars
<1>3. \A f : Owned(f)' = Owned(f)
  BY OwnersSame
<1>4. Others(t) /\ at'[t] \in {"closed", "close_remove"}
  <2>1. "closed" \in Places /\ "close_remove" \in Places
    BY DEF Places
  <2> QED BY <2>1, <1>0, <1>1, Moved
<1>5. Dies /\ shut' \in [Fd -> BOOLEAN] /\ \A f \in Fd : shut[f] => shut'[f]
  <2>1. CASE dead[e]
    BY <2>1, <1>0, <1>1 DEF Dies
  <2>2. CASE ~dead[e]
    <3>1. dead' = [dead EXCEPT ![e] = TRUE] /\ shut' = [shut EXCEPT ![e] = TRUE]
      BY <1>1, <2>2
    <3> QED BY <3>1, <1>0, SMT DEF Dies
  <2> QED BY <2>1, <2>2
<1>6. InvWatched'
  <2>1. CASE dead[e]
    <3>1. Others(t) /\ at'[t] = "closed" /\ UNCHANGED <<pollVars, dead>>
      <4>1. "closed" \in Places
        BY DEF Places
      <4> QED BY <4>1, <2>1, <1>0, <1>1, Moved
    <3>2. at[t] \notin Removers /\ at'[t] \notin Removers
      BY <3>1, <1>1 DEF Removers
    <3> QED BY <3>1, <3>2, <1>0, MovedWatched DEF IInv
  <2>2. CASE ~dead[e]
    <3>1. Others(t) /\ at'[t] = "close_remove" /\ dead' = [dead EXCEPT ![On(t)] = TRUE]
      <4>1. "close_remove" \in Places
        BY DEF Places
      <4> QED BY <4>1, <2>2, <1>0, <1>1, Moved
    <3>2. at'[t] \in Removers /\ ~dead[On(t)]
      BY <3>1, <2>2, <1>0 DEF Removers
    <3> QED BY <3>1, <3>2, <1>0, <1>2, DiedWatched DEF IInv
  <2> QED BY <2>1, <2>2
<1>7. Kept(t)
  BY <1>0, <1>1, <1>4 DEF Kept, Writers, Begun
<1>8. InvStream' /\ InvJobs'
  BY <1>0, <1>2, <1>4, <1>5, <1>7, AllKept, SameStream DEF IInv
<1>9. InvRefs'
  BY <1>0, <1>2, <1>4, <1>5, CloserRefs DEF IInv
<1>10. Placed(t)'
  BY <1>0, <1>3, <1>4 DEF Placed
<1>11. InvPlaces'
  BY <1>0, <1>3, <1>4, <1>10, PlacesKept DEF IInv
<1>12. Grows
  BY <1>2, <1>5 DEF Grows, Fuller
<1>13. InvReadable'
  BY <1>2, <1>12, ReadableSame DEF IInv
<1> QED BY <1>6, <1>8, <1>9, <1>11, <1>13 DEF IInv

(* rpcs::conns_ takes a reference, or drops it. *)
LEMMA SavedCount ==
  ASSUME UNCHANGED <<chan, listener>>, \A u \in Thread : u[2] # Closer => Stays(u)
  PROVE  /\ conns # "this" /\ conns' = "this" => OneMore(Server)
         /\ conns = "this" /\ conns' # "this" => OneLess(Server)
         /\ conns # "this" /\ conns' # "this" => \A e \in Fd : SameHolders(e)
<1> DEFINE S == Referring(Server)
           p == Owned(Server)
<1>1. \A e : Referring(e)' = Referring(e)
  BY UsersSame
<1>2. \A e : Owned(e)' = Owned(e)
  BY DEF Owned
<1>3. \A e : e # Server => Saved(e)' = Saved(e)
  BY DEF Saved
<1>4. \A e \in Fd : e # Server => SameHolders(e)
  BY <1>1, <1>2, <1>3 DEF SameHolders
<1>5. S \in SUBSET Thread /\ p \in BOOLEAN /\ TRUE \in BOOLEAN
  BY HoldersCount
<1>6. Refs(Server) = Count(S, p, Saved(Server)) /\ Refs(Server)' = Count(S, p, Saved(Server)')
  BY <1>1, <1>2, HoldersCount
<1> HIDE DEF S, p
<1>7. Count(S, p, FALSE) = Count(S, p, TRUE) - 1 /\ Count(S, p, TRUE) = Count(S, p, FALSE) + 1
  BY <1>5, CountOwners
<1>8. Count(S, p, TRUE) # 0
  BY <1>5, CountZero
<1>9. /\ conns = "this" => Saved(Server) = TRUE
      /\ conns # "this" => Saved(Server) = FALSE
      /\ conns' = "this" => Saved(Server)' = TRUE
      /\ conns' # "this" => Saved(Server)' = FALSE
  BY DEF Saved
<1>10. ASSUME conns # "this", conns' = "this" PROVE OneMore(Server)
  BY <1>4, <1>6, <1>7, <1>9, <1>10 DEF OneMore
<1>11. ASSUME conns = "this", conns' # "this" PROVE OneLess(Server)
  BY <1>4, <1>6, <1>7, <1>8, <1>9, <1>11 DEF OneLess
<1>12. ASSUME conns # "this", conns' # "this" PROVE \A e \in Fd : SameHolders(e)
  <2>1. SameHolders(Server)
    BY <1>1, <1>2, <1>9, <1>12 DEF SameHolders
  <2> QED BY <1>4, <2>1
<1> QED BY <1>10, <1>11, <1>12

(* A request over the client's next connection. *)
LEMMA ConnsReplacedStep ==
  ASSUME IInv, ConnsReplaced
  PROVE  IInv'
<1>0. Server \in Fd /\ at \in [Thread -> Places] /\ dead \in [Fd -> BOOLEAN]
  BY Ends DEF IInv, InvWatched
<1>1. /\ conns' = "newer" /\ UNCHANGED <<chan, listener>> /\ UNCHANGED at
      /\ UNCHANGED <<pollVars, dead, wpdu, rpdu, netVars, order, got>>
      /\ conns = "this" => DecRef(Server)
      /\ conns # "this" => UNCHANGED <<refno, deleted>>
  BY DEF ConnsReplaced
<1>2. conns' # "this" /\ UNCHANGED <<dead, shut>>
  BY <1>1 DEF netVars
<1>3. \A u \in Thread : u[2] # Closer => Stays(u)
  BY <1>1 DEF Stays
<1>4. InvRefs' /\ \A f \in Fd : deleted[f] => deleted'[f]
  <2>1. CASE conns = "this"
    <3>1. OneLess(Server)
      BY <2>1, <1>1, <1>2, <1>3, SavedCount
    <3> QED BY <3>1, <2>1, <1>0, <1>1, <1>2, RefsLess DEF IInv
  <2>2. CASE conns # "this"
    <3>1. \A e \in Fd : SameHolders(e)
      BY <2>2, <1>1, <1>2, <1>3, SavedCount
    <3>2. Dies /\ shut' \in [Fd -> BOOLEAN] /\ UNCHANGED <<refno, deleted>>
      BY <2>2, <1>0, <1>1, <1>2 DEF Dies, IInv, InvRefs
    <3>3. InvRefs'
      BY <3>1, <3>2, RefsSame DEF IInv
    <3> QED BY <3>2, <3>3
  <2> QED BY <2>1, <2>2
<1>5. InvWatched' /\ InvStream' /\ InvJobs' /\ InvReadable'
  BY <1>1, <1>4, StillQuietStep
<1>6. InvPlaces'
  <2>1. \A e : Owned(e)' = Owned(e)
    BY <1>1 DEF Owned
  <2> QED BY <1>1, <2>1 DEF IInv, InvPlaces, Placed
<1> QED BY <1>4, <1>5, <1>6 DEF IInv

(* dispatch, up to the switch. *)
LEMMA DispatchStep ==
  ASSUME IInv, NEW x \in Call, Dispatch(x)
  PROVE  IInv'
<1> DEFINE t == Job(x)
<1>0. /\ t \in Thread /\ On(t) = Server /\ t[2] # Closer /\ Server \in Fd
      /\ at \in [Thread -> Places] /\ dead \in [Fd -> BOOLEAN]
  <2>1. t[2] = x
    BY Ends, Threads DEF Job
  <2>2. t[2] # Closer
    BY <2>1, EndsAssumption
  <2>3. t \in Thread /\ On(t) = Server /\ Server \in Fd
    BY Ends, Threads
  <2> QED BY <2>2, <2>3 DEF IInv, InvWatched
<1>1. /\ at[t] = "dispatch"
      /\ \/ Move(t, "over") /\ DecRef(Server) /\ UNCHANGED conns
         \/ Move(t, "send") /\ UNCHANGED <<conns, refno>> /\ UNCHANGED deleted
         \/ Move(t, "handler") /\ SaveConn /\ UNCHANGED deleted
      /\ UNCHANGED <<pollVars, dead, wpdu, rpdu, netVars, order, got>>
      /\ UNCHANGED <<chan, listener>>
  BY DEF Dispatch
<1>8. CASE Move(t, "over") /\ DecRef(Server) /\ UNCHANGED conns
  <2>1. UNCHANGED <<pollVars, dead, wpdu, rpdu, netVars, order, got, chan, listener, conns>>
    BY <1>1, <1>8
  <2> QED BY <2>1, <1>0, <1>1, <1>8, LeaveStep
<1> SUFFICES ASSUME /\ \/ Move(t, "send") /\ UNCHANGED <<conns, refno>>
                       \/ Move(t, "handler") /\ SaveConn
                    /\ UNCHANGED deleted
             PROVE  IInv'
  BY <1>1, <1>8
<1>2. at[t] \in Using \ Removers
  BY <1>1, Used
<1> HIDE DEF t
<1>3. Others(t) /\ at'[t] \in {"send", "handler"} /\ \A u \in Thread : u # t => at'[u] = at[u]
  BY <1>0, <1>1, Used, Moved
<1>4. at'[t] \in Using \ Removers /\ Kept(t)
  BY <1>1, <1>3, Used DEF Kept, Writers, Begun
<1>5. CASE UNCHANGED <<conns, refno>>
  <2>1. UNCHANGED <<pollVars, objVars, netVars, order, got, chan, listener, conns>>
    BY <1>1, <1>5 DEF objVars
  <2> QED BY <2>1, <1>0, <1>2, <1>3, <1>4, UsingQuietStep
<1>6. CASE conns = "none" /\ conns' = "this" /\ IncRef(Server)
  <2>1. InvWatched' /\ InvStream' /\ InvJobs' /\ InvReadable'
    BY <1>0, <1>1, <1>2, <1>3, <1>4, QuietStep
  <2>2. \A u \in Thread : Stays(u)
    BY <1>1, <1>3 DEF Stays
  <2>3. OneMore(Server)
    BY <1>1, <1>6, <2>2, SavedCount
  <2>4. ~deleted[Server]
    <3>1. t \in Referring(Server)
      BY <1>0, <1>1 DEF Referring
    <3> QED BY <3>1, <1>0, InUse DEF IInv
  <2>5. UNCHANGED <<deleted, shut>> /\ Dies
    BY <1>0, <1>1 DEF netVars, Dies
  <2>6. InvRefs'
    BY <1>0, <1>6, <2>3, <2>4, <2>5, RefsMore DEF IInv
  <2>7. \A e : Owned(e)' = Owned(e)
    BY <1>1 DEF Owned
  <2>8. Placed(t)'
    BY <1>0, <1>3 DEF Placed
  <2>9. InvPlaces'
    BY <1>0, <1>3, <2>7, <2>8, PlacesKept DEF IInv
  <2> QED BY <2>1, <2>6, <2>9 DEF IInv
<1>7. SaveConn => UNCHANGED <<conns, refno>> \/ (conns = "none" /\ conns' = "this" /\ IncRef(Server))
  BY DEF SaveConn
<1> QED BY <1>1, <1>5, <1>6, <1>7

(* A job goes on with its reference. *)
LEMMA JobGoesOn ==
  ASSUME IInv, NEW t \in Thread, at[t] \in {"handler", "sent", "failed"}, NEW p \in {"send", "kept"},
         Move(t, p), p = "send" => at[t] = "handler", UNCHANGED <<refno, deleted>>,
         UNCHANGED <<pollVars, dead, wpdu, rpdu, netVars, order, got, chan, listener, conns>>
  PROVE  IInv'
<1>1. UNCHANGED <<pollVars, objVars, netVars, order, got, chan, listener, conns>>
  BY DEF objVars
<1>2. Others(t) /\ at'[t] = p
  BY Used, Moved DEF IInv, InvWatched
<1>3. at[t] \in Using \ Removers /\ at'[t] \in Using \ Removers
  BY <1>2, Used
<1>4. Kept(t)
  BY <1>2 DEF Kept, Writers, Begun
<1> QED BY <1>1, <1>2, <1>3, <1>4, UsingQuietStep

(* The switch, and the ends of call1 and dispatch. *)
LEMMA UserEndStep ==
  ASSUME IInv, NEW x \in Call, CallEnds(x) \/ Switch(x) \/ DispatchEnds(x)
  PROVE  IInv'
<1>0. Job(x) \in Thread /\ On(Job(x)) = Server /\ Caller(x) \in Thread /\ On(Caller(x)) = Client
  BY Threads
<1>1. CASE CallEnds(x)
  <2>1. /\ at[Caller(x)] \in {"sent", "failed", "handler"} /\ Move(Caller(x), "over")
        /\ DecRef(On(Caller(x)))
        /\ UNCHANGED <<pollVars, dead, wpdu, rpdu, netVars, order, got, chan, listener, conns>>
    BY <1>0, <1>1 DEF CallEnds, userVars
  <2> QED BY <2>1, <1>0, LeaveStep
<1>2. CASE Switch(x)
  <2>1. /\ at[Job(x)] \in {"handler", "sent", "failed"} /\ at[Job(x)] = "handler"
        /\ UNCHANGED <<pollVars, dead, wpdu, rpdu, netVars, order, got, chan, listener, conns>>
        /\ \/ Move(Job(x), "over") /\ DecRef(On(Job(x)))
           \/ Move(Job(x), "send") /\ UNCHANGED <<refno, deleted>>
    BY <1>0, <1>2 DEF Switch, userVars
  <2> QED BY <2>1, <1>0, LeaveStep, JobGoesOn
<1>3. CASE DispatchEnds(x)
  <2>1. /\ at[Job(x)] \in {"handler", "sent", "failed"}
        /\ UNCHANGED <<pollVars, dead, wpdu, rpdu, netVars, order, got, chan, listener, conns>>
        /\ \/ Move(Job(x), "over") /\ DecRef(On(Job(x)))
           \/ Move(Job(x), "kept") /\ UNCHANGED <<refno, deleted>>
    BY <1>0, <1>3 DEF DispatchEnds, userVars
  <2>2. "kept" \in {"send", "kept"} /\ "kept" # "send"
    OBVIOUS
  <2> QED BY <2>1, <2>2, <1>0, LeaveStep, JobGoesOn
<1> QED BY <1>1, <1>2, <1>3

-----------------------------------------------------------------------------
(* The invariant *)

(* Each end starts with one reference, its owner's. *)
LEMMA StartRefs ==
  ASSUME Init
  PROVE  InvRefs /\ InvPlaces /\ InvReadable
<1>1. /\ refno = [e \in Fd |-> 1] /\ deleted = [e \in Fd |-> FALSE] /\ shut = [e \in Fd |-> FALSE]
      /\ at = [t \in Thread |-> "out"]
      /\ chan = "open" /\ listener = TRUE /\ conns = "none" /\ readable = {} /\ calling = {}
  BY DEF Init, connInit, pollInit
<1>2. \A t \in Thread : at[t] = "out"
  BY <1>1
<1>3. ASSUME NEW e \in Fd PROVE Refs(e) = 1
  <2>1. Referring(e) = {}
    BY <1>2 DEF Referring
  <2>2. Owned(e) = TRUE
    BY <1>1, EndsAssumption DEF Owned
  <2>3. Saved(e) = FALSE
    BY <1>1 DEF Saved
  <2>4. {} \in SUBSET Thread /\ TRUE \in BOOLEAN /\ FALSE \in BOOLEAN
    OBVIOUS
  <2> DEFINE a == Count({}, FALSE, FALSE)
             b == Count({}, TRUE, FALSE)
  <2>5. a = 0 /\ b \in Nat
    BY <2>4, CountZero
  <2>6. a = b - 1
    BY <2>4, CountOwners
  <2> HIDE DEF a, b
  <2>7. b = 1
    BY <2>5, <2>6, SMT
  <2> QED BY <2>1, <2>2, <2>3, <2>7, HoldersCount DEF b
<1>4. /\ refno \in [Fd -> Nat] /\ deleted \in [Fd -> BOOLEAN] /\ shut \in [Fd -> BOOLEAN]
      /\ \A e \in Fd : refno[e] = 1 /\ ~deleted[e]
  <2>1. 1 \in Nat
    BY SMT
  <2> QED BY <1>1, <2>1
<1>5. InvRefs
  BY <1>3, <1>4 DEF InvRefs
<1>6. InvPlaces
  BY <1>2 DEF InvPlaces, Placed
<1>7. InvReadable
  BY <1>1 DEF InvReadable, Sought
<1> QED BY <1>5, <1>6, <1>7

(* Every step keeps it. *)
LEMMA StepInv ==
  ASSUME IInv, Next
  PROVE  IInv'
<1>1. ASSUME NEW t \in Thread, ThreadStep(t) PROVE IInv'
  <2>1. /\ \/ SendOnDead(t) \/ SendWaits(t) \/ SendWrites(t) \/ SendCompletes(t)
           \/ RemoveStarts(t) \/ RemoveReturns(t)
        /\ UNCHANGED userVars
    BY <1>1 DEF ThreadStep
  <2> QED BY <2>1, SendOnDeadStep, SendWaitsStep, SendWritesStep, SendCompletesStep,
             RemoveStartsStep, RemoveReturnsStep
<1>2. CASE PollThread
  <2>1. CASE PollStep /\ UNCHANGED userVars
    BY <2>1, PollStepStep
  <2>2. ASSUME NEW e \in Fd, WriteCbAborts(e), UNCHANGED userVars PROVE IInv'
    <3>1. CalledBack("write", e) /\ UNCHANGED <<watchVars, objVars, at, netVars, order, got, userVars>>
      BY <2>2 DEF WriteCbAborts
    <3> QED BY <3>1, CalledStep
  <2>3. ASSUME NEW e \in Fd, WriteCb(e), UNCHANGED userVars PROVE IInv'
    BY <2>3, WriteCbStep
  <2>4. ASSUME NEW e \in Fd, ReadCbDead(e), UNCHANGED userVars PROVE IInv'
    <3>1. CalledBack("read", e) /\ UNCHANGED <<watchVars, objVars, at, netVars, order, got, userVars>>
      BY <2>4 DEF ReadCbDead, connVars
    <3> QED BY <3>1, CalledStep
  <2>5. ASSUME NEW e \in Fd, ReadStep(e) PROVE IInv'
    BY <2>5, ReadStepStep
  <2> QED BY <1>2, <2>1, <2>2, <2>3, <2>4, <2>5 DEF PollThread
<1>3. CASE UserStep
  <2>1. ASSUME NEW x \in Call, CallEnds(x) \/ Dispatch(x) \/ Switch(x) \/ DispatchEnds(x) PROVE IInv'
    BY <2>1, UserEndStep, DispatchStep
  <2> QED BY <1>3, <2>1, RpccDestroyedStep, ListenerDeletedStep DEF UserStep
<1>4. CASE Begin
  <2>1. ASSUME DestroyRpcc PROVE IInv'
    <3>1. /\ chan = "open" /\ at[Destroyer(Client)] = "out" /\ CloseConn(Destroyer(Client))
          /\ UNCHANGED <<chan, listener, conns>>
      BY <2>1 DEF DestroyRpcc
    <3>2. Client \in Fd /\ Owned(Client)
      BY <3>1, Ends DEF Owned
    <3> QED BY <3>1, <3>2, CloseStep
  <2>2. ASSUME DestroyRpcs PROVE IInv'
    <3>1. /\ listener /\ at[Destroyer(Server)] = "out" /\ CloseConn(Destroyer(Server))
          /\ UNCHANGED <<chan, listener, conns>>
      BY <2>2 DEF DestroyRpcs
    <3>2. Server \in Fd /\ Owned(Server)
      BY <3>1, Ends DEF Owned
    <3> QED BY <3>1, <3>2, CloseStep
  <2> QED BY <1>4, <2>1, <2>2, CallStartsStep, ReconnectStep, ConnsReplacedStep, AcceptStep DEF Begin
<1> QED BY <1>1, <1>2, <1>3, <1>4 DEF Next

(* It holds in every state of every run: for any number of calls, any sizes of PDUs and
   of the socket buffers, and any refusals, reconnections and destructions. *)
THEOREM Invariance == Spec => []IInv
<1>1. Init => IInv
  BY StartRefs, StartStream, StartWatched DEF IInv
<1>2. IInv /\ [Next]_vars => IInv'
  <2> SUFFICES ASSUME IInv, [Next]_vars PROVE IInv'
    BY SMT
  <2>1. CASE Next
    BY <2>1, StepInv
  <2>2. CASE UNCHANGED vars
    <3>1. /\ UNCHANGED <<pollVars, dead, wpdu, rpdu, netVars, order, got>> /\ UNCHANGED at
          /\ UNCHANGED <<refno, deleted, chan, listener, conns>> /\ UNCHANGED dead /\ UNCHANGED deleted
      BY <2>2 DEF vars, connVars, objVars, userVars
    <3>2. InvWatched' /\ InvStream' /\ InvJobs' /\ InvReadable' /\ shut' \in [Fd -> BOOLEAN]
      BY <3>1, StillQuietStep
    <3>3. Still /\ Dies
      BY <3>1 DEF Still, Woken, Dies, IInv, InvWatched
    <3>4. InvPlaces' /\ InvRefs'
      BY <3>1, <3>2, <3>3, StillStep DEF IInv
    <3> QED BY <3>2, <3>4 DEF IInv
  <2> QED BY <2>1, <2>2
<1> QED BY <1>1, <1>2, PTL DEF Spec

(* got_pdu is given exactly the PDUs that send accepted, whole and in order. *)
THEOREM FramingHolds == Spec => []Framing
<1>1. IInv => Framing
  <2> SUFFICES ASSUME IInv, NEW e \in Fd, NEW i \in DOMAIN got[e]
               PROVE  i <= Len(order[Peer(e)]) /\ got[e][i] = Pdu(order[Peer(e)][i])
    BY DEF Framing
  <2> DEFINE g == got[e]
             o == order[Peer(e)]
  <2>1. g \in Seq(Seq(Unit)) /\ o \in Seq(Thread) /\ i \in DOMAIN g
    BY Ends DEF IInv, InvStream
  <2>2. Len(g) <= Len(o) /\ \A j \in 1 .. Len(g) : g[j] = Pdu(o[j])
    BY DEF IInv, InvStream, Arriving
  <2> HIDE DEF g, o
  <2>3. Len(g) \in Nat /\ Len(o) \in Nat /\ DOMAIN g = 1 .. Len(g)
    BY <2>1, SeqLength
  <2>4. i \in 1 .. Len(g) /\ i <= Len(o)
    BY <2>1, <2>2, <2>3, SMT
  <2>5. g[i] = Pdu(o[i])
    BY <2>2, <2>4
  <2> QED BY <2>4, <2>5 DEF g, o
<1> QED BY <1>1, Invariance, PTL

(* A counted reference is one that is used, or one that was leaked. *)
LEMMA SplitRefs ==
  ASSUME InvPlaces, NEW e
  PROVE  /\ Cardinality(Referring(e)) = Cardinality(Users(e)) + Cardinality(Leaked(e))
         /\ Cardinality(Users(e)) \in Nat /\ Cardinality(Leaked(e)) \in Nat
<1>1. Users(e) \in SUBSET Thread /\ Leaked(e) \in SUBSET Thread
  BY DEF Users, Leaked
<1>2. /\ IsFiniteSet(Users(e)) /\ IsFiniteSet(Leaked(e))
      /\ Cardinality(Users(e)) \in Nat /\ Cardinality(Leaked(e)) \in Nat
  BY <1>1, Counted
<1>3. Users(e) \cap Leaked(e) = {}
  BY DEF Users, Leaked
<1>4. ASSUME NEW t PROVE t \in Referring(e) <=> t \in Users(e) \cup Leaked(e)
  <2>1. t \in Leaked(e) => t[2] # Closer
    BY DEF Leaked, InvPlaces, Placed
  <2> QED BY <2>1 DEF Referring, Users, Leaked
<1>5. Referring(e) = Users(e) \cup Leaked(e)
  BY <1>4
<1>6. Cardinality(Users(e) \cup Leaked(e)) = Cardinality(Users(e)) + Cardinality(Leaked(e))
  <2> DEFINE u == Cardinality(Users(e))
             k == Cardinality(Leaked(e))
             n == Cardinality(Users(e) \cup Leaked(e))
             z == Cardinality(Users(e) \cap Leaked(e))
  <2>1. n = u + k - z
    BY <1>2, FS_Union
  <2>2. z = 0
    BY <1>3, FS_EmptySet
  <2>3. u \in Nat /\ k \in Nat
    BY <1>2
  <2> HIDE DEF u, k, n, z
  <2>4. n = u + k
    BY <2>1, <2>2, <2>3, SMT
  <2> QED BY <2>4 DEF u, k, n
<1> QED BY <1>2, <1>5, <1>6

(* refno_ is the number of callers, jobs and tables that have the connection, and
   one more for every answered request for an old instance. *)
THEOREM RefExactHolds == Spec => []RefExact
<1>1. IInv => RefExact
  <2> SUFFICES ASSUME IInv, NEW e \in Fd
               PROVE  refno[e] = Holders(e) + Cardinality(Leaked(e))
    BY DEF RefExact
  <2> DEFINE u == Cardinality(Users(e))
             k == Cardinality(Leaked(e))
             n == Cardinality(Referring(e))
             p == IF Owned(e) THEN 1 ELSE 0
             q == IF Saved(e) THEN 1 ELSE 0
  <2>1. n = u + k /\ u \in Nat /\ k \in Nat
    BY SplitRefs DEF IInv
  <2>2. refno[e] = n + p + q
    BY DEF IInv, InvRefs, Refs
  <2>3. Holders(e) = u + p + q
    BY DEF Holders
  <2>4. p \in Nat /\ q \in Nat
    BY SMT
  <2> HIDE DEF u, k, n, p, q
  <2>5. refno[e] = Holders(e) + k
    BY <2>1, <2>2, <2>3, <2>4, SMT
  <2> QED BY <2>5 DEF k
<1> QED BY <1>1, Invariance, PTL

(* A deleted connection is dead, and nobody has it, writes on it, watches it or is about
   to call it back. *)
THEOREM DeletedUnusedHolds == Spec => []DeletedUnused
<1>1. IInv => DeletedUnused
  <2> SUFFICES ASSUME IInv, NEW e \in Fd, deleted[e]
               PROVE  /\ dead[e] /\ Holders(e) = 0 /\ wpdu[e].buf = NoThread
                      /\ \A t \in Thread : On(t) = e => ~InSend(t) /\ removing[t] = "no"
                      /\ e \notin rfds \cup wfds \cup callbacks
                      /\ loop = "select" => e \notin readable \cup writable
                      /\ calling \cap {<<"read", e>>, <<"write", e>>} = {}
    BY DEF DeletedUnused
  <2>1. dead[e] /\ Refs(e) = 0
    BY DEF IInv, InvRefs
  <2>2. Referring(e) = {} /\ ~Owned(e)
    BY InUse DEF IInv
  <2>11. Holders(e) = 0
    <3>1. Users(e) \subseteq Referring(e)
      BY DEF Users, Referring
    <3>2. Users(e) = Referring(e)
      BY <2>2, <3>1
    <3> QED BY <2>1, <3>2 DEF Holders, Refs
  <2>3. ASSUME NEW t \in Thread, On(t) = e PROVE at[t] \in {"out", "over"} \/ t[2] = Closer
    BY <2>2, <2>3 DEF Referring
  <2>4. ASSUME NEW t \in Thread, On(t) = e PROVE at[t] \in {"out", "over"}
    BY <2>2, <2>3, <2>4 DEF IInv, InvPlaces, Placed
  <2>5. ASSUME NEW t \in Thread, On(t) = e
        PROVE  ~InSend(t) /\ at[t] \notin Removers /\ at[t] \notin Writers
    BY <2>4, <2>5 DEF InSend, Removers, Writers
  <2>6. ASSUME NEW t \in Thread, On(t) = e PROVE removing[t] = "no"
    BY <2>5, <2>6 DEF IInv, InvWatched, Remover
  <2>7. wpdu[e].buf = NoThread
    BY <2>5 DEF IInv, InvStream, Writing
  <2>8. Removed(e)
    BY <2>1, <2>5 DEF IInv, InvWatched, Watched
  <2>9. e \notin callbacks /\ calling \subseteq {"read", "write"} \X callbacks
    BY <2>8 DEF Removed, IInv, InvWatched
  <2>10. calling \cap {<<"read", e>>, <<"write", e>>} = {}
    BY <2>9, SMT
  <2> QED BY <2>1, <2>5, <2>6, <2>7, <2>8, <2>10, <2>11 DEF Removed
<1> QED BY <1>1, Invariance, PTL

(* When read_cb starts on a PDU there is something to read. *)
THEOREM ReadFindsDataHolds == Spec => []ReadFindsData
<1>1. IInv => ReadFindsData
  <2> SUFFICES ASSUME IInv, NEW e \in Fd, calling = {<<"read", e>>}, ~dead[e]
               PROVE  e \in Readable
    BY DEF ReadFindsData
  <2>1. Sought(e)
    BY DEF Sought
  <2>2. Data(e)
    BY <2>1 DEF IInv, InvReadable
  <2>3. ~deleted[e]
    BY InUse DEF IInv
  <2> QED BY <2>2, <2>3 DEF Readable, Data
<1> QED BY <1>1, Invariance, PTL

(* Only a live end is registered again, and that one is registered already. *)
LEMMA CallbacksShrink ==
  ASSUME IInv, [Next]_vars
  PROVE  callbacks' \subseteq callbacks
<1>1. ASSUME NEW t \in Thread, ThreadStep(t) PROVE callbacks' \subseteq callbacks
  <2>1. CASE SendOnDead(t) \/ SendWaits(t) \/ SendCompletes(t)
    <3>1. UNCHANGED pollVars
      BY <2>1 DEF SendOnDead, SendWaits, SendCompletes
    <3> QED BY <3>1 DEF pollVars
  <2>2. CASE SendWrites(t)
    <3>1. ~dead[On(t)] /\ (UNCHANGED pollVars \/ add_callback(On(t)))
      BY <2>2 DEF SendWrites
    <3>2. On(t) \in callbacks
      BY <3>1, Threads DEF IInv, InvWatched, Watched
    <3>3. UNCHANGED callbacks \/ callbacks' = callbacks \cup {On(t)}
      BY <3>1 DEF pollVars, add_callback
    <3> QED BY <3>2, <3>3
  <2>3. CASE RemoveStarts(t)
    BY <2>3 DEF RemoveStarts, StartRemove
  <2>4. CASE RemoveReturns(t)
    BY <2>4 DEF RemoveReturns, EndRemove
  <2> QED BY <1>1, <2>1, <2>2, <2>3, <2>4 DEF ThreadStep
<1>2. ASSUME PollThread PROVE callbacks' \subseteq callbacks
  <2>1. CASE PollStep
    <3>1. UNCHANGED callbacks
      BY <2>1 DEF PollStep, Top, WaitReady, Select, Fetch, watchVars
    <3> QED BY <3>1
  <2>2. ASSUME NEW e, WriteCbAborts(e) \/ WriteCb(e) \/ ReadCbDead(e) \/ ReadStep(e)
        PROVE  callbacks' \subseteq callbacks
    <3>1. \/ UNCHANGED watchVars
          \/ del_callback(e, "CB_WRONLY") \/ del_callback(e, "CB_RDWR")
      BY <2>2 DEF WriteCbAborts, WriteCb, ReadCbDead, ReadStep, ReadCb
    <3> QED BY <3>1 DEF watchVars, del_callback
  <2> QED BY <1>2, <2>1, <2>2 DEF PollThread
<1>3. ASSUME UserStep \/ Begin PROVE callbacks' \subseteq callbacks
  <2>1. UNCHANGED pollVars
    BY <1>3 DEF UserStep, Begin, CallEnds, Dispatch, Switch, DispatchEnds, RpccDestroyed,
       ListenerDeleted, CallStarts, Reconnect, DestroyRpcc, CloseConn, ConnsReplaced, Accept, DestroyRpcs
  <2> QED BY <2>1 DEF pollVars
<1>4. ASSUME UNCHANGED vars PROVE callbacks' \subseteq callbacks
  BY <1>4 DEF vars, pollVars
<1> QED BY <1>1, <1>2, <1>3, <1>4 DEF Next

(* Once block_remove_fd has returned, the descriptor is never called back again. *)
THEOREM RemovedForGoodHolds == Spec => RemovedForGood
<1>1. ASSUME IInv, IInv', [Next]_vars
      PROVE  [/\ callbacks' \subseteq callbacks
              /\ calling' \subseteq {"read", "write"} \X callbacks']_vars
  <2>1. calling' \subseteq {"read", "write"} \X callbacks'
    BY <1>1 DEF IInv, InvWatched
  <2> QED BY <1>1, <2>1, CallbacksShrink
<1> QED BY <1>1, Invariance, PTL DEF Spec, RemovedForGood
=============================================================================
