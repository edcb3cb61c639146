-------------------------- MODULE LockCacheProofs ---------------------------
(***************************************************************************)
(* The safety properties of LockCache hold for every number of clients and *)
(* of threads.  The steps of lock_client_cache.cc (those of the threads in *)
(* acquire and release, then those of revoke_handler and retry_handler),   *)
(* then the handlers of lock_server_cache.cc and the flush before a        *)
(* release, preserve IInv (LockCacheInv): one lemma per action, one step   *)
(* per conjunct.  IInv is inductive and implies the properties, and every  *)
(* step is one of the plain lock of LockService.  NestedOnce, which the    *)
(* pool of the server rests on, follows at the end.                        *)
(***************************************************************************)
EXTENDS LockCacheInv, TLAPS

(* Sequences *)

(* The length and the domain of a sequence. *)
LEMMA SeqLength ==
  ASSUME NEW S, NEW s \in Seq(S)
  PROVE  Len(s) \in Nat /\ DOMAIN s = 1..Len(s) /\ s \in [1..Len(s) -> S]
OBVIOUS

(* The empty sequence, and the others. *)
LEMMA SeqEmpty ==
  ASSUME NEW S
  PROVE  <<>> \in Seq(S) /\ Len(<<>>) = 0 /\ \A s \in Seq(S) : s # <<>> => Len(s) \in Nat \ {0}
OBVIOUS

(* What Append makes. *)
LEMMA SeqAppend ==
  ASSUME NEW S, NEW s \in Seq(S), NEW x \in S
  PROVE  /\ Append(s, x) \in Seq(S) /\ Append(s, x) # <<>>
         /\ Len(Append(s, x)) = Len(s) + 1 /\ Append(s, x)[Len(s) + 1] = x
         /\ \A i \in 1..Len(s) : Append(s, x)[i] = s[i]
OBVIOUS

(* What Head and Tail return. *)
LEMMA SeqTail ==
  ASSUME NEW S, NEW s \in Seq(S), s # <<>>
  PROVE  /\ Head(s) \in S /\ Tail(s) \in Seq(S) /\ Len(Tail(s)) = Len(s) - 1
         /\ \A i \in 1..Len(Tail(s)) : Tail(s)[i] = s[i + 1]
OBVIOUS

-----------------------------------------------------------------------------
(* lock_client_cache *)

(* InvClient(d) speaks of nothing but the client's own fields, its place at
   the server, the messages on their way to it and its threads: a step that
   leaves those alone preserves it. *)
LEMMA ClientFrame ==
  ASSUME NEW d \in Client, InvClient(d),
         state'[d] = state[d], pending'[d] = pending[d],
         acq'[d] = acq[d], acqRet'[d] = acqRet[d], acqDest'[d] = acqDest[d],
         rel'[d] = rel[d], Holds(d) /\ send_rpc => send_rpc',
         holding_client # d => holding_client' # d,
         Waits(d)' <=> Waits(d), Holds(d)' <=> Holds(d),
         Expected(d)' <=> Expected(d), RetryComing(d)' <=> RetryComing(d),
         HandlerAcquires(d) => HandlerAcquires(d)',
         HandlerReleases(d) => HandlerReleases(d)',
         ThreadAt(d, {"acquire1"}) => ThreadAt(d, {"acquire1"})',
         ThreadAt(d, {"acquire2"}) => ThreadAt(d, {"acquire2"})',
         ThreadAt(d, {"sleeping", "awake"}) => ThreadAt(d, {"sleeping", "awake"})',
         ThreadAt(d, {"releasing"}) => ThreadAt(d, {"releasing"})',
         state[d] = "OWNED" /\ ThreadAt(d, {"awake"}) => ThreadAt(d, {"awake"})'
  PROVE  InvClient(d)'
<1>1. CASE state[d] = "NONE"
  BY <1>1, Zenon DEF InvClient, InvNone
<1>2. CASE state[d] = "ACQUIRING"
  <2>1. Handled(d)' <=> Handled(d)
    BY Zenon DEF Handled
  <2>2. InvAcquiring(d)
    BY <1>2, Zenon DEF InvClient
  <2>3. InvAcquiring(d)'
    BY <2>1, <2>2, Zenon DEF InvAcquiring
  <2> QED BY <1>2, <2>3, Zenon DEF InvClient
<1>3. CASE state[d] = "WAITING"
  <2>1. InvWaiting(d)
    BY <1>3, Zenon DEF InvClient
  <2>2. InvWaiting(d)'
    BY <2>1, Zenon DEF InvWaiting
  <2> QED BY <1>3, <2>2, Zenon DEF InvClient
<1>4. CASE state[d] = "OWNED"
  BY <1>4, Zenon DEF InvClient, InvOwned
<1>5. CASE state[d] = "LOCKED"
  BY <1>5, Zenon DEF InvClient, InvLocked
<1>6. CASE state[d] = "RELEASING"
  BY <1>6, Zenon DEF InvClient, InvReleasing
<1>7. CASE state[d] \notin {"NONE", "ACQUIRING", "WAITING", "OWNED", "LOCKED", "RELEASING"}
  BY <1>7, Zenon DEF InvClient
<1> QED BY <1>1, <1>2, <1>3, <1>4, <1>5, <1>6, <1>7, Zenon

(* A client with a release RPC is RELEASING. *)
LEMMA ReleasingClient ==
  ASSUME TypeOK, NEW c \in Client, InvClient(c), rel[c] # "none"
  PROVE  state[c] = "RELEASING" /\ InvReleasing(c)
<1>1. state[c] \in ClientStates
  BY Zenon DEF TypeOK, ClientTypeOK
<1> QED BY <1>1, Zenon DEF InvClient, InvNone, InvAcquiring, InvWaiting, InvOwned, InvLocked,
       ClientStates

(* A client with an acquire RPC is ACQUIRING or WAITING. *)
LEMMA AcquiringClient ==
  ASSUME TypeOK, NEW c \in Client, InvClient(c), acq[c] # "none"
  PROVE  \/ state[c] = "ACQUIRING" /\ InvAcquiring(c)
         \/ state[c] = "WAITING" /\ InvWaiting(c)
<1>1. state[c] \in ClientStates
  BY Zenon DEF TypeOK, ClientTypeOK
<1> QED BY <1>1, Zenon DEF InvClient, InvNone, InvOwned, InvLocked, InvReleasing, ClientStates

-----------------------------------------------------------------------------
USE NoClientAssumption, HomeAssumption

(* A thread changes its own client, and the program counters of that client's
   threads, only; it neither sends nor ends a revoke or a retry. *)
LocalStep(t) ==
  /\ UNCHANGED <<serverVars, acqDest, relDest>>
  /\ \A c \in Client : c # Home[t] =>
       /\ state'[c] = state[c] /\ pending'[c] = pending[c]
       /\ acq'[c] = acq[c] /\ acqRet'[c] = acqRet[c] /\ rel'[c] = rel[c]
  /\ \A u \in Thread : Home[u] # Home[t] => pc'[u] = pc[u]
  /\ \A c \in Client :
       /\ acq[c] = "revoke" <=> acq'[c] = "revoke"
       /\ acq[c] = "revoking" <=> acq'[c] = "revoking"
       /\ rel[c] = "retry" <=> rel'[c] = "retry"
       /\ rel[c] = "retrying" <=> rel'[c] = "retrying"

(* The clients other than Home[t] keep InvClient. *)
LEMMA OtherClients ==
  ASSUME NEW t \in Thread, LocalStep(t), NEW d \in Client, d # Home[t], InvClient(d)
  PROVE  InvClient(d)'
<1>1. /\ Waits(d)' <=> Waits(d)
      /\ Holds(d)' <=> Holds(d)
      /\ Expected(d)' <=> Expected(d)
      /\ send_rpc' = send_rpc /\ holding_client' = holding_client
  BY Zenon DEF LocalStep, Waits, Holds, Expected, serverVars
<1>2. /\ RetryComing(d)' <=> RetryComing(d)
      /\ HandlerAcquires(d)' <=> HandlerAcquires(d)
  BY Zenon DEF LocalStep, RetryComing, HandlerAcquires
<1>3. HandlerReleases(d)' <=> HandlerReleases(d)
  BY Zenon DEF LocalStep, HandlerReleases
<1>4. \A S : ThreadAt(d, S) => ThreadAt(d, S)'
  BY Zenon DEF LocalStep, ThreadAt
<1>5. /\ state'[d] = state[d] /\ pending'[d] = pending[d] /\ acq'[d] = acq[d]
      /\ acqRet'[d] = acqRet[d] /\ acqDest'[d] = acqDest[d] /\ rel'[d] = rel[d]
  BY Zenon DEF LocalStep
<1> QED BY <1>1, <1>2, <1>3, <1>4, <1>5, ClientFrame, Zenon

(* A handler that is in an RPC is at another client than a thread that is in
   a call, or whose client is neither WAITING nor RELEASING. *)
LEMMA OtherHandlers ==
  ASSUME IInv, NEW t \in Thread, LocalStep(t),
         pc[t] \in Busy \/ state[Home[t]] \notin {"WAITING", "RELEASING"}
  PROVE  InvRetrying' /\ InvRevoking'
<1>1. ASSUME NEW d \in Client, d # Home[t], NEW S
      PROVE  ThreadAt(d, S)' <=> ThreadAt(d, S)
  BY <1>1, Zenon DEF LocalStep, ThreadAt
<1>2. \A b \in Client : rel[b] = "retrying" => relDest[b] # Home[t]
  BY Zenon DEF IInv, InvRetrying, ThreadAt
<1>3. \A a \in Client : acq[a] = "revoking" => acqDest[a] # Home[t]
  BY Zenon DEF IInv, InvRevoking, ThreadAt
<1>4. InvRetrying'
  <2>1. ASSUME NEW b \in Client, rel'[b] = "retrying",
               NEW d, d = relDest[b]
        PROVE  /\ d \in Client
               /\ state'[d] = "WAITING" /\ acq'[d] # "none"
               /\ ~ThreadAt(d, Busy)' /\ ThreadAt(d, {"sleeping", "awake"})'
               /\ \A e \in Client : rel'[e] = "retrying" /\ relDest[e] = d => e = b
    <3>1. rel[b] = "retrying" /\ d # Home[t]
      BY <1>2, <2>1, Zenon DEF LocalStep
    <3>2. /\ d \in Client
          /\ state[d] = "WAITING" /\ acq[d] # "none"
          /\ ~ThreadAt(d, Busy) /\ ThreadAt(d, {"sleeping", "awake"})
          /\ \A e \in Client : rel[e] = "retrying" /\ relDest[e] = d => e = b
      BY <2>1, <3>1, Zenon DEF IInv, InvRetrying
    <3>3. ~ThreadAt(d, Busy)' /\ ThreadAt(d, {"sleeping", "awake"})'
      BY <1>1, <3>1, <3>2, Zenon
    <3> QED BY <3>1, <3>2, <3>3, Zenon DEF LocalStep
  <2> QED BY <2>1 DEF InvRetrying, LocalStep, ThreadAt
<1>5. InvRevoking'
  <2>1. ASSUME NEW a \in Client, acq'[a] = "revoking",
               NEW d, d = acqDest[a]
        PROVE  /\ d \in Client
               /\ state'[d] = "RELEASING"
               /\ ~ThreadAt(d, Busy)'
               /\ \A e \in Client : acq'[e] = "revoking" /\ acqDest[e] = d => e = a
    <3>1. acq[a] = "revoking" /\ d # Home[t]
      BY <1>3, <2>1, Zenon DEF LocalStep
    <3>2. /\ d \in Client
          /\ state[d] = "RELEASING"
          /\ ~ThreadAt(d, Busy)
          /\ \A e \in Client : acq[e] = "revoking" /\ acqDest[e] = d => e = a
      BY <2>1, <3>1, Zenon DEF IInv, InvRevoking
    <3>3. ~ThreadAt(d, Busy)'
      BY <1>1, <3>1, <3>2, Zenon
    <3> QED BY <3>1, <3>2, <3>3, Zenon DEF LocalStep
  <2> QED BY <2>1 DEF InvRevoking, LocalStep, ThreadAt
<1> QED BY <1>4, <1>5, Zenon

(* The retry under way stays right if the thread's client, when it is the one
   that is told to retry, stays in a state a retry is meant for. *)
LEMMA OtherRetry ==
  ASSUME IInv, NEW t \in Thread, LocalStep(t),
         RetryComing(Home[t]) =>
           pending'[Home[t]] = "0" /\ state'[Home[t]] \in {"ACQUIRING", "WAITING"}
  PROVE  InvRetry'
<1> SUFFICES ASSUME NEW b \in Client, rel'[b] = "retry"
             PROVE  /\ Expected(relDest[b])
                    /\ pending'[relDest[b]] = "0"
                    /\ state'[relDest[b]] \in {"ACQUIRING", "WAITING"}
                    /\ \A e \in Client : rel'[e] = "retry" => e = b
  BY Zenon DEF InvRetry, LocalStep, Expected, serverVars
<1>1. rel[b] = "retry"
  BY Zenon DEF LocalStep
<1>2. /\ Expected(relDest[b])
      /\ pending[relDest[b]] = "0"
      /\ state[relDest[b]] \in {"ACQUIRING", "WAITING"}
      /\ \A e \in Client : rel[e] = "retry" => e = b
  BY <1>1, Zenon DEF IInv, InvRetry
<1>3. relDest[b] \in Client
  BY <1>2, Zenon DEF IInv, InvServer, Expected
<1>4. CASE relDest[b] = Home[t]
  BY <1>1, <1>2, <1>4, Zenon DEF LocalStep, RetryComing
<1>5. CASE relDest[b] # Home[t]
  BY <1>1, <1>2, <1>3, <1>5, Zenon DEF LocalStep
<1> QED BY <1>4, <1>5, Zenon

(* The revoke under way, or remembered, stays right if the thread's client
   stays in a state a revoke is meant for, and forgets a revoke only to give
   the lock back. *)
LEMMA OtherRevoke ==
  ASSUME IInv, NEW t \in Thread, LocalStep(t),
         RevokeComing(Home[t]) =>
           /\ pending'[Home[t]] = "0"
           /\ state'[Home[t]] \in {"ACQUIRING", "WAITING", "OWNED", "LOCKED"},
         pending'[Home[t]] = "revoke" => pending[Home[t]] = "revoke",
         Holds(Home[t]) /\ (pending[Home[t]] = "revoke" \/ state[Home[t]] = "RELEASING") =>
           pending'[Home[t]] = "revoke" \/ state'[Home[t]] = "RELEASING"
  PROVE  InvRevoke'
<1>1. ASSUME NEW a \in Client, acq'[a] = "revoke"
      PROVE  /\ Holds(acqDest[a]) /\ send_rpc
             /\ state'[acqDest[a]] \in {"ACQUIRING", "WAITING", "OWNED", "LOCKED"}
             /\ pending'[acqDest[a]] = "0"
             /\ \A e \in Client : acq'[e] = "revoke" => e = a
  <2>1. acq[a] = "revoke"
    BY <1>1, Zenon DEF LocalStep
  <2>2. /\ Holds(acqDest[a]) /\ send_rpc
        /\ state[acqDest[a]] \in {"ACQUIRING", "WAITING", "OWNED", "LOCKED"}
        /\ pending[acqDest[a]] = "0"
        /\ \A e \in Client : acq[e] = "revoke" => e = a
    BY <2>1, Zenon DEF IInv, InvRevoke
  <2>3. acqDest[a] \in Client
    BY <2>2, Zenon DEF IInv, InvServer, Holds
  <2>4. CASE acqDest[a] = Home[t]
    BY <2>1, <2>2, <2>4, Zenon DEF LocalStep, RevokeComing
  <2>5. CASE acqDest[a] # Home[t]
    BY <2>1, <2>2, <2>3, <2>5, Zenon DEF LocalStep
  <2> QED BY <2>4, <2>5, Zenon
<1>2. ASSUME NEW c \in Client, pending'[c] = "revoke" PROVE Holds(c) /\ send_rpc
  <2>1. pending[c] = "revoke"
    BY <1>2, Zenon DEF LocalStep
  <2> QED BY <2>1, Zenon DEF IInv, InvRevoke
<1>3. ASSUME srvState = "LOCKED", send_rpc
      PROVE  \/ RevokeComing(holding_client)'
             \/ pending'[holding_client] = "revoke"
             \/ state'[holding_client] = "RELEASING"
  <2>1. holding_client \in Client /\ Holds(holding_client)
    BY <1>3, Zenon DEF IInv, InvServer, Holds
  <2>2. \/ RevokeComing(holding_client)
        \/ pending[holding_client] = "revoke"
        \/ state[holding_client] = "RELEASING"
    BY <1>3, Zenon DEF IInv, InvRevoke
  <2>3. RevokeComing(holding_client) => RevokeComing(holding_client)'
    BY Zenon DEF LocalStep, RevokeComing, serverVars
  <2>4. CASE holding_client = Home[t]
    BY <2>1, <2>2, <2>3, <2>4, Zenon
  <2>5. CASE holding_client # Home[t]
    BY <2>1, <2>2, <2>3, <2>5, Zenon DEF LocalStep
  <2> QED BY <2>4, <2>5, Zenon
<1> QED BY <1>1, <1>2, <1>3, Zenon DEF InvRevoke, LocalStep, serverVars, Holds

(* A thread that is in a call is alone in one at its client: when it moves on
   alone, InvThreads asks only that it matches the state of its client. *)
LEMMA OwnThread ==
  ASSUME IInv, NEW t \in Thread, LocalStep(t),
         pc[t] \in Busy \/ ~ThreadAt(Home[t], Busy),
         \A u \in Thread : u # t => pc'[u] = pc[u],
         pc'[t] = "acquire1" => state'[Home[t]] = "ACQUIRING",
         pc'[t] = "acquire2" => state'[Home[t]] = "WAITING" /\ acq'[Home[t]] # "none",
         pc'[t] = "holding" => state'[Home[t]] = "LOCKED",
         pc'[t] = "releasing" => state'[Home[t]] = "RELEASING"
  PROVE  InvThreads'
<1>1. \A u \in Thread : u # t /\ Home[u] = Home[t] => pc'[u] \notin Busy
  BY Zenon DEF IInv, InvThreads, ThreadAt
<1>2. ASSUME NEW u \in Thread
      PROVE  /\ pc'[u] = "acquire1" => state'[Home[u]] = "ACQUIRING"
             /\ pc'[u] = "acquire2" => state'[Home[u]] = "WAITING" /\ acq'[Home[u]] # "none"
             /\ pc'[u] = "holding" => state'[Home[u]] = "LOCKED"
             /\ pc'[u] = "releasing" => state'[Home[u]] = "RELEASING"
  <2>1. CASE u = t
    BY <2>1, Zenon
  <2>2. CASE u # t /\ Home[u] = Home[t]
    BY <1>1, <2>2, Zenon DEF Busy
  <2>3. CASE Home[u] # Home[t]
    BY <2>3 DEF IInv, InvThreads, LocalStep
  <2> QED BY <2>1, <2>2, <2>3, Zenon
<1>3. ASSUME NEW u \in Thread, NEW v \in Thread, Home[u] = Home[v],
             pc'[u] \in Busy, pc'[v] \in Busy
      PROVE  u = v
  <2>1. CASE Home[u] = Home[t]
    BY <1>1, <1>3, <2>1, Zenon
  <2>2. CASE Home[u] # Home[t]
    BY <1>3, <2>2, Zenon DEF IInv, InvThreads
  <2> QED BY <2>1, <2>2, Zenon
<1> QED BY <1>2, <1>3, Zenon DEF InvThreads

(* acquire finds the lock cached. *)
LEMMA TakeCachedStep ==
  ASSUME IInv, NEW t \in Thread, TakeCached(t) PROVE IInv'
<1> USE DEF IInv, TakeCached, AcquireOwned, Entering, serverVars, rpcVars
<1>0. LocalStep(t)
  BY Zenon DEF LocalStep, TypeOK, ClientTypeOK, serverVars, rpcVars
<1>1. TypeOK'
  BY Zenon DEF TypeOK, ServerTypeOK, ClientTypeOK, ClientStates, Pending, ThreadPcs, AcqStages,
         RelStages
<1>2. InvServer'
  BY Zenon DEF InvServer, TypeOK, ServerTypeOK, ClientTypeOK
<1>3. WaitersUnique'
  BY Zenon DEF WaitersUnique
<1>4. ASSUME NEW d \in Client PROVE InvClient(d)'
  <2>1. CASE d = Home[t]
    <3>1. InvOwned(d)
      BY <2>1, Zenon DEF InvClient
    <3>2. InvLocked(d)'
      BY <2>1, <3>1, Zenon DEF InvOwned, InvLocked, Holds
    <3> QED BY <2>1, <3>2, Zenon DEF InvClient, TypeOK, ClientTypeOK
  <2>2. CASE d # Home[t]
    BY <1>0, <2>2, OtherClients, Zenon
  <2> QED BY <2>1, <2>2, Zenon
<1>5. InvThreads'
  <2>1. ~ThreadAt(Home[t], Busy)
    BY Zenon DEF ThreadAt, Busy, InvThreads
  <2> QED BY <1>0, <2>1, OwnThread, Zenon DEF TypeOK, ClientTypeOK
<1>6. InvRetrying' /\ InvRevoking'
  BY <1>0, OtherHandlers, Zenon DEF Busy
<1>8. InvRevoke'
  <2>1. RevokeComing(Home[t]) =>
          /\ pending[Home[t]] = "0"
          /\ state[Home[t]] \in {"ACQUIRING", "WAITING", "OWNED", "LOCKED"}
    BY Zenon DEF RevokeComing, InvRevoke
  <2> QED BY <1>0, <2>1, OtherRevoke, Zenon DEF TypeOK, ClientTypeOK
<1>9. InvRetry'
  BY <1>0, OtherRetry, Zenon DEF RetryComing, InvRetry
<1> QED BY <1>1, <1>2, <1>3, <1>4, <1>5, <1>6, <1>8, <1>9, Zenon

(* acquire asks the server. *)
LEMMA AskStep ==
  ASSUME IInv, NEW t \in Thread, Ask(t) PROVE IInv'
<1> USE DEF IInv, Ask, AcquireNone, Entering, CallAcquire, serverVars
<1>0. LocalStep(t)
  BY Zenon DEF LocalStep, TypeOK, ClientTypeOK, serverVars, InvClient, InvNone
<1>1. TypeOK'
  BY Zenon DEF TypeOK, ServerTypeOK, ClientTypeOK, ClientStates, Pending, ThreadPcs, AcqStages,
         RelStages
<1>2. InvServer'
  BY Zenon DEF InvServer, TypeOK, ServerTypeOK, ClientTypeOK
<1>3. WaitersUnique'
  BY Zenon DEF WaitersUnique
<1>4. ASSUME NEW d \in Client PROVE InvClient(d)'
  <2>1. CASE d = Home[t]
    <3>1. InvNone(d) /\ (Waits(d)' <=> Waits(d))
      BY <2>1, Zenon DEF InvClient, Waits
    <3>2. ThreadAt(d, {"acquire1"})'
      BY <2>1, Zenon DEF ThreadAt, TypeOK, ClientTypeOK
    <3>3. InvAcquiring(d)'
      BY <2>1, <3>1, <3>2, Zenon DEF InvNone, InvAcquiring, TypeOK
    <3> QED BY <2>1, <3>3, Zenon DEF InvClient, TypeOK, ClientTypeOK
  <2>2. CASE d # Home[t]
    BY <1>0, <2>2, OtherClients, Zenon
  <2> QED BY <2>1, <2>2, Zenon
<1>5. InvThreads'
  <2>1. ~ThreadAt(Home[t], Busy)
    BY Zenon DEF ThreadAt, Busy, InvThreads
  <2> QED BY <1>0, <2>1, OwnThread, Zenon DEF TypeOK, ClientTypeOK
<1>6. InvRetrying' /\ InvRevoking'
  BY <1>0, OtherHandlers, Zenon DEF Busy
<1>8. InvRevoke'
  BY <1>0, OtherRevoke, Zenon DEF RevokeComing, InvRevoke, InvClient, InvNone, Holds
<1>9. InvRetry'
  BY <1>0, OtherRetry, Zenon DEF RetryComing, InvRetry
<1> QED BY <1>1, <1>2, <1>3, <1>4, <1>5, <1>6, <1>8, <1>9, Zenon

(* acquire goes to sleep on the condition variable. *)
LEMMA SleepStep ==
  ASSUME IInv, NEW t \in Thread, Sleep(t) PROVE IInv'
<1> USE DEF IInv, Sleep, AcquireBusy, Entering, serverVars, rpcVars
<1>0. LocalStep(t)
  BY Zenon DEF LocalStep, TypeOK, ClientTypeOK, serverVars, rpcVars
<1>1. TypeOK'
  BY Zenon DEF TypeOK, ServerTypeOK, ClientTypeOK, ClientStates, Pending, ThreadPcs, AcqStages,
         RelStages
<1>2. InvServer'
  BY Zenon DEF InvServer, TypeOK, ServerTypeOK, ClientTypeOK
<1>3. WaitersUnique'
  BY Zenon DEF WaitersUnique
<1>4. ASSUME NEW d \in Client PROVE InvClient(d)'
  <2>1. CASE d = Home[t]
    <3>1. /\ ThreadAt(d, {"acquire1"}) => ThreadAt(d, {"acquire1"})'
          /\ ThreadAt(d, {"acquire2"}) => ThreadAt(d, {"acquire2"})'
          /\ ThreadAt(d, {"releasing"}) => ThreadAt(d, {"releasing"})'
      BY Zenon DEF ThreadAt, TypeOK, ClientTypeOK
    <3>2. /\ ThreadAt(d, {"sleeping", "awake"})'
          /\ state[d] = "OWNED" /\ ThreadAt(d, {"awake"}) => ThreadAt(d, {"awake"})'
      BY <2>1, Zenon DEF ThreadAt, TypeOK, ClientTypeOK
    <3>3. /\ Waits(d)' <=> Waits(d)
          /\ Holds(d)' <=> Holds(d)
          /\ Expected(d)' <=> Expected(d)
          /\ RetryComing(d)' <=> RetryComing(d)
          /\ HandlerAcquires(d)' <=> HandlerAcquires(d)
          /\ HandlerReleases(d)' <=> HandlerReleases(d)
      BY Zenon DEF Waits, Holds, Expected, RetryComing, HandlerAcquires, HandlerReleases
    <3> QED BY <3>1, <3>2, <3>3, ClientFrame, Zenon
  <2>2. CASE d # Home[t]
    BY <1>0, <2>2, OtherClients, Zenon
  <2> QED BY <2>1, <2>2, Zenon
<1>5. InvThreads'
  BY Zenon DEF InvThreads, Busy, TypeOK, ClientTypeOK
<1>6. InvRetrying'
  BY DEF InvRetrying, ThreadAt, Busy, TypeOK, ServerTypeOK, ClientTypeOK
<1>7. InvRevoking'
  BY Zenon DEF InvRevoking, ThreadAt, Busy, TypeOK, ServerTypeOK, ClientTypeOK
<1>8. InvRevoke'
  <2>1. RevokeComing(Home[t]) =>
          /\ pending[Home[t]] = "0"
          /\ state[Home[t]] \in {"ACQUIRING", "WAITING", "OWNED", "LOCKED"}
    BY Zenon DEF RevokeComing, InvRevoke
  <2> QED BY <1>0, <2>1, OtherRevoke, Zenon DEF TypeOK, ClientTypeOK
<1>9. InvRetry'
  BY <1>0, OtherRetry DEF RetryComing, InvRetry
<1> QED BY <1>1, <1>2, <1>3, <1>4, <1>5, <1>6, <1>7, <1>8, <1>9, Zenon

(* A sleeping thread wakes up by itself. *)
LEMMA WakeupStep ==
  ASSUME IInv, NEW t \in Thread, Wakeup(t) PROVE IInv'
<1> USE DEF IInv, Wakeup, SpuriousWakeup, serverVars, rpcVars
<1>0. LocalStep(t)
  BY Zenon DEF LocalStep, TypeOK, ClientTypeOK, serverVars, rpcVars
<1>1. TypeOK'
  BY Zenon DEF TypeOK, ServerTypeOK, ClientTypeOK, ClientStates, Pending, ThreadPcs, AcqStages,
         RelStages
<1>2. InvServer'
  BY Zenon DEF InvServer, TypeOK, ServerTypeOK, ClientTypeOK
<1>3. WaitersUnique'
  BY Zenon DEF WaitersUnique
<1>4. ASSUME NEW d \in Client PROVE InvClient(d)'
  <2>1. CASE d = Home[t]
    <3>1. /\ ThreadAt(d, {"acquire1"}) => ThreadAt(d, {"acquire1"})'
          /\ ThreadAt(d, {"acquire2"}) => ThreadAt(d, {"acquire2"})'
          /\ ThreadAt(d, {"releasing"}) => ThreadAt(d, {"releasing"})'
      BY Zenon DEF ThreadAt, TypeOK, ClientTypeOK
    <3>2. /\ ThreadAt(d, {"sleeping", "awake"})'
          /\ state[d] = "OWNED" /\ ThreadAt(d, {"awake"}) => ThreadAt(d, {"awake"})'
      BY <2>1, Zenon DEF ThreadAt, TypeOK, ClientTypeOK
    <3>3. /\ Waits(d)' <=> Waits(d)
          /\ Holds(d)' <=> Holds(d)
          /\ Expected(d)' <=> Expected(d)
          /\ RetryComing(d)' <=> RetryComing(d)
          /\ HandlerAcquires(d)' <=> HandlerAcquires(d)
          /\ HandlerReleases(d)' <=> HandlerReleases(d)
      BY Zenon DEF Waits, Holds, Expected, RetryComing, HandlerAcquires, HandlerReleases
    <3> QED BY <3>1, <3>2, <3>3, ClientFrame, Zenon
  <2>2. CASE d # Home[t]
    BY <1>0, <2>2, OtherClients, Zenon
  <2> QED BY <2>1, <2>2, Zenon
<1>5. InvThreads'
  BY Zenon DEF InvThreads, Busy, TypeOK, ClientTypeOK
<1>6. InvRetrying'
  BY DEF InvRetrying, ThreadAt, Busy, TypeOK, ServerTypeOK, ClientTypeOK
<1>7. InvRevoking'
  BY Zenon DEF InvRevoking, ThreadAt, Busy, TypeOK, ServerTypeOK, ClientTypeOK
<1>8. InvRevoke'
  <2>1. RevokeComing(Home[t]) =>
          /\ pending[Home[t]] = "0"
          /\ state[Home[t]] \in {"ACQUIRING", "WAITING", "OWNED", "LOCKED"}
    BY Zenon DEF RevokeComing, InvRevoke
  <2> QED BY <1>0, <2>1, OtherRevoke, Zenon DEF TypeOK, ClientTypeOK
<1>9. InvRetry'
  BY <1>0, OtherRetry, Zenon DEF RetryComing, InvRetry
<1> QED BY <1>1, <1>2, <1>3, <1>4, <1>5, <1>6, <1>7, <1>8, <1>9, Zenon

(* The acquire RPC returned OK. *)
LEMMA GrantedStep ==
  ASSUME IInv, NEW t \in Thread, Granted(t) PROVE IInv'
<1> USE DEF IInv, Granted, AcquireGranted, AcquireAssertsClient, Answered, EndAcquire,
       serverVars
<1>0. LocalStep(t)
  BY Zenon DEF LocalStep, TypeOK, ClientTypeOK, serverVars
<1>1. TypeOK'
  BY Zenon DEF TypeOK, ServerTypeOK, ClientTypeOK, ClientStates, Pending, ThreadPcs, AcqStages,
         RelStages
<1>2. InvServer'
  BY Zenon DEF InvServer, TypeOK, ServerTypeOK, ClientTypeOK
<1>3. WaitersUnique'
  BY Zenon DEF WaitersUnique
<1>4. ASSUME NEW d \in Client PROVE InvClient(d)'
  <2>1. CASE d = Home[t]
    <3>1. InvAcquiring(d) /\ Holds(d)
      BY <2>1, Zenon DEF InvClient, InvAcquiring
    <3>2. InvLocked(d)'
      BY <2>1, <3>1, Zenon DEF InvAcquiring, InvLocked, Holds, Handled, WaitersUnique, Waits, Expected,
             TypeOK
    <3> QED BY <2>1, <3>2, Zenon DEF InvClient, TypeOK, ClientTypeOK
  <2>2. CASE d # Home[t]
    BY <1>0, <2>2, OtherClients, Zenon
  <2> QED BY <2>1, <2>2, Zenon
<1>5. InvThreads'
  BY <1>0, OwnThread, Zenon DEF Busy, TypeOK, ClientTypeOK
<1>6. InvRetrying' /\ InvRevoking'
  BY <1>0, OtherHandlers, Zenon DEF Busy
<1>8. InvRevoke'
  <2>1. RevokeComing(Home[t]) =>
          /\ pending[Home[t]] = "0"
          /\ state[Home[t]] \in {"ACQUIRING", "WAITING", "OWNED", "LOCKED"}
    BY Zenon DEF RevokeComing, InvRevoke
  <2> QED BY <1>0, <2>1, OtherRevoke, Zenon DEF TypeOK, ClientTypeOK
<1>9. InvRetry'
  <2>1. Holds(Home[t])
    BY Zenon DEF InvClient, InvAcquiring
  <2>2. ~RetryComing(Home[t])
    BY <2>1, Zenon DEF RetryComing, InvRetry, Holds, Expected
  <2> QED BY <1>0, <2>2, OtherRetry, Zenon
<1> QED BY <1>1, <1>2, <1>3, <1>4, <1>5, <1>6, <1>8, <1>9, Zenon

(* The acquire RPC returned RETRY and the retry has not come yet. *)
LEMMA WaitStep ==
  ASSUME IInv, NEW t \in Thread, Wait(t) PROVE IInv'
<1> USE DEF IInv, Wait, AcquireWait, AcquireAssertsClient, AcquireRetryAsserts, Answered,
       EndAcquire, serverVars
<1>0. LocalStep(t)
  BY Zenon DEF LocalStep, TypeOK, ClientTypeOK, serverVars
<1>1. TypeOK'
  BY Zenon DEF TypeOK, ServerTypeOK, ClientTypeOK, ClientStates, Pending, ThreadPcs, AcqStages,
         RelStages
<1>2. InvServer'
  BY Zenon DEF InvServer, TypeOK, ServerTypeOK, ClientTypeOK
<1>3. WaitersUnique'
  BY Zenon DEF WaitersUnique
<1>4. ASSUME NEW d \in Client PROVE InvClient(d)'
  <2>1. CASE d = Home[t]
    <3>1. InvAcquiring(d) /\ pending[d] = "0"
      BY <2>1, Zenon DEF InvClient, TypeOK, ClientTypeOK, Pending
    <3>2. ThreadAt(d, {"sleeping", "awake"})'
      BY <2>1, Zenon DEF ThreadAt, TypeOK, ClientTypeOK
    <3>3. /\ Waits(d)' <=> Waits(d)
          /\ Expected(d)' <=> Expected(d)
          /\ RetryComing(d)' <=> RetryComing(d)
      BY Zenon DEF Waits, Expected, RetryComing
    <3>4. InvWaiting(d)'
      BY <2>1, <3>1, <3>2, <3>3, Zenon DEF InvAcquiring, InvWaiting, TypeOK
    <3> QED BY <2>1, <3>4, Zenon DEF InvClient, TypeOK, ClientTypeOK
  <2>2. CASE d # Home[t]
    BY <1>0, <2>2, OtherClients, Zenon
  <2> QED BY <2>1, <2>2, Zenon
<1>5. InvThreads'
  BY <1>0, OwnThread, Zenon DEF Busy, TypeOK, ClientTypeOK
<1>6. InvRetrying' /\ InvRevoking'
  BY <1>0, OtherHandlers, Zenon DEF Busy
<1>8. InvRevoke'
  <2>1. RevokeComing(Home[t]) =>
          /\ pending[Home[t]] = "0"
          /\ state[Home[t]] \in {"ACQUIRING", "WAITING", "OWNED", "LOCKED"}
    BY Zenon DEF RevokeComing, InvRevoke
  <2> QED BY <1>0, <2>1, OtherRevoke, Zenon DEF TypeOK, ClientTypeOK
<1>9. InvRetry'
  BY <1>0, OtherRetry DEF RetryComing, InvRetry, TypeOK, ClientTypeOK
<1> QED BY <1>1, <1>2, <1>3, <1>4, <1>5, <1>6, <1>8, <1>9, Zenon

(* The acquire RPC returned RETRY, but the retry came first. *)
LEMMA AskAgainStep ==
  ASSUME IInv, NEW t \in Thread, AskAgain(t) PROVE IInv'
<1> USE DEF IInv, AskAgain, AcquireAgain, AcquireAssertsClient, AcquireRetryAsserts,
       Answered, ReCallAcquire, serverVars
<1>0. LocalStep(t)
  BY Zenon DEF LocalStep, TypeOK, ClientTypeOK, serverVars
<1>1. TypeOK'
  BY Zenon DEF TypeOK, ServerTypeOK, ClientTypeOK, ClientStates, Pending, ThreadPcs, AcqStages,
         RelStages
<1>2. InvServer'
  BY Zenon DEF InvServer, TypeOK, ServerTypeOK, ClientTypeOK
<1>3. WaitersUnique'
  BY Zenon DEF WaitersUnique
<1>4. ASSUME NEW d \in Client PROVE InvClient(d)'
  <2>1. CASE d = Home[t]
    <3>1. InvAcquiring(d) /\ acq[d] = "replied" /\ pending[d] = "retry"
      BY <2>1, Zenon DEF InvClient
    <3>2. Expected(d) /\ ~RetryComing(d)
      BY <3>1, <2>1, Zenon DEF InvAcquiring, WaitersUnique, Waits
    <3>3. Expected(d)' /\ ~RetryComing(d)'
      BY <3>2, Zenon DEF Expected, RetryComing
    <3>4. InvWaiting(d)'
      BY <2>1, <3>1, <3>3, Zenon DEF InvWaiting, InvAcquiring, ThreadAt, TypeOK, ServerTypeOK,
             ClientTypeOK
    <3> QED BY <2>1, <3>4, Zenon DEF InvClient, TypeOK, ServerTypeOK, ClientTypeOK
  <2>2. CASE d # Home[t]
    BY <1>0, <2>2, OtherClients, Zenon
  <2> QED BY <2>1, <2>2, Zenon
<1>5. InvThreads'
  BY <1>0, OwnThread, Zenon DEF Busy, TypeOK, ClientTypeOK
<1>6. InvRetrying' /\ InvRevoking'
  BY <1>0, OtherHandlers, Zenon DEF Busy
<1>8. InvRevoke'
  BY <1>0, OtherRevoke, Zenon DEF RevokeComing, InvRevoke, TypeOK, ClientTypeOK
<1>9. InvRetry'
  BY <1>0, OtherRetry, Zenon DEF RetryComing, InvRetry
<1> QED BY <1>1, <1>2, <1>3, <1>4, <1>5, <1>6, <1>8, <1>9, Zenon

(* The second acquire RPC returned OK. *)
LEMMA GrantedAgainStep ==
  ASSUME IInv, NEW t \in Thread, GrantedAgain(t) PROVE IInv'
<1> USE DEF IInv, GrantedAgain, AcquireAgainGranted, Answered, EndAcquire, serverVars
<1>0. LocalStep(t)
  BY Zenon DEF LocalStep, TypeOK, ClientTypeOK, serverVars
<1>1. TypeOK'
  BY Zenon DEF TypeOK, ServerTypeOK, ClientTypeOK, ClientStates, Pending, ThreadPcs, AcqStages,
         RelStages
<1>2. InvServer'
  BY Zenon DEF InvServer, TypeOK, ServerTypeOK, ClientTypeOK
<1>3. WaitersUnique'
  BY Zenon DEF WaitersUnique
<1>4. ASSUME NEW d \in Client PROVE InvClient(d)'
  <2>1. CASE d = Home[t]
    <3>1. InvWaiting(d) /\ acq[d] = "replied"
      BY <2>1, Zenon DEF InvClient, InvThreads
    <3>2. InvLocked(d)'
      BY <2>1, <3>1, Zenon DEF InvWaiting, InvLocked, Holds, TypeOK
    <3> QED BY <2>1, <3>2, Zenon DEF InvClient, TypeOK, ClientTypeOK
  <2>2. CASE d # Home[t]
    BY <1>0, <2>2, OtherClients, Zenon
  <2> QED BY <2>1, <2>2, Zenon
<1>5. InvThreads'
  BY <1>0, OwnThread, Zenon DEF Busy, TypeOK, ClientTypeOK
<1>6. InvRetrying' /\ InvRevoking'
  BY <1>0, OtherHandlers, Zenon DEF Busy
<1>8. InvRevoke'
  <2>1. RevokeComing(Home[t]) => pending[Home[t]] = "0"
    BY Zenon DEF RevokeComing, InvRevoke
  <2>2. state[Home[t]] = "WAITING"
    BY Zenon DEF InvThreads
  <2> QED BY <1>0, <2>1, <2>2, OtherRevoke, Zenon DEF TypeOK, ClientTypeOK
<1>9. InvRetry'
  <2>1. Holds(Home[t])
    BY Zenon DEF InvThreads, InvClient, InvWaiting
  <2>2. ~RetryComing(Home[t])
    BY <2>1, Zenon DEF RetryComing, InvRetry, Holds, Expected
  <2> QED BY <1>0, <2>2, OtherRetry, Zenon
<1> QED BY <1>1, <1>2, <1>3, <1>4, <1>5, <1>6, <1>8, <1>9, Zenon

(* release keeps the lock cached. *)
LEMMA KeepStep ==
  ASSUME IInv, NEW t \in Thread, Keep(t) PROVE IInv'
<1> USE DEF IInv, Keep, ReleaseKeep, ReleaseAssertsClient, Broadcast, serverVars, rpcVars
<1>0. LocalStep(t)
  BY Zenon DEF LocalStep, TypeOK, ClientTypeOK, serverVars, rpcVars
<1>1. TypeOK'
  BY Zenon DEF TypeOK, ServerTypeOK, ClientTypeOK, ClientStates, Pending, ThreadPcs, AcqStages,
         RelStages
<1>2. InvServer'
  BY Zenon DEF InvServer, TypeOK, ServerTypeOK, ClientTypeOK
<1>3. WaitersUnique'
  BY Zenon DEF WaitersUnique
<1>4. ASSUME NEW d \in Client PROVE InvClient(d)'
  <2>1. CASE d = Home[t]
    <3>1. InvLocked(d)
      BY <2>1, Zenon DEF InvClient
    <3>2. InvOwned(d)'
      BY <2>1, <3>1, Zenon DEF InvOwned, InvLocked, Holds
    <3> QED BY <2>1, <3>2, Zenon DEF InvClient, TypeOK, ClientTypeOK
  <2>2. CASE d # Home[t]
    BY <1>0, <2>2, OtherClients, Zenon
  <2> QED BY <2>1, <2>2, Zenon
<1>5. InvThreads'
  BY Zenon DEF InvThreads, Busy, TypeOK, ServerTypeOK, ClientTypeOK
<1>6. InvRetrying' /\ InvRevoking'
  BY <1>0, OtherHandlers, Zenon DEF Busy
<1>8. InvRevoke'
  <2>1. RevokeComing(Home[t]) =>
          /\ pending[Home[t]] = "0"
          /\ state[Home[t]] \in {"ACQUIRING", "WAITING", "OWNED", "LOCKED"}
    BY Zenon DEF RevokeComing, InvRevoke
  <2> QED BY <1>0, <2>1, OtherRevoke, Zenon DEF TypeOK, ClientTypeOK
<1>9. InvRetry'
  BY <1>0, OtherRetry, Zenon DEF RetryComing, InvRetry
<1> QED BY <1>1, <1>2, <1>3, <1>4, <1>5, <1>6, <1>8, <1>9, Zenon

(* release gives a revoked lock back. *)
LEMMA GiveBackStep ==
  ASSUME IInv, NEW t \in Thread, GiveBack(t) PROVE IInv'
<1> USE DEF IInv, GiveBack, ReleaseBack, ReleaseAssertsClient, CallRelease, serverVars
<1>0. LocalStep(t)
  BY Zenon DEF LocalStep, TypeOK, ClientTypeOK, serverVars, InvClient, InvLocked
<1>1. TypeOK'
  BY Zenon DEF TypeOK, ServerTypeOK, ClientTypeOK, ClientStates, Pending, ThreadPcs, AcqStages,
         RelStages
<1>2. InvServer'
  BY Zenon DEF InvServer, TypeOK, ServerTypeOK, ClientTypeOK
<1>3. WaitersUnique'
  BY Zenon DEF WaitersUnique
<1>4. ASSUME NEW d \in Client PROVE InvClient(d)'
  <2>1. CASE d = Home[t]
    <3>1. InvLocked(d) /\ pending[d] = "revoke"
      BY <2>1, Zenon DEF InvClient, TypeOK, ClientTypeOK, Pending
    <3>2. Holds(d) /\ send_rpc /\ acq[d] = "none" /\ rel[d] = "none"
      BY <3>1, Zenon DEF InvLocked, InvRevoke
    <3>3. ThreadAt(d, {"releasing"})' /\ (Holds(d)' <=> Holds(d))
      BY <2>1, Zenon DEF ThreadAt, Holds, TypeOK, ClientTypeOK
    <3>4. InvReleasing(d)'
      BY <2>1, <3>2, <3>3, Zenon DEF InvReleasing, TypeOK, ClientTypeOK
    <3> QED BY <2>1, <3>4, Zenon DEF InvClient, TypeOK, ClientTypeOK
  <2>2. CASE d # Home[t]
    BY <1>0, <2>2, OtherClients, Zenon
  <2> QED BY <2>1, <2>2, Zenon
<1>5. InvThreads'
  BY <1>0, OwnThread, Zenon DEF Busy, TypeOK, ClientTypeOK
<1>6. InvRetrying' /\ InvRevoking'
  BY <1>0, OtherHandlers, Zenon DEF Busy
<1>8. InvRevoke'
  BY <1>0, OtherRevoke, Zenon DEF RevokeComing, InvRevoke, TypeOK, ClientTypeOK
<1>9. InvRetry'
  BY <1>0, OtherRetry, Zenon DEF RetryComing, InvRetry
<1> QED BY <1>1, <1>2, <1>3, <1>4, <1>5, <1>6, <1>8, <1>9, Zenon

(* The release RPC of release returned. *)
LEMMA GivenBackStep ==
  ASSUME IInv, NEW t \in Thread, GivenBack(t) PROVE IInv'
<1> USE DEF IInv, GivenBack, ReleaseBackDone, ReleaseBackAsserts, EndRelease, serverVars
<1>0. LocalStep(t)
  BY Zenon DEF LocalStep, TypeOK, ClientTypeOK, serverVars
<1>1. TypeOK'
  BY Zenon DEF TypeOK, ServerTypeOK, ClientTypeOK, ClientStates, Pending, ThreadPcs, AcqStages,
         RelStages
<1>2. InvServer'
  BY Zenon DEF InvServer, TypeOK, ServerTypeOK, ClientTypeOK
<1>3. WaitersUnique'
  BY Zenon DEF WaitersUnique
<1>4. ASSUME NEW d \in Client PROVE InvClient(d)'
  <2>1. CASE d = Home[t]
    <3>1. InvReleasing(d) /\ (Waits(d)' <=> Waits(d))
      BY <2>1, Zenon DEF InvClient, Waits
    <3>2. InvNone(d)'
      BY <2>1, <3>1, Zenon DEF InvReleasing, InvNone, TypeOK
    <3> QED BY <2>1, <3>2, Zenon DEF InvClient, TypeOK, ClientTypeOK
  <2>2. CASE d # Home[t]
    BY <1>0, <2>2, OtherClients, Zenon
  <2> QED BY <2>1, <2>2, Zenon
<1>5. InvThreads'
  BY <1>0, OwnThread, Zenon DEF Busy, TypeOK, ClientTypeOK
<1>6. InvRetrying' /\ InvRevoking'
  BY <1>0, OtherHandlers, Zenon DEF Busy
<1>8. InvRevoke'
  <2>1. ~Holds(Home[t]) /\ pending[Home[t]] = "0"
    BY Zenon DEF InvClient, InvReleasing, Holds
  <2> QED BY <1>0, <2>1, OtherRevoke, Zenon DEF RevokeComing, InvRevoke
<1>9. InvRetry'
  BY <1>0, OtherRetry, Zenon DEF RetryComing, InvRetry
<1> QED BY <1>1, <1>2, <1>3, <1>4, <1>5, <1>6, <1>8, <1>9, Zenon

-----------------------------------------------------------------------------
(* The handlers; r is the client the handler runs at. *)

(* A revoke finds the lock cached and unused. *)
LEMMA HandleRevokeNowStep ==
  ASSUME IInv, NEW c \in Client, HandleRevokeNow(c) PROVE IInv'
<1> USE DEF IInv, HandleRevokeNow, RevokeNow, RevokeAsserts, serverVars
<1>r. PICK r \in Client : r = acqDest[c]
  BY Zenon DEF InvRevoke, Holds, InvServer
<1>a. /\ Holds(r) /\ send_rpc /\ state[r] = "OWNED" /\ pending[r] = "0"
      /\ acq[r] = "none" /\ rel[r] = "none" /\ r # c
      /\ \A e \in Client : acq[e] = "revoke" => e = c
  BY <1>r, Zenon DEF InvRevoke, InvClient, InvOwned
<1>b. state[c] \in {"ACQUIRING", "WAITING"} /\ ~Holds(c)
  BY <1>a, AcquiringClient, Zenon DEF Holds
<1>c. ~ThreadAt(r, Busy) /\ ~HandlerReleases(r)
  BY <1>a, Zenon DEF ThreadAt, Busy, InvThreads, HandlerReleases, InvRevoking
<1>1. TypeOK'
  BY <1>r, Zenon DEF TypeOK, ServerTypeOK, ClientTypeOK, ClientStates, Pending, ThreadPcs,
         AcqStages, RelStages
<1>2. InvServer'
  BY Zenon DEF InvServer, TypeOK, ServerTypeOK, ClientTypeOK
<1>3. WaitersUnique'
  BY Zenon DEF WaitersUnique
<1>4. ASSUME NEW d \in Client PROVE InvClient(d)'
  <2>1. /\ Waits(d)' <=> Waits(d)
        /\ Holds(d)' <=> Holds(d)
        /\ Expected(d)' <=> Expected(d)
        /\ RetryComing(d)' <=> RetryComing(d)
        /\ HandlerAcquires(d)' <=> HandlerAcquires(d)
        /\ Handled(d)' <=> Handled(d)
        /\ \A S : ThreadAt(d, S)' <=> ThreadAt(d, S)
    BY <1>r, <1>a, Zenon DEF Waits, Holds, Expected, RetryComing, HandlerAcquires, Handled,
           ThreadAt, TypeOK, ServerTypeOK, ClientTypeOK
  <2>2. HandlerReleases(r)' /\ (HandlerReleases(d) => HandlerReleases(d)')
    BY <1>r, Zenon DEF HandlerReleases, TypeOK, ServerTypeOK, ClientTypeOK
  <2>3. CASE d = r
    BY <1>r, <1>a, <2>1, <2>2, <2>3, Zenon DEF InvClient, InvReleasing, TypeOK, ServerTypeOK,
           ClientTypeOK
  <2>4. CASE d = c
    BY <1>r, <1>a, <1>b, <2>1, <2>4, Zenon DEF InvClient, InvAcquiring, InvWaiting, TypeOK,
           ServerTypeOK, ClientTypeOK
  <2>5. CASE d # r /\ d # c
    BY <1>r, <2>1, <2>2, <2>5, ClientFrame, Zenon DEF TypeOK, ClientTypeOK
  <2> QED BY <2>3, <2>4, <2>5, Zenon
<1>5. InvThreads'
  BY <1>r, <1>a, <1>c, Zenon DEF InvThreads, ThreadAt, Busy, TypeOK, ServerTypeOK, ClientTypeOK
<1>6. InvRetrying'
  BY <1>r, <1>a DEF InvRetrying, ThreadAt, TypeOK, ServerTypeOK, ClientTypeOK
<1>7. InvRevoking'
  BY <1>r, <1>a, <1>c DEF InvRevoking, ThreadAt, HandlerReleases, TypeOK, ServerTypeOK,
         ClientTypeOK
<1>8. InvRevoke'
  BY <1>r, <1>a DEF InvRevoke, Holds, TypeOK, ServerTypeOK, ClientTypeOK
<1>9. InvRetry'
  BY <1>r, <1>a, Zenon DEF InvRetry, Expected, Holds, TypeOK, ServerTypeOK, ClientTypeOK
<1> QED BY <1>1, <1>2, <1>3, <1>4, <1>5, <1>6, <1>7, <1>8, <1>9, Zenon

(* A revoke is remembered. *)
LEMMA HandleRevokeLaterStep ==
  ASSUME IInv, NEW c \in Client, HandleRevokeLater(c) PROVE IInv'
<1> USE DEF IInv, HandleRevokeLater, RevokeLater, RevokeAsserts, serverVars
<1>r. PICK r \in Client : r = acqDest[c]
  BY Zenon DEF InvRevoke, Holds, InvServer
<1>a. /\ Holds(r) /\ send_rpc /\ pending[r] = "0"
      /\ state[r] \in {"ACQUIRING", "WAITING", "LOCKED"}
      /\ \A e \in Client : acq[e] = "revoke" => e = c
  BY <1>r, Zenon DEF InvRevoke
<1>1. TypeOK'
  BY <1>r, Zenon DEF TypeOK, ServerTypeOK, ClientTypeOK, ClientStates, Pending, ThreadPcs,
         AcqStages, RelStages
<1>2. InvServer'
  BY Zenon DEF InvServer, TypeOK, ServerTypeOK, ClientTypeOK
<1>3. WaitersUnique'
  BY Zenon DEF WaitersUnique
<1>4. ASSUME NEW d \in Client PROVE InvClient(d)'
  <2>1. /\ Waits(d)' <=> Waits(d)
        /\ Holds(d)' <=> Holds(d)
        /\ Expected(d)' <=> Expected(d)
        /\ RetryComing(d)' <=> RetryComing(d)
        /\ HandlerAcquires(d)' <=> HandlerAcquires(d)
        /\ HandlerReleases(d)' <=> HandlerReleases(d)
        /\ Handled(d)' <=> Handled(d)
        /\ \A S : ThreadAt(d, S)' <=> ThreadAt(d, S)
    BY Zenon DEF Waits, Holds, Expected, RetryComing, HandlerAcquires, HandlerReleases, Handled,
           ThreadAt, TypeOK, ServerTypeOK, ClientTypeOK
  <2>2. Holds(r) => ~Waits(r) /\ ~Expected(r)
    BY Zenon DEF Holds, Expected, Waits, WaitersUnique
  <2>3. CASE d = r /\ d = c
    BY <1>r, <1>a, <2>1, <2>2, <2>3, Zenon DEF InvClient, InvAcquiring, InvWaiting, InvLocked,
           TypeOK, ServerTypeOK, ClientTypeOK
  <2>4. CASE d = r /\ d # c
    <3>1. CASE state[r] = "ACQUIRING"
      <4>1. acq[r] = "replied" /\ acqRet[r] = "OK" /\ rel[r] = "none" /\ ThreadAt(r,
             {"acquire1"})
        BY <1>a, <2>2, <3>1, Zenon DEF InvClient, InvAcquiring, Holds, Expected
      <4> QED BY <1>r, <1>a, <2>1, <2>4, <3>1, <4>1, Zenon DEF InvClient, InvAcquiring, TypeOK,
             ServerTypeOK, ClientTypeOK
    <3>2. CASE state[r] = "WAITING"
      BY <1>r, <1>a, <2>1, <2>2, <2>4, <3>2, Zenon DEF InvClient, InvWaiting, TypeOK, ServerTypeOK,
             ClientTypeOK
    <3>3. CASE state[r] = "LOCKED"
      BY <1>r, <1>a, <2>1, <2>2, <2>4, <3>3, Zenon DEF InvClient, InvLocked, TypeOK, ServerTypeOK,
             ClientTypeOK
    <3> QED BY <1>a, <3>1, <3>2, <3>3, Zenon
  <2>5. CASE d # r /\ d = c
    BY <1>r, <1>a, <2>1, <2>5, Zenon DEF InvClient, InvNone, InvAcquiring, InvWaiting, InvOwned,
           InvLocked, InvReleasing, TypeOK, ServerTypeOK, ClientTypeOK
  <2>6. CASE d # r /\ d # c
    BY <1>r, <2>1, <2>6, ClientFrame, Zenon DEF TypeOK, ClientTypeOK
  <2> QED BY <2>3, <2>4, <2>5, <2>6, Zenon
<1>5. InvThreads'
  BY <1>r, Zenon DEF InvThreads, Busy, TypeOK, ServerTypeOK, ClientTypeOK
<1>6. InvRetrying'
  BY <1>r DEF InvRetrying, ThreadAt, TypeOK, ServerTypeOK, ClientTypeOK
<1>7. InvRevoking'
  BY <1>r, Zenon DEF InvRevoking, ThreadAt, TypeOK, ServerTypeOK, ClientTypeOK
<1>8. InvRevoke'
  BY <1>r, <1>a DEF InvRevoke, Holds, TypeOK, ServerTypeOK, ClientTypeOK
<1>9. InvRetry'
  BY <1>r, <1>a, Zenon DEF InvRetry, Expected, Holds, TypeOK, ServerTypeOK, ClientTypeOK
<1> QED BY <1>1, <1>2, <1>3, <1>4, <1>5, <1>6, <1>7, <1>8, <1>9, Zenon

(* The release RPC of the revoke handler returned. *)
LEMMA HandleRevokeDoneStep ==
  ASSUME IInv, NEW c \in Client, HandleRevokeDone(c) PROVE IInv'
<1> USE DEF IInv, HandleRevokeDone, RevokeDone, Broadcast, serverVars
<1>r. PICK r \in Client : r = acqDest[c]
  BY Zenon DEF InvRevoking
<1>a. /\ state[r] = "RELEASING" /\ InvReleasing(r) /\ rel[r] = "replied" /\ ~ThreadAt(r,
       Busy)
      /\ \A e \in Client : acq[e] = "revoking" /\ acqDest[e] = r => e = c
  BY <1>r, Zenon DEF InvRevoking, InvClient
<1>b. /\ acq[r] = "none" /\ pending[r] = "0" /\ holding_client # r /\ ~Waits(r) /\ r # c
  BY <1>a, Zenon DEF InvReleasing
<1>c. state[c] = "ACQUIRING"
  BY AcquiringClient, Zenon DEF InvWaiting
<1>1. TypeOK'
  BY <1>r, Zenon DEF TypeOK, ServerTypeOK, ClientTypeOK, ClientStates, Pending, ThreadPcs,
         AcqStages, RelStages
<1>2. InvServer'
  BY Zenon DEF InvServer, TypeOK, ServerTypeOK, ClientTypeOK
<1>3. WaitersUnique'
  BY Zenon DEF WaitersUnique
<1>4. ASSUME NEW d \in Client PROVE InvClient(d)'
  <2>1. /\ Waits(d)' <=> Waits(d)
        /\ Holds(d)' <=> Holds(d)
        /\ Expected(d)' <=> Expected(d)
        /\ RetryComing(d)' <=> RetryComing(d)
        /\ HandlerAcquires(d)' <=> HandlerAcquires(d)
        /\ Handled(d)' <=> Handled(d)
    BY <1>r, <1>a, Zenon DEF Waits, Holds, Expected, RetryComing, HandlerAcquires, Handled, TypeOK,
           ServerTypeOK, ClientTypeOK
  <2>2. CASE d = r
    BY <1>r, <1>a, <1>b, <2>1, <2>2, Zenon DEF InvClient, InvNone, TypeOK, ServerTypeOK,
           ClientTypeOK
  <2>3. CASE d # r
    <3>1. /\ HandlerReleases(d)' <=> HandlerReleases(d)
          /\ \A S : ThreadAt(d, S)' <=> ThreadAt(d, S)
      BY <1>r, <2>3, Zenon DEF HandlerReleases, ThreadAt, TypeOK, ServerTypeOK, ClientTypeOK
    <3>2. CASE d = c
      BY <1>r, <1>b, <1>c, <2>1, <2>3, <3>1, <3>2, Zenon DEF InvClient, InvAcquiring, TypeOK,
             ServerTypeOK, ClientTypeOK
    <3>3. CASE d # c
      BY <1>r, <2>1, <2>3, <3>1, <3>3, ClientFrame, Zenon DEF TypeOK, ClientTypeOK
    <3> QED BY <3>2, <3>3, Zenon
  <2> QED BY <2>2, <2>3, Zenon
<1>5. InvThreads'
  BY <1>r, <1>a, <1>b, <1>c DEF InvThreads, Busy, ThreadAt, TypeOK, ServerTypeOK,
         ClientTypeOK
<1>6. InvRetrying'
  BY <1>r, <1>a, <1>b DEF InvRetrying, ThreadAt, Busy, TypeOK, ServerTypeOK, ClientTypeOK
<1>7. InvRevoking'
  BY <1>r, <1>a, <1>b DEF InvRevoking, ThreadAt, Busy, TypeOK, ServerTypeOK, ClientTypeOK
<1>8. InvRevoke'
  BY <1>r, <1>a, <1>b DEF InvRevoke, RevokeComing, Holds, TypeOK, ServerTypeOK,
         ClientTypeOK, InvServer
<1>9. InvRetry'
  BY <1>r, <1>a, <1>b DEF InvRetry, Expected, TypeOK, ServerTypeOK, ClientTypeOK
<1> QED BY <1>1, <1>2, <1>3, <1>4, <1>5, <1>6, <1>7, <1>8, <1>9, Zenon

(* A retry overtakes the answer RETRY. *)
LEMMA HandleRetryLaterStep ==
  ASSUME IInv, NEW c \in Client, HandleRetryLater(c) PROVE IInv'
<1> USE DEF IInv, HandleRetryLater, RetryLater, RetryAsserts, serverVars
<1>r. PICK r \in Client : r = relDest[c]
  BY Zenon DEF InvRetry, Expected, InvServer
<1>a. /\ Expected(r) /\ pending[r] = "0" /\ state[r] = "ACQUIRING" /\ InvAcquiring(r)
      /\ \A e \in Client : rel[e] = "retry" => e = c
  BY <1>r, Zenon DEF InvRetry, InvClient
<1>b. state[c] = "RELEASING" /\ r # c
  BY <1>a, ReleasingClient, Zenon
<1>1. TypeOK'
  BY <1>r, Zenon DEF TypeOK, ServerTypeOK, ClientTypeOK, ClientStates, Pending, ThreadPcs,
         AcqStages, RelStages
<1>2. InvServer'
  BY Zenon DEF InvServer, TypeOK, ServerTypeOK, ClientTypeOK
<1>3. WaitersUnique'
  BY Zenon DEF WaitersUnique
<1>4. ASSUME NEW d \in Client PROVE InvClient(d)'
  <2>1. /\ Waits(d)' <=> Waits(d)
        /\ Holds(d)' <=> Holds(d)
        /\ Expected(d)' <=> Expected(d)
        /\ HandlerAcquires(d)' <=> HandlerAcquires(d)
        /\ HandlerReleases(d)' <=> HandlerReleases(d)
        /\ Handled(d)' <=> Handled(d)
        /\ \A S : ThreadAt(d, S)' <=> ThreadAt(d, S)
        /\ ~RetryComing(d)'
        /\ d # r => ~RetryComing(d)
    BY <1>r, <1>a, Zenon DEF Waits, Holds, Expected, RetryComing, HandlerAcquires, HandlerReleases,
           Handled, ThreadAt, TypeOK, ServerTypeOK, ClientTypeOK
  <2>2. Expected(r) => ~Waits(r) /\ ~Holds(r)
    BY Zenon DEF Holds, Expected, Waits, WaitersUnique
  <2>3. CASE d = r
    BY <1>r, <1>a, <1>b, <2>1, <2>2, <2>3, Zenon DEF InvClient, InvAcquiring, Expected, TypeOK,
           ServerTypeOK, ClientTypeOK
  <2>4. CASE d = c
    BY <1>r, <1>b, <2>1, <2>4, Zenon DEF InvClient, InvReleasing, TypeOK, ServerTypeOK,
           ClientTypeOK
  <2>5. CASE d # r /\ d # c
    BY <1>r, <2>1, <2>5, ClientFrame, Zenon DEF TypeOK, ClientTypeOK
  <2> QED BY <2>3, <2>4, <2>5, Zenon
<1>5. InvThreads'
  BY <1>r, Zenon DEF InvThreads, Busy, TypeOK, ServerTypeOK, ClientTypeOK
<1>6. InvRetrying'
  BY <1>r DEF InvRetrying, ThreadAt, TypeOK, ServerTypeOK, ClientTypeOK
<1>7. InvRevoking'
  BY <1>r, Zenon DEF InvRevoking, ThreadAt, TypeOK, ServerTypeOK, ClientTypeOK
<1>8. InvRevoke'
  BY <1>r, <1>a, Zenon DEF InvRevoke, RevokeComing, Holds, Expected, TypeOK, ServerTypeOK,
         ClientTypeOK, InvServer
<1>9. InvRetry'
  BY <1>r, <1>a, Zenon DEF InvRetry, TypeOK, ServerTypeOK, ClientTypeOK
<1> QED BY <1>1, <1>2, <1>3, <1>4, <1>5, <1>6, <1>7, <1>8, <1>9, Zenon

(* A retry finds the client waiting. *)
LEMMA HandleRetryNowStep ==
  ASSUME IInv, NEW c \in Client, HandleRetryNow(c) PROVE IInv'
<1> USE DEF IInv, HandleRetryNow, RetryNow, RetryAsserts, clientVars, serverVars
<1>r. PICK r \in Client : r = relDest[c]
  BY Zenon DEF InvRetry, Expected, InvServer
<1>a. /\ Expected(r) /\ pending[r] = "0" /\ state[r] = "WAITING" /\ InvWaiting(r)
      /\ \A e \in Client : rel[e] = "retry" => e = c
  BY <1>r, Zenon DEF InvRetry, InvClient
<1>b. state[c] = "RELEASING" /\ r # c
  BY <1>a, ReleasingClient, Zenon
<1>c. /\ acq[r] = "none" /\ ThreadAt(r, {"sleeping", "awake"})
      /\ ~Waits(r) /\ ~Holds(r)
  <2>1. RetryComing(r) /\ ~Waits(r) /\ ~Holds(r)
    BY <1>r, <1>a, Zenon DEF RetryComing, Expected, Holds, Waits, WaitersUnique
  <2> QED BY <1>a, <2>1, Zenon DEF InvWaiting
<1>d. ~ThreadAt(r, Busy) /\ ~HandlerAcquires(r)
  <2>1. ~ThreadAt(r, Busy)
    BY <1>a, <1>c, Zenon DEF InvThreads, ThreadAt, Busy
  <2>2. ~HandlerAcquires(r)
    BY <1>c, Zenon DEF HandlerAcquires, InvRetrying
  <2> QED BY <2>1, <2>2, Zenon
<1>1. TypeOK'
  BY <1>r, Zenon DEF TypeOK, ServerTypeOK, ClientTypeOK, ClientStates, Pending, ThreadPcs,
         AcqStages, RelStages
<1>2. InvServer'
  BY Zenon DEF InvServer, TypeOK, ServerTypeOK, ClientTypeOK
<1>3. WaitersUnique'
  BY Zenon DEF WaitersUnique
<1>4. ASSUME NEW d \in Client PROVE InvClient(d)'
  <2>1. /\ Waits(d)' <=> Waits(d)
        /\ Holds(d)' <=> Holds(d)
        /\ Expected(d)' <=> Expected(d)
        /\ HandlerReleases(d)' <=> HandlerReleases(d)
        /\ \A S : ThreadAt(d, S)' <=> ThreadAt(d, S)
        /\ ~RetryComing(d)'
        /\ d # r => ~RetryComing(d)
        /\ d # r => (Handled(d)' <=> Handled(d))
    BY <1>r, <1>a, <1>c, Zenon DEF Waits, Holds, Expected, RetryComing, HandlerReleases, Handled,
           ThreadAt, TypeOK, ServerTypeOK, ClientTypeOK
  <2>2. HandlerAcquires(r)' /\ (HandlerAcquires(d) => HandlerAcquires(d)')
    BY <1>r, Zenon DEF HandlerAcquires, TypeOK, ServerTypeOK, ClientTypeOK
  <2>3. CASE d = r
    BY <1>r, <1>a, <1>b, <1>c, <2>1, <2>2, <2>3, Zenon DEF InvClient, InvWaiting, TypeOK,
           ServerTypeOK, ClientTypeOK
  <2>4. CASE d = c
    BY <1>r, <1>b, <2>1, <2>4, Zenon DEF InvClient, InvReleasing, TypeOK, ServerTypeOK,
           ClientTypeOK
  <2>5. CASE d # r /\ d # c
    BY <1>r, <2>1, <2>2, <2>5, ClientFrame, Zenon DEF TypeOK, ClientTypeOK
  <2> QED BY <2>3, <2>4, <2>5, Zenon
<1>5. InvThreads'
  BY <1>r, <1>a, Zenon DEF InvThreads, Busy, TypeOK, ServerTypeOK, ClientTypeOK
<1>6. InvRetrying'
  BY <1>r, <1>a, <1>c, <1>d DEF InvRetrying, HandlerAcquires, ThreadAt, TypeOK,
         ServerTypeOK, ClientTypeOK
<1>7. InvRevoking'
  BY <1>r, <1>a, <1>c DEF InvRevoking, ThreadAt, TypeOK, ServerTypeOK, ClientTypeOK
<1>8. InvRevoke'
  BY <1>r, <1>a, Zenon DEF InvRevoke, RevokeComing, Holds, Expected, TypeOK, ServerTypeOK,
         ClientTypeOK, InvServer
<1>9. InvRetry'
  BY <1>r, <1>a, Zenon DEF InvRetry, TypeOK, ServerTypeOK, ClientTypeOK
<1> QED BY <1>1, <1>2, <1>3, <1>4, <1>5, <1>6, <1>7, <1>8, <1>9, Zenon

(* The acquire RPC of the retry handler returned. *)
LEMMA HandleRetryDoneStep ==
  ASSUME IInv, NEW c \in Client, HandleRetryDone(c) PROVE IInv'
<1> USE DEF IInv, HandleRetryDone, RetryDone, Answered, Broadcast, serverVars
<1>r. PICK r \in Client : r = relDest[c]
  BY Zenon DEF InvRetrying
<1>a. /\ state[r] = "WAITING" /\ InvWaiting(r) /\ ~ThreadAt(r, Busy)
      /\ ThreadAt(r, {"sleeping", "awake"})
      /\ acq[r] = "replied"
      /\ \A e \in Client : rel[e] = "retrying" /\ relDest[e] = r => e = c
  BY <1>r, Zenon DEF InvRetrying, InvClient
<1>b. pending[r] # "retry" /\ Holds(r) /\ rel[r] = "none"
  BY <1>a, Zenon DEF InvWaiting
<1>c. state[c] = "RELEASING" /\ r # c
  BY <1>a, ReleasingClient, Zenon
<1>d. ThreadAt(r, {"awake"})'
  BY <1>r, <1>a, Zenon DEF ThreadAt, TypeOK, ServerTypeOK, ClientTypeOK
<1>1. TypeOK'
  BY <1>r, Zenon DEF TypeOK, ServerTypeOK, ClientTypeOK, ClientStates, Pending, ThreadPcs,
         AcqStages, RelStages
<1>2. InvServer'
  BY Zenon DEF InvServer, TypeOK, ServerTypeOK, ClientTypeOK
<1>3. WaitersUnique'
  BY Zenon DEF WaitersUnique
<1>4. ASSUME NEW d \in Client PROVE InvClient(d)'
  <2>1. /\ Waits(d)' <=> Waits(d)
        /\ Holds(d)' <=> Holds(d)
        /\ Expected(d)' <=> Expected(d)
        /\ RetryComing(d)' <=> RetryComing(d)
        /\ HandlerReleases(d)' <=> HandlerReleases(d)
        /\ d # r => (Handled(d)' <=> Handled(d))
    BY <1>r, <1>a, Zenon DEF Waits, Holds, Expected, RetryComing, HandlerReleases, Handled, TypeOK,
           ServerTypeOK, ClientTypeOK
  <2>2. CASE d = r
    BY <1>r, <1>a, <1>b, <1>d, <2>1, <2>2, Zenon DEF InvClient, InvOwned, TypeOK, ServerTypeOK,
           ClientTypeOK
  <2>3. CASE d # r
    <3>1. /\ HandlerAcquires(d)' <=> HandlerAcquires(d)
          /\ \A S : ThreadAt(d, S)' <=> ThreadAt(d, S)
      BY <1>r, <2>3, Zenon DEF HandlerAcquires, ThreadAt, TypeOK, ServerTypeOK, ClientTypeOK
    <3>2. CASE d = c
      BY <1>r, <1>c, <2>1, <2>3, <3>1, <3>2, Zenon DEF InvClient, InvReleasing, TypeOK,
             ServerTypeOK, ClientTypeOK
    <3>3. CASE d # c
      BY <1>r, <2>1, <2>3, <3>1, <3>3, ClientFrame, Zenon DEF TypeOK, ClientTypeOK
    <3> QED BY <3>2, <3>3, Zenon
  <2> QED BY <2>2, <2>3, Zenon
<1>5. InvThreads'
  BY <1>r, <1>a, <1>b, <1>c DEF InvThreads, Busy, ThreadAt, TypeOK, ServerTypeOK,
         ClientTypeOK
<1>6. InvRetrying'
  <2>1. ASSUME NEW b \in Client, rel'[b] = "retrying", NEW d, d = relDest[b]
        PROVE  /\ d \in Client /\ state'[d] = "WAITING" /\ acq'[d] # "none"
               /\ ~\E t \in Thread : Home[t] = d /\ pc'[t] \in Busy
               /\ \E t \in Thread : Home[t] = d /\ pc'[t] \in {"sleeping", "awake"}
               /\ \A e \in Client : rel'[e] = "retrying" /\ relDest[e] = d => e = b
    <3>1. rel[b] = "retrying" /\ b # c /\ d # r
      BY <1>r, <1>a, <2>1, Zenon DEF TypeOK
    <3>2. /\ d \in Client /\ state[d] = "WAITING" /\ acq[d] # "none"
          /\ ~ThreadAt(d, Busy) /\ ThreadAt(d, {"sleeping", "awake"})
          /\ \A e \in Client : rel[e] = "retrying" /\ relDest[e] = d => e = b
      BY <2>1, <3>1, Zenon DEF InvRetrying
    <3>3. \A t \in Thread : Home[t] = d => pc'[t] = pc[t]
      BY <1>r, <3>1, Zenon DEF Broadcast
    <3>4. state'[d] = "WAITING" /\ acq'[d] # "none"
      BY <1>r, <3>1, <3>2, Zenon DEF TypeOK, ClientTypeOK
    <3>5. \A e \in Client : rel'[e] = "retrying" => rel[e] = "retrying"
      BY Zenon DEF TypeOK
    <3> HIDE DEF IInv, HandleRetryDone
    <3> QED BY <3>2, <3>3, <3>4, <3>5, Zenon DEF ThreadAt
  <2>2. relDest' = relDest
    BY Zenon
  <2> HIDE DEF IInv, HandleRetryDone
  <2>3. \A b \in Client : rel'[b] = "retrying" =>
          /\ relDest'[b] \in Client /\ state'[relDest'[b]] = "WAITING" /\ acq'[relDest'[b]] # "none"
          /\ ~\E t \in Thread : Home[t] = relDest'[b] /\ pc'[t] \in Busy
          /\ \E t \in Thread : Home[t] = relDest'[b] /\ pc'[t] \in {"sleeping", "awake"}
          /\ \A e \in Client : rel'[e] = "retrying" /\ relDest'[e] = relDest'[b] => e = b
    <3> TAKE b \in Client
    <3> HAVE rel'[b] = "retrying"
    <3>d. PICK d : d = relDest[b]
      BY Zenon
    <3>1. /\ d \in Client /\ state'[d] = "WAITING" /\ acq'[d] # "none"
          /\ ~\E t \in Thread : Home[t] = d /\ pc'[t] \in Busy
          /\ \E t \in Thread : Home[t] = d /\ pc'[t] \in {"sleeping", "awake"}
          /\ \A e \in Client : rel'[e] = "retrying" /\ relDest[e] = d => e = b
      BY <2>1, <3>d
    <3>2. relDest'[b] = d /\ \A e \in Client : relDest'[e] = relDest[e]
      BY <2>2, <3>d, Zenon
    <3> QED BY <3>1, <3>2, Zenon
  <2> QED BY <2>3, Zenon DEF InvRetrying, ThreadAt, Busy
<1>7. InvRevoking'
  BY <1>r, <1>a, <1>b DEF InvRevoking, ThreadAt, Busy, TypeOK, ServerTypeOK, ClientTypeOK
<1>8. InvRevoke'
  <2>1. srvState = "LOCKED" /\ send_rpc => RevokeComing(r) \/ pending[r] = "revoke"
    BY <1>a, <1>b, Zenon DEF InvRevoke, Holds
  <2>2. RevokeComing(r) => RevokeComing(r)'
    BY <1>r, <1>a, Zenon DEF RevokeComing, TypeOK, ServerTypeOK, ClientTypeOK
  <2> QED BY <1>r, <1>a, <1>b, <2>1, <2>2 DEF InvRevoke, Holds, TypeOK, ServerTypeOK,
         ClientTypeOK
<1>9. InvRetry'
  BY <1>r, <1>a, <1>b, Zenon DEF InvRetry, Expected, Holds, TypeOK, ServerTypeOK, ClientTypeOK
<1> QED BY <1>1, <1>2, <1>3, <1>4, <1>5, <1>6, <1>7, <1>8, <1>9, Zenon

-----------------------------------------------------------------------------
(* lock_server_cache *)

USE NoClientAssumption, HomeAssumption

-----------------------------------------------------------------------------
(* The queue waiting_clients *)

(* Queueing a client adds it, and nothing else, to the waiting clients. *)
LEMMA AppendMembers ==
  ASSUME NEW s \in Seq(Client), NEW c \in Client, NEW d
  PROVE  (\E i \in DOMAIN Append(s, c) : Append(s, c)[i] = d)
           <=> (\E i \in DOMAIN s : s[i] = d) \/ d = c
<1>1. /\ DOMAIN Append(s, c) = 1 .. Len(s) + 1
      /\ DOMAIN s = 1 .. Len(s)
      /\ Append(s, c)[Len(s) + 1] = c
      /\ \A i \in 1 .. Len(s) : Append(s, c)[i] = s[i]
      /\ Len(s) \in Nat
  BY SeqAppend, SeqLength
<1> QED BY <1>1

(* Queueing a client that is not there, and is not h, keeps the queue free of
   repetitions and of h. *)
LEMMA AppendUnique ==
  ASSUME NEW s \in Seq(Client), NEW c \in Client, NEW h, c # h,
         \A i \in DOMAIN s : s[i] # c /\ s[i] # h,
         \A i, j \in DOMAIN s : s[i] = s[j] => i = j
  PROVE  /\ \A i, j \in DOMAIN Append(s, c) : Append(s, c)[i] = Append(s, c)[j] => i = j
         /\ \A i \in DOMAIN Append(s, c) : Append(s, c)[i] # h
<1>1. /\ DOMAIN Append(s, c) = 1 .. Len(s) + 1
      /\ DOMAIN s = 1 .. Len(s)
      /\ Append(s, c)[Len(s) + 1] = c
      /\ \A i \in 1 .. Len(s) : Append(s, c)[i] = s[i]
      /\ Len(s) \in Nat
  BY SeqAppend, SeqLength
<1> QED BY <1>1

(* Taking the first client off a queue without repetitions removes that client
   and no other. *)
LEMMA TailMembers ==
  ASSUME NEW s \in Seq(Client), s # <<>>,
         \A i, j \in DOMAIN s : s[i] = s[j] => i = j
  PROVE  /\ Head(s) \in Client
         /\ Tail(s) \in Seq(Client)
         /\ \E i \in DOMAIN s : s[i] = Head(s)
         /\ \A d : (\E i \in DOMAIN Tail(s) : Tail(s)[i] = d)
                     <=> (\E i \in DOMAIN s : s[i] = d) /\ d # Head(s)
<1>1. /\ DOMAIN s = 1 .. Len(s)
      /\ Len(s) \in Nat /\ Len(s) >= 1
      /\ Head(s) = s[1]
      /\ Head(s) \in Client
      /\ Tail(s) \in Seq(Client)
      /\ DOMAIN Tail(s) = 1 .. Len(s) - 1
      /\ \A i \in 1 .. Len(s) - 1 : Tail(s)[i] = s[i + 1]
  BY SeqTail, SeqLength, SeqEmpty
<1>2. ASSUME NEW d, NEW i \in DOMAIN s, s[i] = d, d # Head(s)
      PROVE  i - 1 \in DOMAIN Tail(s) /\ Tail(s)[i - 1] = d
  BY <1>1, <1>2
<1>3. ASSUME NEW i \in DOMAIN Tail(s)
      PROVE  i + 1 \in DOMAIN s /\ Tail(s)[i] = s[i + 1] /\ s[i + 1] # Head(s)
  BY <1>1, <1>3
<1>4. \E i \in DOMAIN s : s[i] = Head(s)
  BY <1>1
<1>5. ASSUME NEW d
      PROVE  (\E i \in DOMAIN Tail(s) : Tail(s)[i] = d)
               <=> (\E i \in DOMAIN s : s[i] = d) /\ d # Head(s)
  BY <1>2, <1>3
<1> QED BY <1>1, <1>4, <1>5, Zenon

(* The rest of a queue without repetitions has none, and not its old head. *)
LEMMA TailUnique ==
  ASSUME NEW s \in Seq(Client), s # <<>>,
         \A i, j \in DOMAIN s : s[i] = s[j] => i = j
  PROVE  /\ \A i, j \in DOMAIN Tail(s) : Tail(s)[i] = Tail(s)[j] => i = j
         /\ \A i \in DOMAIN Tail(s) : Tail(s)[i] # Head(s)
<1>1. /\ DOMAIN s = 1 .. Len(s)
      /\ Len(s) \in Nat /\ Len(s) >= 1
      /\ Head(s) = s[1]
      /\ DOMAIN Tail(s) = 1 .. Len(s) - 1
      /\ \A i \in 1 .. Len(s) - 1 : Tail(s)[i] = s[i + 1]
  BY SeqTail, SeqLength, SeqEmpty
<1> QED BY <1>1

(* A client that is put at the end of the queue waits; *)
LEMMA Queued ==
  ASSUME NEW c \in Client, NEW d \in Client, waiting_clients \in Seq(Client),
         waiting_clients' = Append(waiting_clients, c)
  PROVE  Waits(d)' <=> Waits(d) \/ d = c
<1>1. (\E i \in DOMAIN Append(waiting_clients, c) : Append(waiting_clients, c)[i] = d)
        <=> (\E i \in DOMAIN waiting_clients : waiting_clients[i] = d) \/ d = c
  BY AppendMembers
<1> QED BY <1>1, Zenon DEF Waits

(* the one taken off its front no longer does. *)
LEMMA Dequeued ==
  ASSUME NEW d \in Client, waiting_clients \in Seq(Client), waiting_clients # <<>>,
         waiting_clients' = Tail(waiting_clients),
         \A i, j \in DOMAIN waiting_clients : waiting_clients[i] = waiting_clients[j] => i = j
  PROVE  Waits(d)' <=> Waits(d) /\ d # Head(waiting_clients)
<1>1. (\E i \in DOMAIN Tail(waiting_clients) : Tail(waiting_clients)[i] = d)
        <=> (\E i \in DOMAIN waiting_clients : waiting_clients[i] = d)
              /\ d # Head(waiting_clients)
  BY TailMembers, Zenon
<1> QED BY <1>1, Zenon DEF Waits

(* A release that ends neither its retry nor the RPC of its retry handler
   leaves the retries of the other releases as they are. *)
LEMMA OtherRetries ==
  ASSUME InvRetrying, InvRetry, UNCHANGED <<serverVars, clientVars, acq>>,
         \A b \in Client :
           /\ rel'[b] = "retry" <=> rel[b] = "retry"
           /\ rel'[b] = "retrying" <=> rel[b] = "retrying"
           /\ rel[b] \in {"retry", "retrying"} => relDest'[b] = relDest[b]
  PROVE  InvRetrying' /\ InvRetry'
<1>1. ASSUME NEW b \in Client, rel'[b] = "retry"
      PROVE  /\ Expected(relDest[b])
             /\ pending[relDest[b]] = "0"
             /\ state[relDest[b]] \in {"ACQUIRING", "WAITING"}
             /\ relDest'[b] = relDest[b]
             /\ \A e \in Client : rel'[e] = "retry" => e = b
  BY <1>1, Zenon DEF InvRetry
<1>2. InvRetry'
  BY <1>1 DEF InvRetry, clientVars, Expected, serverVars
<1>3. ASSUME NEW b \in Client, rel'[b] = "retrying"
      PROVE  /\ relDest'[b] = relDest[b] /\ relDest[b] \in Client
             /\ state[relDest[b]] = "WAITING" /\ acq[relDest[b]] # "none"
             /\ ~ThreadAt(relDest[b], Busy)
             /\ ThreadAt(relDest[b], {"sleeping", "awake"})
             /\ \A e \in Client : rel'[e] = "retrying" /\ relDest'[e] = relDest[b] => e = b
  BY <1>3 DEF InvRetrying
<1>4. InvRetrying'
  BY <1>3 DEF InvRetrying, clientVars, ThreadAt
<1> QED BY <1>2, <1>4, Zenon

-----------------------------------------------------------------------------
(* dorelease flushes the extent. *)
LEMMA FlushStep ==
  ASSUME IInv, NEW c \in Client, Flush(c) PROVE IInv'
<1> USE DEF IInv, Flush, serverVars, clientVars
<1>1. TypeOK'
  BY Zenon DEF TypeOK, ServerTypeOK, ClientTypeOK, ClientStates, Pending, ThreadPcs, AcqStages,
         RelStages
<1>2. InvServer'
  BY Zenon DEF InvServer, TypeOK, ServerTypeOK, ClientTypeOK
<1>3. WaitersUnique'
  BY Zenon DEF WaitersUnique
<1>4. ASSUME NEW d \in Client PROVE InvClient(d)'
  <2>1. /\ Waits(d)' <=> Waits(d)
        /\ Holds(d)' <=> Holds(d)
        /\ Expected(d)' <=> Expected(d)
        /\ HandlerReleases(d)' <=> HandlerReleases(d)
        /\ \A S : ThreadAt(d, S)' <=> ThreadAt(d, S)
    BY Zenon DEF Waits, Holds, Expected, HandlerReleases, ThreadAt
  <2>2. RetryComing(d)' <=> RetryComing(d)
    BY Zenon DEF RetryComing, TypeOK
  <2>3. HandlerAcquires(d)' <=> HandlerAcquires(d)
    BY Zenon DEF HandlerAcquires, TypeOK
  <2>4. CASE d = c
    <3>1. state[d] = "RELEASING"
      BY <2>4, ReleasingClient, Zenon
    <3>2. InvReleasing(d)'
      BY <2>1, <2>4, <3>1, Zenon DEF InvClient, InvReleasing, TypeOK
    <3> QED BY <3>1, <3>2, Zenon DEF InvClient
  <2>5. CASE d # c
    BY <2>1, <2>2, <2>3, <2>5, ClientFrame, Zenon DEF TypeOK
  <2> QED BY <2>4, <2>5, Zenon
<1>5. InvThreads'
  BY Zenon DEF InvThreads, Busy
<1>6. InvRetrying'
  BY DEF InvRetrying, ThreadAt
<1>7. InvRevoking'
  BY Zenon DEF InvRevoking, ThreadAt
<1>8. InvRevoke'
  BY Zenon DEF InvRevoke, RevokeComing, Holds
<1>9. InvRetry'
  BY DEF InvRetry, Expected
<1> QED BY <1>1, <1>2, <1>3, <1>4, <1>5, <1>6, <1>7, <1>8, <1>9, Zenon

(* The server grants a free lock. *)
LEMMA HandleAcquireFreeStep ==
  ASSUME IInv, NEW c \in Client, HandleAcquireFree(c) PROVE IInv'
<1> USE DEF IInv, HandleAcquireFree, SrvAcquireFree, AcquireAsserts, ReplyAcquire,
       clientVars
<1>1. TypeOK'
  BY Zenon DEF TypeOK, ServerTypeOK, ClientTypeOK, ClientStates, Pending, ThreadPcs, AcqStages,
         RelStages, SrvStates
<1>2. InvServer'
  BY Zenon DEF InvServer, TypeOK, ServerTypeOK, ClientTypeOK
<1>3. WaitersUnique'
  BY DEF WaitersUnique
<1>4. ASSUME NEW d \in Client PROVE InvClient(d)'
  <2>1. /\ Waits(d)' <=> Waits(d)
        /\ RetryComing(d)' <=> RetryComing(d)
        /\ HandlerAcquires(d)' <=> HandlerAcquires(d)
        /\ \A S : ThreadAt(d, S)' <=> ThreadAt(d, S)
    BY Zenon DEF Waits, RetryComing, HandlerAcquires, ThreadAt
  <2>2. HandlerReleases(d) => HandlerReleases(d)'
    BY Zenon DEF HandlerReleases, TypeOK
  <2>3. CASE d = c
    <3>1. state[d] = "ACQUIRING" /\ InvAcquiring(d)
      BY <2>3, Zenon DEF InvClient, InvNone, InvWaiting, Expected, InvOwned, InvLocked, InvReleasing,
             TypeOK, ClientTypeOK, ClientStates
    <3>2. acq'[d] = "replied" /\ acqRet'[d] = "OK" /\ pending[d] = "0" /\ Holds(d)'
      BY <2>3, <3>1, Zenon DEF InvAcquiring, Handled, Holds, TypeOK
    <3>3. InvAcquiring(d)'
      BY <2>1, <3>1, <3>2, Zenon DEF InvAcquiring
    <3> QED BY <3>1, <3>3, Zenon DEF InvClient
  <2>4. CASE d # c
    <3>1. ~Holds(d) /\ ~Holds(d)' /\ ~Expected(d) /\ ~Expected(d)'
      BY <2>4, Zenon DEF Holds, Expected
    <3> QED BY <2>1, <2>2, <2>4, <3>1, ClientFrame, Zenon DEF TypeOK
  <2> QED BY <2>3, <2>4, Zenon
<1>5. InvThreads'
  BY DEF InvThreads, Busy
<1>6. InvRetrying'
  BY DEF InvRetrying, ThreadAt
<1>7. InvRevoking'
  BY DEF InvRevoking, ThreadAt
<1>8. InvRevoke'
  BY DEF InvRevoke, RevokeComing, Holds
<1>9. InvRetry'
  BY Zenon DEF InvRetry, Expected
<1> QED BY <1>1, <1>2, <1>3, <1>4, <1>5, <1>6, <1>7, <1>8, <1>9, Zenon

(* The server grants a reserved lock to the client it expects. *)
LEMMA HandleAcquireExpectedStep ==
  ASSUME IInv, NEW c \in Client, HandleAcquireExpected(c) PROVE IInv'
<1> USE DEF IInv, HandleAcquireExpected, SrvAcquireExpected, AcquireAsserts, ReplyAcquire,
       RevokeFrom, clientVars
<1>w. state[c] = "WAITING" /\ pending[c] = "0" /\ rel[c] = "none"
  <2>1. Expected(c) /\ ~Holds(c) /\ ~Waits(c)
    BY Zenon DEF Expected, Holds, Waits, WaitersUnique
  <2> QED BY <2>1, Zenon DEF InvClient, InvNone, InvAcquiring, InvWaiting, InvOwned, InvLocked,
         InvReleasing, Handled, TypeOK, ClientTypeOK, ClientStates
<1>x. \A b \in Client : rel[b] # "retry"
  <2>1. Expected(c) /\ ~RetryComing(c)
    BY <1>w, Zenon DEF InvClient, InvWaiting, Expected, Holds, Waits, WaitersUnique
  <2> QED BY <2>1, Zenon DEF InvRetry, Expected, RetryComing
<1>1. TypeOK'
  <2>1. UNCHANGED <<holding_client, send_rpc, waiting_clients>> /\ srvState' = "LOCKED"
    BY Zenon
  <2>2. ServerTypeOK'
    BY <2>1, Zenon DEF TypeOK, ServerTypeOK, SrvStates
  <2>3. acq' \in [Client -> AcqStages] /\ acqRet' \in [Client -> {"OK", "RETRY"}]
    BY DEF TypeOK, AcqStages
  <2>4. acqDest' \in [Client -> Client \cup {NoClient}]
    BY DEF TypeOK, ServerTypeOK
  <2> QED BY <2>2, <2>3, <2>4, Zenon DEF TypeOK, ClientTypeOK
<1>2. InvServer'
  BY Zenon DEF InvServer, TypeOK, ServerTypeOK, ClientTypeOK
<1>3. WaitersUnique'
  BY Zenon DEF WaitersUnique
<1>4. ASSUME NEW d \in Client PROVE InvClient(d)'
  <2>1. /\ Waits(d)' <=> Waits(d)
        /\ RetryComing(d)' <=> RetryComing(d)
        /\ HandlerAcquires(d)' <=> HandlerAcquires(d)
        /\ \A S : ThreadAt(d, S)' <=> ThreadAt(d, S)
    BY Zenon DEF Waits, RetryComing, HandlerAcquires, ThreadAt
  <2>2. HandlerReleases(d) => HandlerReleases(d)'
    BY Zenon DEF HandlerReleases, TypeOK
  <2>3. CASE d = c
    <3>1. state[d] = "WAITING" /\ InvWaiting(d) /\ pending[d] = "0"
      BY <1>w, <2>3, Zenon DEF InvClient
    <3>2. /\ acq'[d] \in {"revoke", "replied"} /\ acqRet'[d] = "OK"
          /\ acq'[d] = "revoke" => acqDest'[d] = d
          /\ Holds(d)'
      BY <2>3, Zenon DEF Holds, TypeOK
    <3>3. InvWaiting(d)'
      BY <2>1, <2>3, <3>1, <3>2, Zenon DEF InvWaiting
    <3> QED BY <3>1, <3>3, Zenon DEF InvClient
  <2>4. CASE d # c
    <3>1. ~Holds(d) /\ ~Holds(d)' /\ ~Expected(d) /\ ~Expected(d)'
      BY <2>4, Zenon DEF Holds, Expected
    <3> QED BY <2>1, <2>2, <2>4, <3>1, ClientFrame, Zenon DEF TypeOK
  <2> QED BY <2>3, <2>4, Zenon
<1>5. InvThreads'
  BY DEF InvThreads, Busy, TypeOK, ServerTypeOK, ClientTypeOK
<1>6. InvRetrying'
  BY DEF InvRetrying, ThreadAt, Busy, TypeOK, ServerTypeOK, ClientTypeOK
<1>7. InvRevoking'
  BY DEF InvRevoking, ThreadAt, Busy, TypeOK, ServerTypeOK, ClientTypeOK
<1>8. InvRevoke'
  <2>1. state[c] = "WAITING" /\ pending[c] = "0" /\ acq[c] = "sent"
    BY Zenon DEF InvClient, InvNone, InvAcquiring, InvWaiting, InvOwned, InvLocked, InvReleasing,
           TypeOK, ServerTypeOK, ClientTypeOK, Expected, Holds, Handled, ClientStates
  <2>2. \A a \in Client : acq[a] # "revoke"
    BY Zenon DEF InvRevoke, Holds
  <2>3. \A a \in Client : pending[a] # "revoke"
    BY Zenon DEF InvRevoke, Holds
  <2>4. CASE send_rpc
    BY <2>1, <2>2, <2>3, <2>4 DEF InvRevoke, RevokeComing, Holds, TypeOK, ServerTypeOK,
           ClientTypeOK
  <2>5. CASE ~send_rpc
    BY <2>1, <2>2, <2>3, <2>5 DEF InvRevoke, RevokeComing, Holds, TypeOK, ServerTypeOK,
           ClientTypeOK
  <2> QED BY <2>4, <2>5, Zenon
<1>9. InvRetry'
  BY <1>x, Zenon DEF InvRetry
<1> QED BY <1>1, <1>2, <1>3, <1>4, <1>5, <1>6, <1>7, <1>8, <1>9, Zenon

(* The server queues a client behind the one it expects. *)
LEMMA HandleAcquireReservedStep ==
  ASSUME IInv, NEW c \in Client, HandleAcquireReserved(c) PROVE IInv'
<1> USE DEF IInv, HandleAcquireReserved, SrvAcquireReserved, AcquireAsserts, ReplyAcquire,
       clientVars
<1>a. state[c] = "ACQUIRING" /\ ~Waits(c) /\ holding_client # c /\ pending[c] = "0" /\
       rel[c] = "none"
  <2>1. ~Holds(c) /\ ~Expected(c)
    BY Zenon DEF Holds, Expected
  <2>2. state[c] = "ACQUIRING"
    BY <2>1, Zenon DEF InvClient, InvNone, InvWaiting, InvOwned, InvLocked, InvReleasing, TypeOK,
           ClientTypeOK, ClientStates
  <2> QED BY <2>2, Zenon DEF InvClient, InvAcquiring, Handled
<1>b. waiting_clients' = Append(waiting_clients, c) /\ waiting_clients \in Seq(Client)
  BY Zenon DEF TypeOK, ServerTypeOK, ClientTypeOK
<1>c. ASSUME NEW d \in Client PROVE Waits(d)' <=> Waits(d) \/ d = c
  BY <1>b, Queued, Zenon
<1>1. TypeOK'
  <2>1. waiting_clients' \in Seq(Client)
    BY <1>b, SeqAppend
  <2>2. UNCHANGED <<srvState, holding_client>> /\ send_rpc' \in BOOLEAN
    BY Zenon
  <2>3. ServerTypeOK'
    BY <2>1, <2>2, Zenon DEF TypeOK, ServerTypeOK
  <2>4. acq' \in [Client -> AcqStages] /\ acqRet' \in [Client -> {"OK", "RETRY"}]
    BY DEF TypeOK, AcqStages
  <2> QED BY <2>3, <2>4, Zenon DEF TypeOK, ClientTypeOK
<1>2. InvServer'
  BY DEF InvServer, TypeOK, ServerTypeOK, ClientTypeOK
<1>3. WaitersUnique'
  BY <1>a, <1>b, AppendUnique, Zenon DEF WaitersUnique, Waits
<1>4. ASSUME NEW d \in Client PROVE InvClient(d)'
  <2>1. CASE d = c
    <3>1. Handled(c)' /\ acqRet'[c] = "RETRY" /\ Waits(c)'
      BY <1>c, Zenon DEF Handled, TypeOK, ServerTypeOK, ClientTypeOK
    <3> QED BY <2>1, <3>1, <1>a, Zenon DEF InvClient, InvAcquiring, ThreadAt, TypeOK, ServerTypeOK,
           ClientTypeOK
  <2>2. CASE d # c
    <3>1. /\ Waits(d)' <=> Waits(d)
          /\ Holds(d)' <=> Holds(d)
          /\ Expected(d)' <=> Expected(d)
          /\ RetryComing(d)' <=> RetryComing(d)
          /\ HandlerAcquires(d)' <=> HandlerAcquires(d)
          /\ \A S : ThreadAt(d, S)' <=> ThreadAt(d, S)
      BY <2>2, <1>c, Zenon DEF Holds, Expected, RetryComing, HandlerAcquires, ThreadAt
    <3>2. HandlerReleases(d) => HandlerReleases(d)'
      BY Zenon DEF HandlerReleases, TypeOK
    <3> QED BY <2>2, <3>1, <3>2, ClientFrame, Zenon DEF TypeOK
  <2> QED BY <2>1, <2>2, Zenon
<1>5. InvThreads'
  BY DEF InvThreads, Busy
<1>6. InvRetrying'
  BY DEF InvRetrying, ThreadAt
<1>7. InvRevoking'
  BY DEF InvRevoking, ThreadAt
<1>8. InvRevoke'
  BY DEF InvRevoke, RevokeComing, Holds
<1>9. InvRetry'
  BY Zenon DEF InvRetry, Expected
<1> QED BY <1>1, <1>2, <1>3, <1>4, <1>5, <1>6, <1>7, <1>8, <1>9, Zenon

(* The server queues a client behind the holder. *)
LEMMA HandleAcquireHeldStep ==
  ASSUME IInv, NEW c \in Client, HandleAcquireHeld(c) PROVE IInv'
<1> USE DEF IInv, HandleAcquireHeld, SrvAcquireHeld, AcquireAsserts, ReplyAcquire,
       RevokeFrom, clientVars
<1>a. state[c] = "ACQUIRING" /\ ~Waits(c) /\ holding_client # c /\ pending[c] = "0" /\
       rel[c] = "none"
  <2>1. ~Holds(c) /\ ~Expected(c)
    BY Zenon DEF Holds, Expected
  <2>2. state[c] = "ACQUIRING"
    BY <2>1, Zenon DEF InvClient, InvNone, InvWaiting, InvOwned, InvLocked, InvReleasing, TypeOK,
           ClientTypeOK, ClientStates
  <2> QED BY <2>2, Zenon DEF InvClient, InvAcquiring, Handled
<1>b. waiting_clients' = Append(waiting_clients, c) /\ waiting_clients \in Seq(Client)
  BY Zenon DEF TypeOK, ServerTypeOK, ClientTypeOK
<1>c. ASSUME NEW d \in Client PROVE Waits(d)' <=> Waits(d) \/ d = c
  BY <1>b, Queued, Zenon
<1>1. TypeOK'
  <2>1. waiting_clients' \in Seq(Client)
    BY <1>b, SeqAppend
  <2>2. UNCHANGED <<srvState, holding_client>> /\ send_rpc' \in BOOLEAN
    BY Zenon
  <2>3. ServerTypeOK'
    BY <2>1, <2>2, Zenon DEF TypeOK, ServerTypeOK
  <2>4. acq' \in [Client -> AcqStages] /\ acqRet' \in [Client -> {"OK", "RETRY"}]
    BY DEF TypeOK, AcqStages
  <2>5. acqDest' \in [Client -> Client \cup {NoClient}]
    BY DEF TypeOK, ServerTypeOK
  <2> QED BY <2>3, <2>4, <2>5, Zenon DEF TypeOK, ClientTypeOK
<1>2. InvServer'
  BY Zenon DEF InvServer, TypeOK, ServerTypeOK, ClientTypeOK
<1>3. WaitersUnique'
  BY <1>a, <1>b, AppendUnique DEF WaitersUnique, Waits
<1>4. ASSUME NEW d \in Client PROVE InvClient(d)'
  <2>1. CASE d = c
    <3>1. Handled(c)' /\ acqRet'[c] = "RETRY" /\ Waits(c)'
      BY <1>c, Zenon DEF Handled, TypeOK, ServerTypeOK, ClientTypeOK
    <3> QED BY <2>1, <3>1, <1>a, Zenon DEF InvClient, InvAcquiring, ThreadAt, TypeOK, ServerTypeOK,
           ClientTypeOK
  <2>2. CASE d # c
    <3>1. /\ Waits(d)' <=> Waits(d)
          /\ Holds(d)' <=> Holds(d)
          /\ Expected(d)' <=> Expected(d)
          /\ RetryComing(d)' <=> RetryComing(d)
          /\ HandlerAcquires(d)' <=> HandlerAcquires(d)
          /\ \A S : ThreadAt(d, S)' <=> ThreadAt(d, S)
      BY <2>2, <1>c, Zenon DEF Holds, Expected, RetryComing, HandlerAcquires, ThreadAt
    <3>2. HandlerReleases(d) => HandlerReleases(d)'
      BY Zenon DEF HandlerReleases, TypeOK
    <3> QED BY <2>2, <3>1, <3>2, ClientFrame, Zenon DEF TypeOK
  <2> QED BY <2>1, <2>2, Zenon
<1>5. InvThreads'
  BY DEF InvThreads, Busy, TypeOK, ServerTypeOK, ClientTypeOK
<1>6. InvRetrying'
  BY DEF InvRetrying, ThreadAt, Busy, TypeOK, ServerTypeOK, ClientTypeOK
<1>7. InvRevoking'
  <2>1. \A a \in Client :
          /\ acq'[a] = "revoking" <=> acq[a] = "revoking"
          /\ acq[a] = "revoking" => acqDest'[a] = acqDest[a]
    BY Zenon DEF TypeOK
  <2> QED BY <2>1 DEF InvRevoking, ThreadAt
<1>8. InvRevoke'
  <2>1. CASE send_rpc
    <3>1. \A a \in Client : (acq'[a] = "revoke" <=> acq[a] = "revoke") /\ acqDest'[a] = acqDest[a]
      BY <2>1, Zenon DEF TypeOK
    <3> QED BY <2>1, <3>1 DEF InvRevoke, RevokeComing, Holds
  <2>2. CASE ~send_rpc
    <3>1. \A a \in Client : acq[a] # "revoke" /\ pending[a] # "revoke"
      BY <2>2, Zenon DEF InvRevoke
    <3>2. holding_client \in Client /\ holding_client # c
      BY <1>a, Zenon DEF InvServer
    <3>3. state[holding_client] \in {"ACQUIRING", "WAITING", "OWNED", "LOCKED"} /\
           pending[holding_client] = "0"
      BY <2>2, <3>1, <3>2, Zenon DEF InvClient, InvNone, InvAcquiring, InvWaiting, InvOwned,
             InvLocked, InvReleasing, Holds, Expected, TypeOK, ServerTypeOK, ClientTypeOK,
             ClientStates, Pending
    <3> QED BY <2>2, <3>1, <3>2, <3>3 DEF InvRevoke, RevokeComing, Holds, TypeOK,
           ServerTypeOK, ClientTypeOK
  <2> QED BY <2>1, <2>2, Zenon
<1>9. InvRetry'
  BY Zenon DEF InvRetry, Expected
<1> QED BY <1>1, <1>2, <1>3, <1>4, <1>5, <1>6, <1>7, <1>8, <1>9, Zenon

(* The acquire handler of the server returns. *)
LEMMA AcquireReturnStep ==
  ASSUME IInv, NEW c \in Client, AcquireReturn(c) PROVE IInv'
<1> USE DEF IInv, AcquireReturn, serverVars, clientVars
<1>1. TypeOK'
  BY Zenon DEF TypeOK, ServerTypeOK, ClientTypeOK, ClientStates, Pending, ThreadPcs, AcqStages,
         RelStages
<1>2. InvServer'
  BY Zenon DEF InvServer, TypeOK, ServerTypeOK, ClientTypeOK
<1>3. WaitersUnique'
  BY Zenon DEF WaitersUnique
<1>4. ASSUME NEW d \in Client PROVE InvClient(d)'
  <2>1. /\ Waits(d)' <=> Waits(d)
        /\ Holds(d)' <=> Holds(d)
        /\ Expected(d)' <=> Expected(d)
        /\ RetryComing(d)' <=> RetryComing(d)
        /\ HandlerAcquires(d)' <=> HandlerAcquires(d)
        /\ HandlerReleases(d)' <=> HandlerReleases(d)
        /\ Handled(d)' <=> Handled(d)
        /\ \A S : ThreadAt(d, S)' <=> ThreadAt(d, S)
    BY DEF Waits, Holds, Expected, RetryComing, HandlerAcquires, HandlerReleases, Handled,
           ThreadAt, TypeOK, ServerTypeOK, ClientTypeOK
  <2>2. CASE d = c
    <3>1. acq'[d] = "replied"
      BY <2>2, Zenon DEF TypeOK
    <3>2. state[d] \in {"ACQUIRING", "WAITING"}
      BY <2>2, AcquiringClient, Zenon
    <3>3. CASE state[d] = "ACQUIRING"
      BY <2>1, <2>2, <3>1, <3>3, Zenon DEF InvClient, InvAcquiring
    <3>4. CASE state[d] = "WAITING"
      BY <2>1, <2>2, <3>1, <3>4, Zenon DEF InvClient, InvWaiting
    <3> QED BY <3>2, <3>3, <3>4, Zenon
  <2>3. CASE d # c
    BY <2>1, <2>3, ClientFrame, Zenon DEF TypeOK
  <2> QED BY <2>2, <2>3, Zenon
<1>5. InvThreads'
  BY DEF InvThreads, Busy
<1>6. InvRetrying'
  BY DEF InvRetrying, ThreadAt, TypeOK
<1>7. InvRevoking'
  BY Zenon DEF InvRevoking, ThreadAt, TypeOK
<1>8. InvRevoke'
  <2>1. \A a \in Client :
          /\ acq'[a] = "revoke" <=> acq[a] = "revoke"
          /\ acq[a] = "revoke" => acqDest'[a] = acqDest[a]
    BY Zenon DEF TypeOK
  <2> HIDE DEF IInv
  <2> QED BY <2>1 DEF IInv, InvRevoke, RevokeComing, Holds
<1>9. InvRetry'
  BY Zenon DEF InvRetry, Expected
<1> QED BY <1>1, <1>2, <1>3, <1>4, <1>5, <1>6, <1>7, <1>8, <1>9, Zenon

(* A release that nobody waits for. *)
LEMMA HandleReleaseFreeStep ==
  ASSUME IInv, NEW c \in Client, HandleReleaseFree(c) PROVE IInv'
<1> USE DEF IInv, HandleReleaseFree, SrvReleaseFree, ReleaseAsserts, clientVars
<1>1. TypeOK'
  BY Zenon DEF TypeOK, ServerTypeOK, ClientTypeOK, ClientStates, Pending, ThreadPcs, AcqStages,
         RelStages, SrvStates
<1>2. InvServer'
  BY Zenon DEF InvServer, TypeOK, ServerTypeOK, ClientTypeOK
<1>3. WaitersUnique'
  BY DEF WaitersUnique
<1>4. ASSUME NEW d \in Client PROVE InvClient(d)'
  <2>1. state[c] = "RELEASING" /\ pending[c] = "0" /\ acq[c] = "none"
    BY ReleasingClient, Zenon DEF InvReleasing
  <2>2. ~Waits(d) /\ ~Waits(d)'
    BY DEF Waits
  <2>3. CASE d = c
    BY <2>1, <2>2, <2>3 DEF InvClient, InvReleasing, ThreadAt, HandlerReleases, TypeOK,
           ServerTypeOK, ClientTypeOK
  <2>4. CASE d # c
    <3>1. /\ ~Holds(d) /\ ~Expected(d)
          /\ holding_client' # d
          /\ HandlerAcquires(d)' <=> HandlerAcquires(d)
          /\ HandlerReleases(d)' <=> HandlerReleases(d)
          /\ \A S : ThreadAt(d, S)' <=> ThreadAt(d, S)
      BY <2>4, Zenon DEF Holds, Expected, HandlerAcquires, HandlerReleases, ThreadAt, TypeOK,
             ServerTypeOK, ClientTypeOK
    <3> QED BY <2>2, <2>4, <3>1, Zenon DEF InvClient, InvNone, InvAcquiring, InvWaiting, InvOwned,
           InvLocked, InvReleasing, TypeOK, ServerTypeOK, ClientTypeOK
  <2> QED BY <2>3, <2>4, Zenon
<1>5. InvThreads'
  BY Zenon DEF InvThreads, Busy
<1>6. InvRetrying'
  BY DEF InvRetrying, ThreadAt, TypeOK
<1>7. InvRevoking'
  BY Zenon DEF InvRevoking, ThreadAt
<1>8. InvRevoke'
  <2>1. state[c] = "RELEASING" /\ pending[c] = "0"
    BY ReleasingClient, Zenon DEF InvReleasing
  <2>2. \A a \in Client : acq[a] # "revoke" /\ pending[a] # "revoke"
    BY <2>1, Zenon DEF InvRevoke, Holds
  <2> QED BY <2>2, Zenon DEF InvRevoke, TypeOK, ServerTypeOK, ClientTypeOK
<1>9. InvRetry'
  <2>1. \A b \in Client : rel[b] # "retry"
    BY Zenon DEF InvRetry, Expected
  <2> QED BY <2>1, Zenon DEF InvRetry, TypeOK
<1> QED BY <1>1, <1>2, <1>3, <1>4, <1>5, <1>6, <1>7, <1>8, <1>9, Zenon

(* A release that reserves the lock for the next client. *)
LEMMA HandleReleaseNextStep ==
  ASSUME IInv, NEW c \in Client, HandleReleaseNext(c) PROVE IInv'
<1> USE DEF IInv, HandleReleaseNext, SrvReleaseNext, ReleaseAsserts, clientVars
<1>n. PICK n \in Client : n = Head(waiting_clients)
  BY TailMembers, Zenon DEF TypeOK, ServerTypeOK, ClientTypeOK, WaitersUnique
<1>a. /\ Waits(n) /\ Tail(waiting_clients) \in Seq(Client)
      /\ \A d \in Client : Waits(d)' <=> Waits(d) /\ d # n
  <2>1. /\ waiting_clients \in Seq(Client) /\ waiting_clients # <<>>
        /\ waiting_clients' = Tail(waiting_clients)
        /\ \A i, j \in DOMAIN waiting_clients :
             waiting_clients[i] = waiting_clients[j] => i = j
    BY Zenon DEF TypeOK, ServerTypeOK, WaitersUnique
  <2>2. ASSUME NEW d \in Client PROVE Waits(d)' <=> Waits(d) /\ d # n
    BY <1>n, <2>1, Dequeued, Zenon
  <2> QED BY <1>n, <2>1, <2>2, TailMembers, Zenon DEF Waits
<1>b. state[c] = "RELEASING" /\ pending[c] = "0" /\ acq[c] = "none"
  BY ReleasingClient, Zenon DEF InvReleasing
<1>c0. n # c /\ ~Holds(n) /\ ~Expected(n)
  BY <1>a, Zenon DEF WaitersUnique, Waits, Holds, Expected
<1>c. /\ n # c /\ pending[n] = "0" /\ state[n] \in {"ACQUIRING", "WAITING"}
      /\ state[n] = "ACQUIRING" => Handled(n) /\ acqRet[n] = "RETRY"
      /\ state[n] = "WAITING" => acq[n] = "none" /\ ThreadAt(n, {"sleeping", "awake"})
  BY <1>a, <1>c0, Zenon DEF InvClient, InvNone, InvAcquiring, InvWaiting, InvOwned, InvLocked,
         InvReleasing, TypeOK, ServerTypeOK, ClientTypeOK, ClientStates, Handled
<1>d. \A a \in Client : acq[a] # "revoke" /\ pending[a] # "revoke"
  BY <1>b, Zenon DEF InvRevoke, Holds
<1>e. \A b \in Client : rel[b] # "retry"
  BY Zenon DEF InvRetry, Expected
<1>1. TypeOK'
  BY <1>n, <1>a, Zenon DEF TypeOK, ServerTypeOK, SrvStates, ClientTypeOK, RelStages
<1>2. InvServer'
  BY <1>n, <1>a, Zenon DEF InvServer, TypeOK, ServerTypeOK, ClientTypeOK
<1>3. WaitersUnique'
  BY TailUnique, Zenon DEF WaitersUnique, TypeOK, ServerTypeOK, ClientTypeOK
<1>4. ASSUME NEW d \in Client PROVE InvClient(d)'
  <2>1. CASE d = n
    <3>1. Expected(n)' /\ RetryComing(n)' /\ (Handled(n)' <=> Handled(n))
            /\ \A S : ThreadAt(n, S)' <=> ThreadAt(n, S)
      BY <1>n, Zenon DEF Expected, RetryComing, Handled, ThreadAt, TypeOK, ServerTypeOK,
             ClientTypeOK
    <3> QED BY <2>1, <3>1, <1>a, <1>c, Zenon DEF InvClient, InvAcquiring, InvWaiting, TypeOK,
           ServerTypeOK, ClientTypeOK
  <2>2. CASE d = c
    <3>1. ~Waits(c)' /\ holding_client' # c /\ rel'[c] = "retry"
      BY <1>n, <1>a, <1>c, Zenon DEF TypeOK, ServerTypeOK, ClientTypeOK, WaitersUnique, Waits
    <3>2. ThreadAt(c, {"releasing"})' \/ HandlerReleases(c)'
      BY <1>b, Zenon DEF InvClient, InvReleasing, ThreadAt, HandlerReleases
    <3> QED BY <2>2, <3>1, <3>2, <1>b, Zenon DEF InvClient, InvReleasing
  <2>3. CASE d # n /\ d # c
    <3>1. /\ Waits(d)' <=> Waits(d)
          /\ ~Holds(d) /\ ~Expected(d)
          /\ HandlerAcquires(d)' <=> HandlerAcquires(d)
          /\ HandlerReleases(d)' <=> HandlerReleases(d)
          /\ Handled(d)' <=> Handled(d)
          /\ \A S : ThreadAt(d, S)' <=> ThreadAt(d, S)
      BY <2>3, <1>n, <1>a, Zenon DEF Holds, Expected, HandlerAcquires, HandlerReleases, Handled,
             ThreadAt, TypeOK, ServerTypeOK, ClientTypeOK
    <3>3. state[d] \notin {"OWNED", "LOCKED"}
      BY <3>1, Zenon DEF InvClient, InvOwned, InvLocked
    <3>4. CASE state[d] = "NONE"
      BY <2>3, <3>1, <3>4, <1>n, Zenon DEF InvClient, InvNone, TypeOK, ServerTypeOK, ClientTypeOK
    <3>5. CASE state[d] = "ACQUIRING"
      BY <2>3, <3>1, <3>5, <1>n, Zenon DEF InvClient, InvAcquiring, TypeOK, ServerTypeOK,
             ClientTypeOK
    <3>6. CASE state[d] = "WAITING"
      BY <2>3, <3>1, <3>6, <1>n, Zenon DEF InvClient, InvWaiting, TypeOK, ServerTypeOK,
             ClientTypeOK
    <3>7. CASE state[d] = "RELEASING"
      BY <2>3, <3>1, <3>7, <1>n, Zenon DEF InvClient, InvReleasing, TypeOK, ServerTypeOK,
             ClientTypeOK
    <3> QED BY <3>3, <3>4, <3>5, <3>6, <3>7, Zenon DEF TypeOK, ServerTypeOK, ClientTypeOK,
           ClientStates
  <2> QED BY <2>1, <2>2, <2>3, Zenon
<1>5. InvThreads'
  BY Zenon DEF InvThreads, Busy
<1>6. InvRetrying'
  BY DEF InvRetrying, ThreadAt, TypeOK, ServerTypeOK, ClientTypeOK
<1>7. InvRevoking'
  BY Zenon DEF InvRevoking, ThreadAt, TypeOK, ServerTypeOK, ClientTypeOK
<1>8. InvRevoke'
  BY <1>d, Zenon DEF InvRevoke, TypeOK, ServerTypeOK, ClientTypeOK
<1>9. InvRetry'
  BY <1>n, <1>c, <1>e, Zenon DEF InvRetry, Expected, TypeOK, ServerTypeOK, ClientTypeOK
<1> QED BY <1>1, <1>2, <1>3, <1>4, <1>5, <1>6, <1>7, <1>8, <1>9, Zenon

(* The release handler of the server returns. *)
LEMMA ReleaseReturnStep ==
  ASSUME IInv, NEW c \in Client, ReleaseReturn(c) PROVE IInv'
<1> USE DEF IInv, ReleaseReturn, serverVars, clientVars
<1>b. \A b \in Client :
        /\ rel'[b] = "retry" <=> rel[b] = "retry"
        /\ rel'[b] = "retrying" <=> rel[b] = "retrying"
        /\ rel[b] \in {"retry", "retrying"} => relDest'[b] = relDest[b]
  BY Zenon DEF TypeOK
<1>1. TypeOK'
  BY Zenon DEF TypeOK, ServerTypeOK, ClientTypeOK, ClientStates, Pending, ThreadPcs, AcqStages,
         RelStages
<1>2. InvServer'
  BY Zenon DEF InvServer, TypeOK, ServerTypeOK, ClientTypeOK
<1>3. WaitersUnique'
  BY Zenon DEF WaitersUnique
<1>4. ASSUME NEW d \in Client PROVE InvClient(d)'
  <2>1. /\ Waits(d)' <=> Waits(d)
        /\ Holds(d)' <=> Holds(d)
        /\ Expected(d)' <=> Expected(d)
        /\ RetryComing(d)' <=> RetryComing(d)
        /\ HandlerAcquires(d)' <=> HandlerAcquires(d)
        /\ HandlerReleases(d)' <=> HandlerReleases(d)
        /\ \A S : ThreadAt(d, S)' <=> ThreadAt(d, S)
    <3>1. /\ Waits(d)' <=> Waits(d)
          /\ Holds(d)' <=> Holds(d)
          /\ Expected(d)' <=> Expected(d)
          /\ HandlerReleases(d)' <=> HandlerReleases(d)
          /\ \A S : ThreadAt(d, S)' <=> ThreadAt(d, S)
      BY Zenon DEF Waits, Holds, Expected, HandlerReleases, ThreadAt
    <3>2. RetryComing(d)' <=> RetryComing(d)
      BY DEF RetryComing, TypeOK
    <3>3. HandlerAcquires(d)' <=> HandlerAcquires(d)
      BY DEF HandlerAcquires, TypeOK
    <3> QED BY <3>1, <3>2, <3>3, Zenon
  <2>2. CASE d = c
    <3>1. rel'[d] = "replied"
      BY <2>2, Zenon DEF TypeOK
    <3>2. state[d] = "RELEASING"
      BY <2>2, ReleasingClient, Zenon
    <3> QED BY <2>1, <2>2, <3>1, <3>2, Zenon DEF InvClient, InvReleasing
  <2>3. CASE d # c
    BY <2>1, <2>3, ClientFrame, Zenon DEF TypeOK
  <2> QED BY <2>2, <2>3, Zenon
<1>5. InvThreads'
  BY Zenon DEF InvThreads, Busy
<1>6. InvRetrying' /\ InvRetry'
  BY <1>b, OtherRetries, Zenon
<1>7. InvRevoking'
  BY Zenon DEF InvRevoking, ThreadAt
<1>8. InvRevoke'
  BY Zenon DEF InvRevoke, RevokeComing, Holds
<1> QED BY <1>1, <1>2, <1>3, <1>4, <1>5, <1>6, <1>7, <1>8, Zenon

-----------------------------------------------------------------------------
(* The invariant, and what follows from it *)

(* The invariant holds when no client has asked for the lock yet. *)
LEMMA InitIInv == Init => IInv
<1> SUFFICES ASSUME Init PROVE IInv
  BY Zenon
<1> USE DEF Init, ServerInit, ClientInit
<1>1. TypeOK
  BY SeqEmpty, Zenon DEF TypeOK, ServerTypeOK, ClientTypeOK, SrvStates, ClientStates, Pending, ThreadPcs,
         AcqStages, RelStages
<1>2. waiting_clients = <<>> /\ DOMAIN waiting_clients = {}
  BY SeqEmpty
<1>3. InvServer
  BY Zenon DEF InvServer
<1>4. WaitersUnique
  BY <1>2, Zenon DEF WaitersUnique
<1>5. \A c \in Client : InvClient(c)
  BY <1>2, Zenon DEF InvClient, InvNone, Waits
<1>6. InvThreads /\ InvRetrying /\ InvRevoking /\ InvRevoke /\ InvRetry
  BY Zenon DEF InvThreads, Busy, InvRetrying, InvRevoking, InvRevoke, InvRetry
<1> QED BY <1>1, <1>3, <1>4, <1>5, <1>6, Zenon DEF IInv

(* IInv is inductive. *)
LEMMA StepIInv ==
  ASSUME IInv, [Next]_vars PROVE IInv'
<1>1. ASSUME NEW t \in Thread, Call(t) \/ Resume(t) \/ Wakeup(t) \/ Answer(t) \/ Release(t)
      PROVE  IInv'
  BY <1>1, TakeCachedStep, AskStep, SleepStep, WakeupStep, GrantedStep, WaitStep,
         AskAgainStep, GrantedAgainStep, KeepStep, GiveBackStep, GivenBackStep, Zenon
     DEF Call, Resume, Answer, Release
<1>2. ASSUME NEW c \in Client, Flush(c) \/ Server(c) \/ Handler(c)
      PROVE  IInv'
  BY <1>2, FlushStep, HandleAcquireFreeStep, HandleAcquireExpectedStep,
         HandleAcquireReservedStep, HandleAcquireHeldStep, AcquireReturnStep,
         HandleReleaseFreeStep, HandleReleaseNextStep, ReleaseReturnStep,
         HandleRevokeNowStep, HandleRevokeLaterStep, HandleRevokeDoneStep,
         HandleRetryLaterStep, HandleRetryNowStep, HandleRetryDoneStep, Zenon
     DEF Server, HandleRelease, Handler
<1>3. CASE UNCHANGED vars
  <2> USE <1>3 DEF vars, serverVars, clientVars, rpcVars, IInv
  <2>1. TypeOK' /\ InvServer' /\ WaitersUnique'
    BY Zenon DEF TypeOK, ServerTypeOK, ClientTypeOK, InvServer, WaitersUnique
  <2>2. ASSUME NEW c \in Client PROVE InvClient(c)'
    <3>1. /\ Waits(c)' <=> Waits(c)
          /\ Holds(c)' <=> Holds(c)
          /\ Expected(c)' <=> Expected(c)
          /\ RetryComing(c)' <=> RetryComing(c)
          /\ HandlerAcquires(c)' <=> HandlerAcquires(c)
          /\ HandlerReleases(c)' <=> HandlerReleases(c)
          /\ \A S : ThreadAt(c, S)' <=> ThreadAt(c, S)
      BY Zenon DEF Waits, Holds, Expected, RetryComing, HandlerAcquires, HandlerReleases, ThreadAt
    <3> QED BY <3>1, ClientFrame, Zenon
  <2>3. InvThreads' /\ InvRetry'
    BY DEF InvThreads, InvRetry, Expected
  <2>4. InvRetrying' /\ InvRevoking'
    BY DEF InvRetrying, InvRevoking, ThreadAt
  <2>5. InvRevoke'
    BY Zenon DEF InvRevoke, RevokeComing, Holds
  <2> QED BY <2>1, <2>2, <2>3, <2>4, <2>5, Zenon
<1> QED BY <1>1, <1>2, <1>3, Zenon DEF Next

-----------------------------------------------------------------------------
(* What the inductive invariant says of the asserts, of the lock and of the
   RPCs: every safety property of LockCache follows from it. *)
LEMMA Consequences ==
  ASSUME IInv
  PROVE  MutualExclusion /\ CachedIsHeld /\ AssertsHold /\ OneCallEach /\ RevokeNotLost
<1> USE DEF IInv, TypeOK, ServerTypeOK, ClientTypeOK
<1>1. CachedIsHeld
  BY Zenon DEF CachedIsHeld, InvClient, InvOwned, InvLocked, Holds
<1>2. MutualExclusion
  BY <1>1 DEF MutualExclusion, CachedIsHeld, InvThreads, Busy
<1>3. AssertsHold
  <2>1. ASSUME NEW c \in Client, acq[c] = "sent"
        PROVE  AcquireAsserts(c)
    <3>1. InvAcquiring(c) \/ InvWaiting(c)
      BY <2>1, Zenon DEF InvClient, InvNone, InvOwned, InvLocked, InvReleasing, ClientStates
    <3>2. ~Holds(c) /\ ~Waits(c)
      BY <2>1, <3>1, Zenon DEF InvAcquiring, InvWaiting, Handled, Holds, Expected, Waits,
             WaitersUnique
    <3> QED BY <3>2, Zenon DEF AcquireAsserts, InvServer, Holds, Waits
  <2>2. ASSUME NEW c \in Client, rel[c] = "sent"
        PROVE  ReleaseAsserts(c)
    <3>1. InvReleasing(c)
      BY <2>2, Zenon DEF InvClient, InvNone, InvAcquiring, InvWaiting, InvOwned, InvLocked,
             ClientStates
    <3> QED BY <2>2, <3>1, Zenon DEF ReleaseAsserts, InvReleasing, Holds
  <2>3. ASSUME NEW c \in Client, acq[c] = "revoke"
        PROVE  RevokeAsserts(acqDest[c])
    BY <2>3, Zenon DEF InvRevoke, RevokeAsserts
  <2>4. ASSUME NEW c \in Client, rel[c] = "retry"
        PROVE  RetryAsserts(relDest[c])
    BY <2>4, Zenon DEF InvRetry, RetryAsserts
  <2>5. ASSUME NEW c \in Client, rel[c] = "retrying", acq[relDest[c]] = "replied"
        PROVE  acqRet[relDest[c]] = "OK"
    BY <2>5, Zenon DEF InvRetrying, InvClient, InvWaiting
  <2>6. ASSUME NEW t \in Thread, pc[t] = "acquire1", acq[Home[t]] = "replied"
        PROVE  AcquireAssertsClient(t)
                 /\ (acqRet[Home[t]] = "RETRY" => AcquireRetryAsserts(t))
    BY <2>6, Zenon DEF InvThreads, InvClient, InvAcquiring, InvRevoke, Holds, Expected, Waits,
           WaitersUnique, AcquireAssertsClient, AcquireRetryAsserts, Pending
  <2>7. ASSUME NEW t \in Thread, pc[t] = "acquire2", acq[Home[t]] = "replied"
        PROVE  acqRet[Home[t]] = "OK"
    BY <2>7, Zenon DEF InvThreads, InvClient, InvWaiting
  <2>8. ASSUME NEW t \in Thread, pc[t] = "holding"
        PROVE  ReleaseAssertsClient(t)
    BY <2>8, Zenon DEF InvThreads, InvClient, InvLocked, ReleaseAssertsClient
  <2>9. ASSUME NEW t \in Thread, pc[t] = "releasing"
        PROVE  ReleaseBackAsserts(t)
    BY <2>9, Zenon DEF InvThreads, ReleaseBackAsserts
  <2> QED BY <2>1, <2>2, <2>3, <2>4, <2>5, <2>6, <2>7, <2>8, <2>9, Zenon DEF AssertsHold, Answered
<1>4. ASSUME NEW c \in Client
      PROVE  /\ AcquireCallers(c) = {} <=> acq[c] = "none"
             /\ ReleaseCallers(c) = {} <=> rel[c] = "none"
             /\ \A x, y \in AcquireCallers(c) : x = y
             /\ \A x, y \in ReleaseCallers(c) : x = y
  <2>1. /\ AcquireCallers(c) # {} <=> ThreadAt(c, {"acquire1", "acquire2"}) \/
         HandlerAcquires(c)
        /\ ReleaseCallers(c) # {} <=> ThreadAt(c, {"releasing"}) \/ HandlerReleases(c)
    <3>1. AcquireCallers(c) # {} <=> ThreadAt(c, {"acquire1", "acquire2"}) \/ HandlerAcquires(c)
      BY Zenon DEF AcquireCallers, ThreadAt, HandlerAcquires
    <3>2. ReleaseCallers(c) # {} <=> ThreadAt(c, {"releasing"}) \/ HandlerReleases(c)
      BY Zenon DEF ReleaseCallers, ThreadAt, HandlerReleases
    <3> QED BY <3>1, <3>2, Zenon
  <2>2. /\ ThreadAt(c, {"acquire1", "acquire2"}) \/ HandlerAcquires(c) => acq[c] # "none"
        /\ ThreadAt(c, {"releasing"}) \/ HandlerReleases(c) => rel[c] # "none"
    <3>1. ThreadAt(c, {"acquire1", "acquire2"}) => acq[c] # "none"
      BY DEF ThreadAt, InvThreads, InvClient, InvAcquiring, Handled
    <3>2. HandlerAcquires(c) => acq[c] # "none"
      BY Zenon DEF HandlerAcquires, InvRetrying
    <3>3. ThreadAt(c, {"releasing"}) \/ HandlerReleases(c) => state[c] = "RELEASING"
      BY Zenon DEF ThreadAt, HandlerReleases, InvThreads, InvRevoking
    <3> QED BY <3>1, <3>2, <3>3, Zenon DEF InvClient, InvReleasing
  <2>3. /\ acq[c] # "none" => ThreadAt(c, {"acquire1", "acquire2"}) \/ HandlerAcquires(c)
        /\ rel[c] # "none" => ThreadAt(c, {"releasing"}) \/ HandlerReleases(c)
    BY DEF ThreadAt, ClientStates, InvClient, InvNone, InvAcquiring, InvWaiting, InvOwned,
           InvLocked, InvReleasing
  <2>4. \A x, y \in AcquireCallers(c) : x = y
    BY DEF AcquireCallers, InvThreads, Busy, InvRetrying, ThreadAt
  <2>5. \A x, y \in ReleaseCallers(c) : x = y
    BY DEF ReleaseCallers, InvThreads, Busy, InvRevoking, ThreadAt
  <2> QED BY <2>1, <2>2, <2>3, <2>4, <2>5, Zenon
<1>5. OneCallEach
  BY <1>4, Zenon DEF OneCallEach
<1>6. RevokeNotLost
  <2> SUFFICES ASSUME srvState = "LOCKED", waiting_clients # <<>>, NEW h, h = holding_client
               PROVE  \/ \E c \in Client : acq[c] = "revoke" /\ acqDest[c] = h
                      \/ state[h] = "RELEASING"
                      \/ /\ pending[h] = "revoke"
                         /\ \/ state[h] \in {"ACQUIRING", "WAITING", "LOCKED"}
                            \/ state[h] = "OWNED" /\ \E t \in Thread : Home[t] = h /\ pc[t]
                                   = "awake"
    BY Zenon DEF RevokeNotLost
  <2>1. h \in Client /\ send_rpc
    BY Zenon DEF InvServer
  <2>2. CASE RevokeComing(h) \/ state[h] = "RELEASING"
    BY <2>2, Zenon DEF RevokeComing
  <2>3. CASE pending[h] = "revoke"
    BY <2>1, <2>3 DEF InvClient, InvNone, InvOwned, InvReleasing, ThreadAt, ClientStates
  <2> QED BY <2>1, <2>2, <2>3, Zenon DEF InvRevoke
<1> QED BY <1>1, <1>2, <1>3, <1>5, <1>6, Zenon

(* When the server has granted the lock to a client, and no thread there uses
   it, no thread anywhere is between acquire and release. *)
LEMMA NobodyInside ==
  ASSUME IInv, NEW t \in Thread,
         state[Home[t]] = "OWNED" \/ (acq[Home[t]] = "replied" /\ acqRet[Home[t]] = "OK")
  PROVE  Inside = {}
<1>1. Home[t] \in Client /\ Holds(Home[t]) /\ state[Home[t]] # "LOCKED"
  BY Zenon DEF IInv, TypeOK, ClientTypeOK, ClientStates, InvClient, InvNone, InvAcquiring,
         InvWaiting, InvOwned, InvLocked, InvReleasing
<1>2. \A u \in Thread : pc[u] = "holding" => state[Home[u]] = "LOCKED" /\ Holds(Home[u])
  BY Zenon DEF IInv, TypeOK, InvThreads, InvClient, InvLocked
<1> QED BY <1>1, <1>2, Zenon DEF Inside, Holds

(* Every step of the protocol is a step of the plain lock, or does not show. *)
LEMMA StepImplements ==
  ASSUME IInv, [Next]_vars
  PROVE  [Lock!Next]_<<Inside, Waiting>>
<1> USE DEF Inside, Waiting
<1>0. pc \in [Thread -> ThreadPcs]
  BY Zenon DEF IInv, TypeOK, ClientTypeOK
<1>1. ASSUME NEW t \in Thread, TakeCached(t) \/ Granted(t) \/ GrantedAgain(t)
      PROVE  Lock!Enter(t)
  <2>1. Inside = {}
    <3>1. state[Home[t]] = "OWNED" \/ (acq[Home[t]] = "replied" /\ acqRet[Home[t]] = "OK")
      BY <1>1, Zenon DEF TakeCached, AcquireOwned, Entering, Granted, GrantedAgain, Answered
    <3> QED BY <3>1, NobodyInside, Zenon
  <2>2. pc' = [pc EXCEPT ![t] = "holding"]
    BY <1>1, Zenon DEF TakeCached, AcquireOwned, Granted, AcquireGranted, GrantedAgain,
           AcquireAgainGranted
  <2>3. Inside' = {t} /\ Waiting' = Waiting \ {t}
    BY <1>0, <2>1, <2>2, Zenon
  <2> QED BY <2>1, <2>3, Zenon DEF Lock!Enter
<1>2. ASSUME NEW t \in Thread, Ask(t) \/ Sleep(t)
      PROVE  Lock!Request(t) \/ UNCHANGED <<Inside, Waiting>>
  <2>1. /\ pc[t] \in {"idle", "awake"}
        /\ \E w \in {"acquire1", "sleeping"} : pc' = [pc EXCEPT ![t] = w]
    BY <1>2, Zenon DEF Ask, AcquireNone, Sleep, AcquireBusy, Entering
  <2>2. CASE pc[t] = "idle"
    <3>1. t \notin Inside \cup Waiting /\ Inside' = Inside /\ Waiting' = Waiting \cup {t}
      BY <1>0, <2>1, <2>2, Zenon
    <3> QED BY <3>1, Zenon DEF Lock!Request
  <2>3. CASE pc[t] = "awake"
    BY <1>0, <2>1, <2>3, Zenon
  <2> QED BY <2>1, <2>2, <2>3, Zenon
<1>3. ASSUME NEW t \in Thread, Wakeup(t) \/ Wait(t) \/ AskAgain(t) \/ GivenBack(t)
      PROVE  UNCHANGED <<Inside, Waiting>>
  <2>1. \/ /\ pc[t] \in {"sleeping", "acquire1"}
           /\ \E w \in {"awake", "sleeping", "acquire2"} : pc' = [pc EXCEPT ![t] = w]
        \/ pc[t] = "releasing" /\ pc' = [pc EXCEPT ![t] = "idle"]
    BY <1>3, Zenon DEF Wakeup, SpuriousWakeup, Wait, AcquireWait, AskAgain, AcquireAgain,
           GivenBack,
                ReleaseBackDone
  <2> QED BY <1>0, <2>1, Zenon
<1>4. ASSUME NEW t \in Thread, Keep(t) \/ GiveBack(t)
      PROVE  Lock!Leave(t)
  <2>1. Inside = {t}
    BY <1>4, Consequences, Zenon DEF MutualExclusion, Keep, ReleaseKeep, GiveBack, ReleaseBack
  <2>2. /\ pc'[t] \in {"idle", "releasing"}
        /\ \A u \in Thread \ {t} : \/ pc'[u] = pc[u]
                                   \/ pc[u] = "sleeping" /\ pc'[u] = "awake"
    BY <1>0, <1>4, Zenon DEF Keep, ReleaseKeep, Broadcast, GiveBack, ReleaseBack
  <2>3. Inside' = {} /\ Waiting' = Waiting
    BY <2>1, <2>2, Zenon
  <2> QED BY <2>1, <2>3, Zenon DEF Lock!Leave
<1>5. ASSUME NEW c \in Client, Flush(c) \/ Server(c) \/ Handler(c)
      PROVE  UNCHANGED <<Inside, Waiting>>
  <2>1. \A u \in Thread : \/ pc'[u] = pc[u]
                          \/ pc[u] = "sleeping" /\ pc'[u] = "awake"
    BY <1>0, <1>5, Zenon DEF Flush, Server, Handler, HandleAcquireFree, HandleAcquireExpected,
         HandleAcquireReserved, HandleAcquireHeld, AcquireReturn, HandleRelease, HandleReleaseFree,
         HandleReleaseNext, ReleaseReturn, HandleRevokeNow, RevokeNow, HandleRevokeLater,
         RevokeLater, HandleRevokeDone, RevokeDone, HandleRetryLater, RetryLater,
         HandleRetryNow, RetryNow, HandleRetryDone, RetryDone, Broadcast, clientVars
  <2> QED BY <2>1, Zenon
<1>6. CASE UNCHANGED vars
  BY <1>6, Zenon DEF vars, clientVars
<1>7. CASE Next
  <2>1. ASSUME NEW t \in Thread, Call(t) \/ Resume(t) \/ Wakeup(t) \/ Answer(t) \/
         Release(t)
        PROVE  [Lock!Next]_<<Inside, Waiting>>
    BY <1>1, <1>2, <1>3, <1>4, <2>1, Zenon DEF Call, Resume, Answer, Release, Lock!Next
  <2> QED BY <1>5, <1>7, <2>1, Zenon DEF Next
<1> QED BY <1>6, <1>7, Zenon

-----------------------------------------------------------------------------
(* The inductive invariant holds in every reachable state. *)
THEOREM Invariance == Spec => []IInv
<1> QED BY InitIInv, StepIInv, PTL DEF Spec

(* The types of the state of server, clients and RPCs. *)
THEOREM TypeCorrect == Spec => []TypeOK
<1>1. IInv => TypeOK
  BY Zenon DEF IInv
<1> QED BY <1>1, Invariance, PTL

(* However revokes, retries and answers interleave, two threads never hold the
   lock at once: acquire of lock_client_cache.cc is a mutual exclusion lock. *)
THEOREM MutualExclusionHolds == Spec => []MutualExclusion
<1> QED BY Consequences, Invariance, PTL

(* A client never uses or caches the lock without the server's grant. *)
THEOREM CachedIsHeldHolds == Spec => []CachedIsHeld
<1> QED BY Consequences, Invariance, PTL

(* No assert of the two files ever fails. *)
THEOREM NoAssertFails == Spec => []AssertsHold
<1> QED BY Consequences, Invariance, PTL

(* The server never queues a client twice, nor the holder. *)
THEOREM WaitersUniqueHolds == Spec => []WaitersUnique
<1>1. IInv => WaitersUnique
  BY Zenon DEF IInv
<1> QED BY <1>1, Invariance, PTL

(* A client has at most one acquire and one release RPC under way, so the
   answers of its calls cannot be confused. *)
THEOREM OneCallEachHolds == Spec => []OneCallEach
<1> QED BY Consequences, Invariance, PTL

(* The revoke that waiting clients depend on is never lost. *)
THEOREM RevokeNotLostHolds == Spec => []RevokeNotLost
<1> QED BY Consequences, Invariance, PTL

(* Server, clients and messages together implement the plain lock of
   LockService. *)
THEOREM Refinement == Spec => ImplementsLock
<1>1. Init => Lock!Init
  BY DEF Init, ClientInit, Lock!Init, Inside, Waiting
<1>2. IInv /\ [Next]_vars => [Lock!Next]_<<Inside, Waiting>>
  BY StepImplements, Zenon
<1> QED BY <1>1, <1>2, Invariance, PTL DEF Spec, ImplementsLock, Lock!Spec

-----------------------------------------------------------------------------
(* At most one handler of the lock server waits for a request that no thread of
   the server has taken yet (NestedOnce).  IInv alone does not say so: InvFirst
   adds that the acquire that revokes is the acquire of the client that is next. *)

First(a) == waiting_clients # <<>> /\ Head(waiting_clients) = a

(* The acquire of a revokes the holder for a itself: a is the first to wait
   until the holder's release is handled, and then the one that is told to
   retry.  (A client that is revoked by its own acquire is no holder yet.) *)
FirstRevoke(a) == acq[a] = "revoke" /\ acqDest[a] # a => First(a)
FirstRevoking(a) ==
  acq[a] = "revoking" =>
    /\ rel[acqDest[a]] \in {"flush", "sent"} => First(a)
    /\ rel[acqDest[a]] \in {"retry", "retrying", "retried"} => relDest[acqDest[a]] = a

InvFirst == \A a \in Client : FirstRevoke(a) /\ FirstRevoking(a)

(* The application threads start and end RPCs of their own only. *)
LEMMA ThreadFirst ==
  ASSUME IInv, InvFirst, NEW t \in Thread,
         Call(t) \/ Resume(t) \/ Wakeup(t) \/ Answer(t) \/ Release(t)
  PROVE  InvFirst'
<1> USE DEF InvFirst, FirstRevoke, FirstRevoking, First, IInv, TypeOK, ClientTypeOK
<1>1. ASSUME TakeCached(t) \/ Sleep(t) \/ Wakeup(t) \/ Keep(t)
      PROVE  InvFirst'
  BY <1>1, Zenon DEF TakeCached, Sleep, Wakeup, Keep, serverVars, rpcVars
<1>2. ASSUME Ask(t) \/ Granted(t) \/ Wait(t) \/ AskAgain(t) \/ GrantedAgain(t)
      PROVE  InvFirst'
  <2>1. /\ \E s \in {"none", "sent"} : acq' = [acq EXCEPT ![Home[t]] = s]
        /\ UNCHANGED <<waiting_clients, acqDest, rel, relDest>>
    BY <1>2, Zenon DEF Ask, Granted, Wait, AskAgain, GrantedAgain, CallAcquire, EndAcquire,
           ReCallAcquire, serverVars
  <2> QED BY <2>1, Zenon
<1>3. ASSUME GiveBack(t)
      PROVE  InvFirst'
  <2>1. /\ rel' = [rel EXCEPT ![Home[t]] = "flush"]
        /\ UNCHANGED <<waiting_clients, acq, acqDest, relDest>>
    BY <1>3, Zenon DEF GiveBack, CallRelease, serverVars
  <2>2. state[Home[t]] = "LOCKED"
    BY <1>3, Zenon DEF GiveBack, ReleaseBack, ReleaseAssertsClient
  <2>3. ASSUME NEW a \in Client, acq[a] = "revoking"
        PROVE  acqDest[a] # Home[t]
    BY <2>2, <2>3, Zenon DEF InvRevoking
  <2> QED BY <2>1, <2>3
<1>4. ASSUME GivenBack(t)
      PROVE  InvFirst'
  <2>1. /\ rel' = [rel EXCEPT ![Home[t]] = "none"]
        /\ UNCHANGED <<waiting_clients, acq, acqDest, relDest>>
    BY <1>4, Zenon DEF GivenBack, EndRelease, serverVars
  <2> QED BY <2>1
<1> QED BY <1>1, <1>2, <1>3, <1>4, Zenon DEF Call, Resume, Answer, Release

(* The server queues a client at the end, and serves the first one. *)
LEMMA ServerFirst ==
  ASSUME IInv, InvFirst, NEW c \in Client, Flush(c) \/ Server(c)
  PROVE  InvFirst'
<1> USE DEF InvFirst, FirstRevoke, FirstRevoking, First, IInv, TypeOK, ServerTypeOK
<1>1. ASSUME Flush(c) \/ ReleaseReturn(c) \/ AcquireReturn(c) \/ HandleReleaseFree(c)
      PROVE  InvFirst'
  <2>1. CASE Flush(c)
    BY <2>1 DEF Flush, serverVars
  <2>2. CASE ReleaseReturn(c)
    BY <2>2 DEF ReleaseReturn, serverVars
  <2>3. CASE AcquireReturn(c)
    BY <2>3, Zenon DEF AcquireReturn, serverVars
  <2>4. CASE HandleReleaseFree(c)
    <3>1. /\ rel' = [rel EXCEPT ![c] = "replied"]
          /\ UNCHANGED <<waiting_clients, acq, acqDest, relDest>>
      BY <2>4, Zenon DEF HandleReleaseFree, SrvReleaseFree
    <3> QED BY <3>1
  <2> QED BY <1>1, <2>1, <2>2, <2>3, <2>4, Zenon
<1>2. ASSUME HandleAcquireFree(c) \/ HandleAcquireExpected(c)
      PROVE  InvFirst'
  BY <1>2 DEF HandleAcquireFree, SrvAcquireFree, HandleAcquireExpected, SrvAcquireExpected,
         ReplyAcquire, RevokeFrom
<1>3. ASSUME HandleAcquireReserved(c) \/ HandleAcquireHeld(c)
      PROVE  InvFirst'
  <2>1. waiting_clients' = Append(waiting_clients, c)
    BY <1>3, Zenon DEF HandleAcquireReserved, SrvAcquireReserved, HandleAcquireHeld, SrvAcquireHeld
  <2>2. \A a \in Client : First(a) => First(a)'
    BY <2>1
  <2>3. waiting_clients = <<>> => First(c)'
    BY <2>1
  <2>4. CASE acq' = [acq EXCEPT ![c] = "replied"] /\ UNCHANGED <<acqDest, rel, relDest>>
    BY <2>2, <2>4, Zenon
  <2>5. CASE /\ waiting_clients = <<>>
             /\ acq' = [acq EXCEPT ![c] = "revoke"]
             /\ acqDest' = [acqDest EXCEPT ![c] = holding_client]
             /\ UNCHANGED <<rel, relDest>>
    BY <2>2, <2>3, <2>5, Zenon
  <2> QED BY <1>3, <2>4, <2>5, Zenon DEF HandleAcquireReserved, HandleAcquireHeld, ReplyAcquire,
         RevokeFrom, SrvAcquireHeld, InvServer
<1>4. ASSUME HandleReleaseNext(c)
      PROVE  InvFirst'
  <2>1. /\ rel[c] = "sent" /\ First(Head(waiting_clients)) /\ Holds(c)
        /\ rel' = [rel EXCEPT ![c] = "retry"]
        /\ relDest' = [relDest EXCEPT ![c] = Head(waiting_clients)]
        /\ UNCHANGED <<acq, acqDest>>
    BY <1>4, Zenon DEF HandleReleaseNext, SrvReleaseNext, ReleaseAsserts, Holds
  <2>2. state[c] = "RELEASING"
    BY <2>1, ReleasingClient, Zenon
  <2>3. ASSUME NEW a \in Client PROVE acq[a] # "revoke"
    BY <2>1, <2>2, <2>3, Zenon DEF InvRevoke, Holds
  <2>4. ASSUME NEW a \in Client, acq[a] = "revoking", acqDest[a] # c
        PROVE  acqDest[a] \in Client /\ rel[acqDest[a]] \notin {"flush", "sent"}
    BY <2>1, <2>4, Zenon DEF InvRevoking, InvClient, InvReleasing, Holds
  <2> QED BY <2>1, <2>3, <2>4
<1> QED BY <1>1, <1>2, <1>3, <1>4, Zenon DEF Server, HandleRelease

(* revoke_handler gives the lock back for the client that is next. *)
LEMMA HandlerFirst ==
  ASSUME IInv, InvFirst, NEW c \in Client, Handler(c)
  PROVE  InvFirst'
<1> USE DEF InvFirst, FirstRevoke, FirstRevoking, First, IInv, TypeOK
<1>1. ASSUME HandleRevokeNow(c)
      PROVE  InvFirst'
  <2>1. /\ acq[c] = "revoke" /\ state[acqDest[c]] = "OWNED"
        /\ acq' = [acq EXCEPT ![c] = "revoking"]
        /\ rel' = [rel EXCEPT ![acqDest[c]] = "flush"]
        /\ UNCHANGED <<waiting_clients, acqDest, relDest>>
    BY <1>1, Zenon DEF HandleRevokeNow, RevokeNow, serverVars
  <2>2. acqDest[c] \in Client /\ acqDest[c] # c
    BY <2>1 DEF InvRevoke, InvServer, Holds, InvClient, InvOwned
  <2>3. First(c)
    BY <2>1, <2>2, Zenon
  <2>4. ASSUME NEW a \in Client, acq[a] = "revoking"
        PROVE  acqDest[a] # acqDest[c]
    BY <2>1, <2>4, Zenon DEF InvRevoking
  <2>5. ASSUME NEW a \in Client, a # c, acq[a] = "revoking"
        PROVE  rel'[acqDest[a]] = rel[acqDest[a]]
    BY <2>1, <2>4, <2>5, Zenon DEF InvRevoking
  <2> QED BY <2>1, <2>2, <2>3, <2>5
<1>2. ASSUME HandleRevokeLater(c)
      PROVE  InvFirst'
  BY <1>2, Zenon DEF HandleRevokeLater, serverVars
<1>3. ASSUME HandleRevokeDone(c)
      PROVE  InvFirst'
  <2>1. /\ acq[c] = "revoking"
        /\ acq' = [acq EXCEPT ![c] = "revoked"]
        /\ rel' = [rel EXCEPT ![acqDest[c]] = "none"]
        /\ UNCHANGED <<waiting_clients, acqDest, relDest>>
    BY <1>3, Zenon DEF HandleRevokeDone, serverVars
  <2>2. ASSUME NEW a \in Client, acq[a] = "revoking"
        PROVE  rel'[acqDest[a]] \in {rel[acqDest[a]], "none"}
    BY <2>1, <2>2, Zenon DEF InvRevoking
  <2> QED BY <2>1, <2>2, Zenon
<1>4. ASSUME HandleRetryLater(c) \/ HandleRetryNow(c) \/ HandleRetryDone(c)
      PROVE  InvFirst'
  <2>1. /\ rel[c] \in {"retry", "retrying"}
        /\ \E s \in {"retrying", "retried"} : rel' = [rel EXCEPT ![c] = s]
        /\ UNCHANGED <<waiting_clients, acqDest, relDest>>
    BY <1>4, Zenon DEF HandleRetryLater, HandleRetryNow, HandleRetryDone, serverVars
  <2>2. \A a \in Client : acq'[a] = acq[a] \/ acq'[a] \in {"none", "sent"}
    BY <1>4 DEF HandleRetryLater, HandleRetryNow, HandleRetryDone
  <2> QED BY <2>1, <2>2
<1> QED BY <1>1, <1>2, <1>3, <1>4, Zenon DEF Handler

(* InvFirst is inductive, given IInv. *)
LEMMA StepFirst ==
  ASSUME IInv, InvFirst, [Next]_vars
  PROVE  InvFirst'
<1>1. CASE UNCHANGED vars
  BY <1>1, Zenon DEF InvFirst, FirstRevoke, FirstRevoking, First, vars, serverVars, rpcVars
<1> QED BY <1>1, ThreadFirst, ServerFirst, HandlerFirst, Zenon DEF Next

-----------------------------------------------------------------------------
(* While a release waits for the acquire of a retry handler the lock is
   reserved, while an acquire waits for the release of a revoke handler it is
   held, and the first client in line is not at rest: no two handlers wait. *)
LEMMA NestedConsequence ==
  ASSUME IInv, InvFirst
  PROVE  NestedOnce
<1> USE DEF IInv, TypeOK
<1>1. ASSUME NEW c \in Client, NestedRelease(c)
      PROVE  rel[c] = "retrying" /\ Expected(relDest[c]) /\ state[relDest[c]] = "WAITING"
  BY <1>1, Zenon DEF NestedRelease, InvRetrying, InvClient, InvWaiting
<1>2. ASSUME NEW c \in Client, acq[c] = "revoking"
      PROVE  ~NestedRelease(acqDest[c])
  <2>1. acqDest[c] \in Client /\ state[c] = "ACQUIRING"
    BY <1>2, AcquiringClient, Zenon DEF InvRevoking, InvWaiting
  <2>2. ASSUME NestedRelease(acqDest[c])
        PROVE  FALSE
    <3>1. relDest[acqDest[c]] = c
      BY <1>2, <2>2, Zenon DEF InvFirst, FirstRevoking, NestedRelease
    <3> QED BY <1>1, <2>1, <2>2, <3>1, Zenon
  <2> QED BY <2>2, Zenon
<1>3. ASSUME NEW c \in Client, NestedAcquire(c)
      PROVE  acq[c] = "revoking" /\ Holds(acqDest[c])
  BY <1>2, <1>3, Zenon DEF NestedAcquire, InvRevoking, InvClient, InvReleasing
<1>4. \A c, d \in Client : NestedRelease(c) /\ NestedRelease(d) => c = d
  BY <1>1 DEF Expected, InvRetrying
<1>5. \A c, d \in Client : NestedAcquire(c) /\ NestedAcquire(d) => c = d
  BY <1>3 DEF Holds, InvRevoking
<1>6. \A c, d \in Client : ~(NestedAcquire(c) /\ NestedRelease(d))
  BY <1>1, <1>3, Zenon DEF Holds, Expected
<1> QED BY <1>4, <1>5, <1>6, Zenon DEF NestedOnce, Nested

(* At most one handler of the server waits for a request that has no thread yet:
   dispatch threads are never used up by one lock, however many clients and
   threads contend for it. *)
THEOREM NestedOnceHolds == Spec => []NestedOnce
<1>1. Init => InvFirst
  BY Zenon DEF Init, InvFirst, FirstRevoke, FirstRevoking
<1>2. IInv /\ InvFirst /\ [Next]_vars => InvFirst'
  BY StepFirst, Zenon
<1>3. IInv /\ InvFirst => NestedOnce
  BY NestedConsequence, Zenon
<1> QED BY <1>1, <1>2, <1>3, Invariance, PTL DEF Spec
=============================================================================
