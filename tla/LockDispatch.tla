---------------------------- MODULE LockDispatch -----------------------------
(***************************************************************************)
(* Two locks, a and b, of one caching lock server whose handlers run on    *)
(* the threads of one pool.  A handler that calls a client keeps its       *)
(* thread until the client has answered, and the client may call the       *)
(* server first.  Lock a is LockCache, lock b an instance of it: the       *)
(* server and the clients keep a record for each lock.                     *)
(***************************************************************************)
EXTENDS LockCache, ThrPool

VARIABLES srvStateB, holding_clientB, send_rpcB, waiting_clientsB,
          stateB, pendingB, pcB, acqB, acqRetB, acqDestB, relB, relDestB

B == INSTANCE LockCacheProofs WITH      \* LockCache and what is proved of it
  srvState <- srvStateB, holding_client <- holding_clientB, send_rpc <- send_rpcB,
  waiting_clients <- waiting_clientsB, state <- stateB, pending <- pendingB, pc <- pcB,
  acq <- acqB, acqRet <- acqRetB, acqDest <- acqDestB, rel <- relB, relDest <- relDestB

varsB == <<srvStateB, holding_clientB, send_rpcB, waiting_clientsB,
           stateB, pendingB, pcB, acqB, acqRetB, acqDestB, relB, relDestB>>
allVars == <<vars, varsB, poolVars>>

(* A request is known by its lock, its procedure and its client. *)
Request == {"a", "b"} \X {"acquire", "release"} \X Client

ASSUME DispatchAssumption ==
  /\ Job = Request
  /\ nthreads > 2                         \* one more than there are locks
  /\ max >= Cardinality(Request)

DispatchTypeOK == TypeOK /\ B!TypeOK /\ poolTypeOK

DispatchInit == Init /\ B!Init /\ poolInit

Stage(j) ==
  IF j[2] = "acquire" THEN (IF j[1] = "a" THEN acq ELSE acqB)[j[3]]
  ELSE (IF j[1] = "a" THEN rel ELSE relB)[j[3]]

InQueue == {jobq[i] : i \in DOMAIN jobq}

(* got_pdu of the server: the request arrives. *)
GotPdu(j) ==
  /\ Stage(j) = "sent" /\ j \notin InQueue \cup busy
  /\ addJob(j)
  /\ UNCHANGED <<vars, varsB>>

TakeJob == takeJob /\ UNCHANGED <<vars, varsB>>

(* The handlers of the server run in a worker, until they reply. *)
RunAcquire(c) ==
  \/ HandleAcquireFree(c) \/ HandleAcquireExpected(c) \/ HandleAcquireReserved(c)
  \/ HandleAcquireHeld(c) \/ AcquireReturn(c)

RunRelease(c) == HandleRelease(c) \/ ReleaseReturn(c)

Worker(j) ==
  /\ j \in busy
  /\ IF j[1] = "a"
     THEN (IF j[2] = "acquire" THEN RunAcquire(j[3]) ELSE RunRelease(j[3])) /\ UNCHANGED varsB
     ELSE (IF j[2] = "acquire" THEN B!HandleAcquireFree(j[3]) \/ B!HandleAcquireExpected(j[3])
                                    \/ B!HandleAcquireReserved(j[3]) \/ B!HandleAcquireHeld(j[3])
                                    \/ B!AcquireReturn(j[3])
           ELSE B!HandleRelease(j[3]) \/ B!ReleaseReturn(j[3])) /\ UNCHANGED vars
  /\ IF Stage(j)' = "replied" THEN JobReturns(j) ELSE UNCHANGED busy
  /\ UNCHANGED jobq

(* The threads of the clients that are in no call of the server. *)
Application ==
  /\ \/ /\ \E t \in Thread : Call(t) \/ Resume(t) \/ Wakeup(t) \/ Release(t)
        /\ UNCHANGED varsB
     \/ /\ \E t \in Thread : B!Call(t) \/ B!Resume(t) \/ B!Wakeup(t) \/ B!Release(t)
        /\ UNCHANGED vars
  /\ UNCHANGED poolVars

(* Threads that are in one, and the handlers of revoke and retry. *)
ClientsA ==
  /\ \/ \E t \in Thread : Answer(t)
     \/ \E c \in Client : Flush(c) \/ Handler(c)
  /\ UNCHANGED <<varsB, poolVars>>

ClientsB ==
  /\ \/ \E t \in Thread : B!Answer(t)
     \/ \E c \in Client : B!Flush(c) \/ B!Handler(c)
  /\ UNCHANGED <<vars, poolVars>>

DispatchNext ==
  \/ Application \/ ClientsA \/ ClientsB
  \/ TakeJob
  \/ \E j \in Job : GotPdu(j) \/ Worker(j)

(* The pool, its handlers and whoever waits for them run; applications may do
   nothing, and nothing is owed to a thread that sleeps. *)
DispatchSpec ==
  /\ DispatchInit /\ [][DispatchNext]_allVars
  /\ WF_allVars(ClientsA) /\ WF_allVars(ClientsB)
  /\ WF_allVars(TakeJob)
  /\ \A l \in {"a", "b"} : WF_allVars(\E j \in Job : j[1] = l /\ (GotPdu(j) \/ Worker(j)))

-----------------------------------------------------------------------------
(* The handler of j waits for a client whose own call has no thread yet. *)
NestedJob(j) ==
  j \in (IF j[1] = "a" THEN {<<"a", h[1], h[2]>> : h \in Nested}
         ELSE {<<"b", h[1], h[2]>> : h \in B!Nested})

(* Nested calls never use the pool up: while a request waits in the queue there
   is a thread that is idle, or one whose handler needs no other thread to
   return. *)
PoolSuffices == jobq # <<>> => IdleWorker \/ \E j \in busy : ~NestedJob(j)

(* Every request of lock a is answered, whatever the applications do with the
   locks they have and whatever threads lock b has taken.  The same then holds of
   b: nothing above tells the two apart. *)
AllAnswered ==
  \A j \in Job : j[1] = "a" => (Stage(j) # "none" ~> Stage(j) \in {"none", "replied"})
=============================================================================
