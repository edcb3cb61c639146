------------------------- MODULE LockDispatchProofs -------------------------
(***************************************************************************)
(* The pool of the lock server suffices for two locks, for every number of *)
(* clients and threads and every pool of three threads or more: each lock  *)
(* behaves as LockCache, where at most one handler waits for a thread.     *)
(***************************************************************************)
EXTENDS LockDispatch, LockCacheProofs, FiniteSetTheorems

(* Every step of the composition is a step of lock a or leaves it alone. *)
LEMMA StepA == DispatchNext => [Next]_vars
<1> SUFFICES ASSUME DispatchNext PROVE Next \/ UNCHANGED vars
  OBVIOUS
<1>1. CASE Application
  BY <1>1 DEF Application, Next
<1>2. CASE ClientsA
  BY <1>2 DEF ClientsA, Next
<1>3. CASE ClientsB \/ TakeJob
  BY <1>3 DEF ClientsB, TakeJob
<1>4. ASSUME NEW j \in Job, GotPdu(j) \/ Worker(j)
      PROVE  Next \/ UNCHANGED vars
  <2>1. CASE GotPdu(j)
    BY <2>1 DEF GotPdu
  <2>2. CASE Worker(j) /\ j[1] # "a"
    BY <2>2 DEF Worker
  <2>3. CASE Worker(j) /\ j[1] = "a"
    <3>1. j[3] \in Client
      BY DispatchAssumption DEF Request
    <3>2. RunAcquire(j[3]) \/ RunRelease(j[3])
      BY <2>3 DEF Worker
    <3> QED BY <3>1, <3>2 DEF RunAcquire, RunRelease, Next, Server
  <2> QED BY <1>4, <2>1, <2>2, <2>3
<1> QED BY <1>1, <1>2, <1>3, <1>4 DEF DispatchNext

(* The same of lock b. *)
LEMMA StepB == DispatchNext => [B!Next]_varsB
<1> SUFFICES ASSUME DispatchNext PROVE B!Next \/ UNCHANGED varsB
  OBVIOUS
<1>1. CASE Application
  BY <1>1 DEF Application, B!Next
<1>2. CASE ClientsB
  BY <1>2 DEF ClientsB, B!Next
<1>3. CASE ClientsA \/ TakeJob
  BY <1>3 DEF ClientsA, TakeJob
<1>4. ASSUME NEW j \in Job, GotPdu(j) \/ Worker(j)
      PROVE  B!Next \/ UNCHANGED varsB
  <2>1. CASE GotPdu(j)
    BY <2>1 DEF GotPdu
  <2>2. CASE Worker(j) /\ j[1] = "a"
    BY <2>2 DEF Worker
  <2>3. CASE Worker(j) /\ j[1] # "a"
    <3>1. j[3] \in Client
      BY DispatchAssumption DEF Request
    <3>2. B!Server(j[3])
      BY <2>3 DEF Worker, B!Server
    <3> QED BY <3>1, <3>2 DEF B!Next
  <2> QED BY <1>4, <2>1, <2>2, <2>3
<1> QED BY <1>1, <1>2, <1>3, <1>4 DEF DispatchNext

(* A worker is added at a time, so finitely many are busy. *)
LEMMA StepFinite ==
  ASSUME IsFiniteSet(busy), [DispatchNext]_allVars
  PROVE  IsFiniteSet(busy)'
<1>1. CASE UNCHANGED busy
  BY <1>1
<1>2. CASE TakeJob
  <2>1. busy' = busy \cup {Head(jobq)}
    BY <1>2 DEF TakeJob, takeJob
  <2> QED BY <2>1, FS_AddElement
<1>3. ASSUME NEW j \in Job, Worker(j)
      PROVE  IsFiniteSet(busy)'
  <2>1. busy' = busy \/ busy' = busy \ {j}
    BY <1>3 DEF Worker, JobReturns
  <2> QED BY <2>1, FS_RemoveElement
<1>4. CASE Application \/ ClientsA \/ ClientsB \/ UNCHANGED allVars
  BY <1>1, <1>4 DEF Application, ClientsA, ClientsB, allVars, poolVars
<1>5. ASSUME NEW j \in Job, GotPdu(j)
      PROVE  IsFiniteSet(busy)'
  BY <1>1, <1>5 DEF GotPdu, addJob
<1> QED BY <1>2, <1>3, <1>4, <1>5 DEF DispatchNext

(* Of three busy workers, one is in no nested call. *)
LEMMA PoolLarge ==
  ASSUME IsFiniteSet(busy), NestedOnce, B!NestedOnce
  PROVE  PoolSuffices
<1> SUFFICES ASSUME ~IdleWorker, \A j \in busy : NestedJob(j)
             PROVE  FALSE
  BY DEF PoolSuffices
<1>1. \A j, k \in busy : j[1] = "a" /\ k[1] = "a" => j = k
  BY DEF NestedJob, NestedOnce
<1>2. \A j, k \in busy : j[1] # "a" /\ k[1] # "a" => j = k
  BY DEF NestedJob, B!NestedOnce
<1>3. PICK x, y : busy \subseteq {x, y}
  BY <1>1, <1>2
<1>4. IsFiniteSet({x, y}) /\ Cardinality({x, y}) <= 2
  <2>1. IsFiniteSet({x}) /\ Cardinality({x}) = 1
    BY FS_Singleton
  <2>2. {x, y} = {x} \cup {y}
    OBVIOUS
  <2> QED BY <2>1, <2>2, FS_AddElement
<1>5. Cardinality(busy) \in Nat /\ Cardinality(busy) <= Cardinality({x, y})
  BY <1>3, <1>4, FS_Subset, FS_CardinalityType
<1> QED BY <1>4, <1>5, FS_CardinalityType, PoolAssumption, DispatchAssumption DEF IdleWorker

(* Whatever the interleaving of the two locks, a request in the queue of the
   server never waits for a thread that itself waits for a queued request: the
   ThrPool of rpcs is not exhausted by nested calls. *)
THEOREM PoolSufficesHolds == DispatchSpec => []PoolSuffices
<1>1. DispatchInit => Init /\ B!Init /\ IsFiniteSet(busy)
  BY FS_EmptySet DEF DispatchInit, poolInit
<1>2. UNCHANGED varsB => UNCHANGED B!vars
  BY DEF varsB, B!vars, B!serverVars, B!clientVars, B!rpcVars
<1>3. [DispatchNext]_allVars => [Next]_vars /\ [B!Next]_B!vars
  BY <1>2, StepA, StepB DEF allVars
<1>4. DispatchSpec => Spec
  BY <1>1, <1>3, PTL DEF DispatchSpec, Spec
<1>5. DispatchSpec => B!Spec
  BY <1>1, <1>3, PTL DEF DispatchSpec, B!Spec
<1>6. DispatchSpec => []IsFiniteSet(busy)
  BY <1>1, StepFinite, PTL DEF DispatchSpec
<1>7. B!Spec => []B!NestedOnce
  BY B!NestedOnceHolds, NoClientAssumption, HomeAssumption
<1> QED BY <1>4, <1>5, <1>6, <1>7, NestedOnceHolds, PoolLarge, PTL
=============================================================================
