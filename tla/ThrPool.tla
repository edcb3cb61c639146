------------------------------- MODULE ThrPool -------------------------------
(***************************************************************************)
(* The thread pool of an RPC server (rpc/thr_pool.cc) and its bounded      *)
(* queue (rpc/fifo.h): rpcs makes one of 6 threads, whose addJob does not  *)
(* block.  The mutex and the condition variables of fifo make enq and deq  *)
(* one step each.                                                          *)
(***************************************************************************)
EXTENDS Naturals, Sequences, FiniteSets

CONSTANTS Job,        \* what addObjJob may be given
          nthreads,   \* nthreads_
          max         \* max_ of the queue, 100 * nthreads_

ASSUME PoolAssumption == nthreads \in Nat \ {0} /\ max \in Nat \ {0}

VARIABLES jobq,       \* jobq_
          busy        \* the jobs that worker threads are in

poolVars == <<jobq, busy>>

poolTypeOK == jobq \in Seq(Job) /\ busy \subseteq Job
poolInit == jobq = <<>> /\ busy = {}

(* fifo::enq without blocking, when the queue is not full. *)
addJob(j) ==
  /\ Len(jobq) < max
  /\ jobq' = Append(jobq, j)
  /\ UNCHANGED busy

(* A worker waits in deq. *)
IdleWorkerMutant == Cardinality(busy) + 1 < nthreads
IdleWorker == Cardinality(busy) < nthreads

takeJob ==
  /\ IdleWorker
  /\ jobq # <<>>
  /\ busy' = busy \cup {Head(jobq)}
  /\ jobq' = Tail(jobq)

(* The worker goes on to the next takeJob. *)
JobReturns(j) == busy' = busy \ {j}
=============================================================================
