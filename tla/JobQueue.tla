------------------------------ MODULE JobQueue ------------------------------
(***************************************************************************)
(* What WorkerPool (src/src/worker_pool.cpp) promises its client: jobs     *)
(* start in the order they were submitted, each is run once by one of the  *)
(* workers, and after shutdown the workers leave only when the queue is    *)
(* drained.  The pool's mutex and condition variable are not visible here. *)
(***************************************************************************)
EXTENDS Integers, Sequences, FiniteSets

CONSTANTS Workers,   \* workers_
          Jobs,      \* the std::function<void()> values a client may submit
          NoJob      \* what a worker holds between two jobs

VARIABLES jobs,      \* jobs_, the FIFO queue
          stopping,  \* stopping_
          worker,    \* worker -> "idle", "busy" or "exited"
          active     \* worker -> the job it is running

poolVars == <<jobs, stopping, worker, active>>

PoolInit ==
  /\ jobs = <<>>
  /\ stopping = FALSE
  /\ worker = [w \in Workers |-> "idle"]
  /\ active = [w \in Workers |-> NoJob]

\* submit(job); on a stopped pool it throws instead.
Submit(j) ==
  /\ ~stopping
  /\ jobs' = Append(jobs, j)
  /\ UNCHANGED <<stopping, worker, active>>

\* A mistake to detect: the job is read but never popped.
NotPopped == jobs

\* jobs_.pop()
Popped == Tail(jobs)

\* worker_loop takes the front job and releases the pool's mutex.
Take(w) ==
  /\ worker[w] = "idle"
  /\ jobs # <<>>
  /\ active' = [active EXCEPT ![w] = Head(jobs)]
  /\ jobs' = Popped
  /\ worker' = [worker EXCEPT ![w] = "busy"]
  /\ UNCHANGED stopping

\* job() returns.
Return(w) ==
  /\ worker[w] = "busy"
  /\ worker' = [worker EXCEPT ![w] = "idle"]
  /\ active' = [active EXCEPT ![w] = NoJob]
  /\ UNCHANGED <<jobs, stopping>>

\* The first call of shutdown.
Stop ==
  /\ ~stopping
  /\ stopping' = TRUE
  /\ UNCHANGED <<jobs, worker, active>>

\* worker_loop returns.
Exit(w) ==
  /\ worker[w] = "idle"
  /\ stopping
  /\ jobs = <<>>
  /\ worker' = [worker EXCEPT ![w] = "exited"]
  /\ UNCHANGED <<jobs, stopping, active>>

\* Every thread shutdown joins has ended.
Joined == \A w \in Workers : worker[w] = "exited"

WorkerStep(w) == Take(w) \/ Return(w) \/ Exit(w)

PoolNext ==
  \/ \E j \in Jobs : Submit(j)
  \/ \E w \in Workers : WorkerStep(w)
  \/ Stop

\* What may happen in a pool.
PoolSafety == PoolInit /\ [][PoolNext]_poolVars

\* Workers keep working as long as there is something to do.
PoolSpec ==
  /\ PoolSafety
  /\ \A w \in Workers : WF_poolVars(WorkerStep(w))
=============================================================================
