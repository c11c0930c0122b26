----------------------------- MODULE WorkerPool -----------------------------
(***************************************************************************)
(* WorkerPool (src/src/worker_pool.cpp) with its mutex and its condition   *)
(* variable.  One client thread runs the constructor, which may fail to    *)
(* create a thread, and then calls submit, shutdown and the destructor in  *)
(* any order the interface allows; the workers run worker_loop.            *)
(***************************************************************************)
EXTENDS Integers, Sequences, FiniteSets

CONSTANTS Workers,   \* workers_
          Jobs,      \* the jobs the client may submit, each at most once
          NoJob,     \* what a worker holds between two jobs
          Nobody,    \* the mutex is free
          ThreadsMayFail   \* std::thread may throw system_error

ASSUME WorkerPoolAssumption ==
  /\ IsFiniteSet(Workers)
  /\ Workers # {}
  /\ NoJob \notin Jobs
  /\ Nobody \notin Workers
  /\ ThreadsMayFail \in BOOLEAN

VARIABLES
  jobs,        \* jobs_
  stopping,    \* stopping_
  mutex,       \* the worker that holds mutex_, or Nobody
  worker_pc,   \* worker -> where it is in worker_loop
  active,      \* worker -> the local job of worker_loop
  client_pc,   \* where the client thread is in the pool's functions
  accepted,    \* the jobs submit has returned for
  rejected,    \* the jobs submit has thrown for
  finished     \* the jobs that have run

vars == <<jobs, stopping, mutex, worker_pc, active, client_pc, accepted,
          rejected, finished>>

Init ==
  /\ jobs = <<>>
  /\ stopping = FALSE
  /\ mutex = Nobody
  /\ worker_pc = [w \in Workers |-> "none"]
  /\ active = [w \in Workers |-> NoJob]
  /\ client_pc = "construct"
  /\ accepted = {}
  /\ rejected = {}
  /\ finished = {}

In(pc) == {w \in Workers : worker_pc[w] = pc}

-----------------------------------------------------------------------------
\* A mistake to detect: no lock is taken.
MutexIgnored == TRUE

MutexFree == mutex = Nobody

\* A mistake to detect: the notification is missing.
WakeNobody(S) == UNCHANGED worker_pc

\* The sleeping workers in S return from their wait.
Wake(S) == worker_pc' = [w \in Workers |-> IF w \in S THEN "lock"
                                           ELSE worker_pc[w]]

\* A mistake to detect: the job is read but never popped.
NotPopped == jobs

\* jobs_.pop()
Popped == Tail(jobs)

\* A mistake to detect: a stopping pool abandons its queue.
LeavesWhenStopping == stopping

\* The return condition of worker_loop.
MayLeave == stopping /\ jobs = <<>>

\* A mistake to detect: the exception is passed on with threads running.
ThreadsForgotten == TRUE

\* The vector workers_ holds no joinable thread.
NoThreadYet == In("none") = Workers

\* The constructor starts one thread, which enters worker_loop at once, while
\* the others are still to be created.
SpawnThread(w) ==
  /\ client_pc = "construct"
  /\ worker_pc[w] = "none"
  /\ worker_pc' = [worker_pc EXCEPT ![w] = "lock"]
  /\ client_pc' = IF In("none") = {w} THEN "idle" ELSE "construct"
  /\ UNCHANGED <<jobs, stopping, mutex, active, accepted, rejected, finished>>

\* std::thread throws: the members are destroyed in reverse order.
SpawnFails ==
  /\ ThreadsMayFail
  /\ client_pc = "construct"
  /\ client_pc' = "unwind"
  /\ UNCHANGED <<jobs, stopping, mutex, worker_pc, active, accepted, rejected,
                 finished>>

\* condition_ is destroyed first, and pthread_cond_destroy waits for as long
\* as a thread sleeps on it.  Then workers_ is: a joinable thread in it calls
\* std::terminate, and only without one does the exception reach run().
UnwindConstructor ==
  /\ client_pc = "unwind"
  /\ In("blocked") = {}
  /\ client_pc' = IF NoThreadYet THEN "threw" ELSE "terminated"
  /\ UNCHANGED <<jobs, stopping, mutex, worker_pc, active, accepted, rejected,
                 finished>>

\* The client.  Its critical sections do nothing that can block, so each is
\* one step, taken when no worker holds the mutex.

Enter(from, to) ==
  /\ MutexFree
  /\ client_pc = from
  /\ client_pc' = to
  /\ UNCHANGED <<mutex, worker_pc, active, finished>>

\* submit pushes the job; the notification follows outside the lock.
SubmitPush(j) ==
  /\ j \notin accepted \cup rejected
  /\ ~stopping
  /\ Enter("idle", "notify_one")
  /\ jobs' = Append(jobs, j)
  /\ accepted' = accepted \cup {j}
  /\ UNCHANGED <<stopping, rejected>>

\* submit throws: the pool is stopped.
SubmitThrow(j) ==
  /\ j \notin accepted \cup rejected
  /\ stopping
  /\ Enter("idle", "idle")
  /\ rejected' = rejected \cup {j}
  /\ UNCHANGED <<jobs, stopping, accepted>>

\* notify_one wakes one of the sleeping workers, if there is one.
NotifyOne ==
  /\ client_pc = "notify_one"
  /\ client_pc' = "idle"
  /\ IF In("blocked") = {} THEN UNCHANGED worker_pc
     ELSE \E w \in In("blocked") : Wake({w})
  /\ UNCHANGED <<jobs, stopping, mutex, active, accepted, rejected, finished>>

\* The first call of shutdown.
ShutdownStop ==
  /\ ~stopping
  /\ Enter("idle", "notify_all")
  /\ stopping' = TRUE
  /\ UNCHANGED <<jobs, accepted, rejected>>

NotifyAll ==
  /\ client_pc = "notify_all"
  /\ client_pc' = "join"
  /\ Wake(In("blocked"))
  /\ UNCHANGED <<jobs, stopping, mutex, active, accepted, rejected, finished>>

\* The last join of shutdown returns.
JoinAll ==
  /\ client_pc = "join"
  /\ In("exited") = Workers
  /\ client_pc' = "idle"
  /\ UNCHANGED <<jobs, stopping, mutex, worker_pc, active, accepted, rejected,
                 finished>>

\* The destructor after shutdown: its own call of shutdown returns at once and
\* the joined threads are destroyed.  Without an earlier shutdown the
\* destructor makes the first call itself.
Destroy ==
  /\ stopping
  /\ Enter("idle", "destroyed")
  /\ UNCHANGED <<jobs, stopping, accepted, rejected>>

-----------------------------------------------------------------------------
\* The workers.

\* Acquire the mutex, on entry to the loop or when the wait returns.
Lock(w) ==
  /\ worker_pc[w] = "lock"
  /\ MutexFree
  /\ mutex' = w
  /\ worker_pc' = [worker_pc EXCEPT ![w] = "test"]
  /\ UNCHANGED <<jobs, stopping, active, client_pc, accepted, rejected,
                 finished>>

\* The wait predicate holds and there is a job.
Take(w) ==
  /\ worker_pc[w] = "test"
  /\ jobs # <<>>
  /\ active' = [active EXCEPT ![w] = Head(jobs)]
  /\ jobs' = Popped
  /\ worker_pc' = [worker_pc EXCEPT ![w] = "run"]
  /\ mutex' = Nobody
  /\ UNCHANGED <<stopping, client_pc, accepted, rejected, finished>>

\* The wait predicate holds because the pool stops and nothing is left.
Leave(w) ==
  /\ worker_pc[w] = "test"
  /\ MayLeave
  /\ worker_pc' = [worker_pc EXCEPT ![w] = "exited"]
  /\ mutex' = Nobody
  /\ UNCHANGED <<jobs, stopping, active, client_pc, accepted, rejected,
                 finished>>

\* The wait predicate is false; the mutex is still held.
Refuse(w) ==
  /\ worker_pc[w] = "test"
  /\ ~stopping
  /\ jobs = <<>>
  /\ worker_pc' = [worker_pc EXCEPT ![w] = "block"]
  /\ UNCHANGED <<jobs, stopping, mutex, active, client_pc, accepted, rejected,
                 finished>>

\* Release the mutex and fall asleep, as one step.
Block(w) ==
  /\ worker_pc[w] = "block"
  /\ worker_pc' = [worker_pc EXCEPT ![w] = "blocked"]
  /\ mutex' = Nobody
  /\ UNCHANGED <<jobs, stopping, active, client_pc, accepted, rejected,
                 finished>>

SpuriousWakeup(w) ==
  /\ worker_pc[w] = "blocked"
  /\ client_pc # "terminated"
  /\ worker_pc' = [worker_pc EXCEPT ![w] = "lock"]
  /\ UNCHANGED <<jobs, stopping, mutex, active, client_pc, accepted, rejected,
                 finished>>

\* job() returns.
RunJob(w) ==
  /\ worker_pc[w] = "run"
  /\ finished' = finished \cup {active[w]}
  /\ active' = [active EXCEPT ![w] = NoJob]
  /\ worker_pc' = [worker_pc EXCEPT ![w] = "lock"]
  /\ UNCHANGED <<jobs, stopping, mutex, client_pc, accepted, rejected>>

-----------------------------------------------------------------------------
\* What the client does once it is inside a function of the pool.
ClientReturns ==
  \/ \E w \in Workers : SpawnThread(w)
  \/ UnwindConstructor
  \/ NotifyOne
  \/ NotifyAll
  \/ JoinAll

ClientCalls ==
  \/ \E j \in Jobs : SubmitPush(j) \/ SubmitThrow(j)
  \/ ShutdownStop
  \/ Destroy

WorkerLoop(w) ==
  /\ client_pc # "terminated"
  /\ Lock(w) \/ Take(w) \/ Leave(w) \/ Refuse(w) \/ Block(w) \/ RunJob(w)

\* The object is gone.
Destroyed ==
  /\ client_pc \in {"destroyed", "threw", "terminated"}
  /\ UNCHANGED vars

Next ==
  \/ ClientCalls
  \/ ClientReturns
  \/ SpawnFails
  \/ \E w \in Workers : WorkerLoop(w) \/ SpuriousWakeup(w)
  \/ Destroyed

Spec == Init /\ [][Next]_vars

\* Threads keep running, jobs return, and spurious wake-ups stop.  The client
\* need not call anything: it may keep a running pool forever.
FairSpec ==
  /\ Spec
  /\ WF_vars(ClientReturns)
  /\ \A w \in Workers : WF_vars(WorkerLoop(w))
  /\ <>[][\A w \in Workers : ~SpuriousWakeup(w)]_vars

-----------------------------------------------------------------------------
\* The type invariant, with the discipline of the mutex: it is held by the
\* worker that is testing the predicate or about to block, and by no other.
TypeOK ==
  /\ jobs \in Seq(Jobs)
  /\ stopping \in BOOLEAN
  /\ mutex \in Workers \cup {Nobody}
  /\ worker_pc \in [Workers -> {"none", "lock", "test", "block", "blocked",
                                "run", "exited"}]
  /\ active \in [Workers -> Jobs \cup {NoJob}]
  /\ client_pc \in {"construct", "unwind", "threw", "terminated", "idle",
                    "notify_one", "notify_all", "join", "destroyed"}
  /\ accepted \subseteq Jobs
  /\ rejected \subseteq Jobs
  /\ finished \subseteq Jobs
  /\ \A w \in Workers : mutex = w <=> worker_pc[w] \in {"test", "block"}

\* No job waits for a sleeper: while a worker sleeps, every queued job is
\* matched by a worker on its way to the queue or by the notification the
\* client is about to send.
NoJobWaitsForSleeper ==
  In("blocked") # {} =>
    Len(jobs) <= Cardinality(In("lock") \cup In("test"))
                 + (IF client_pc \in {"notify_one", "notify_all"} THEN 1 ELSE 0)

\* Nobody sleeps through shutdown: once notify_all is sent no worker is, or is
\* about to be, asleep.
NoSleeperAfterStop ==
  stopping /\ client_pc # "notify_all" => In("block") \cup In("blocked") = {}

\* Every notification does its work, although both kinds are sent outside the
\* lock and notify_one may wake a worker that finds its job gone.
NoNotificationIsLost == NoJobWaitsForSleeper /\ NoSleeperAfterStop

\* shutdown drains: when it has returned, and when the pool is destroyed, the
\* workers are gone and have run every job submit accepted.
ShutdownDrains ==
  stopping /\ client_pc \in {"idle", "destroyed"} =>
    /\ In("exited") = Workers
    /\ finished = accepted

\* No thread can be woken any more, and the constructor waits for them.
HangsForever ==
  /\ client_pc = "unwind"
  /\ In("blocked") # {}
  /\ In("none") \cup In("blocked") = Workers

\* What the failure of a thread to start comes to.  The exception reaches run(),
\* and so the handler in main, only if it was the first thread.  Otherwise the
\* threads that exist decide it by how far they have got when the members are
\* destroyed: the process is terminated, or it hangs with all of them asleep, for
\* good.  It never goes on with a part of its threads.
SpawnFailureIsFatal ==
  client_pc = "unwind" ~>
    [](\/ client_pc = "threw" /\ In("none") = Workers
       \/ client_pc = "terminated" /\ In("none") # Workers
       \/ HangsForever)

\* A call of shutdown returns.
ShutdownReturns == client_pc = "notify_all" ~> client_pc = "idle"

-----------------------------------------------------------------------------
\* The pool is a JobQueue.
Queue == INSTANCE JobQueue WITH
  worker <- [w \in Workers |-> CASE worker_pc[w] = "run"    -> "busy"
                                 [] worker_pc[w] = "exited" -> "exited"
                                 [] OTHER                   -> "idle"]

ImplementsJobQueue == Queue!PoolSpec
=============================================================================
