-------------------------- MODULE WorkerPoolProofs --------------------------
(***************************************************************************)
(* Proofs about module WorkerPool, for every number of workers and every   *)
(* set of jobs.                                                            *)
(***************************************************************************)
EXTENDS WorkerPool, FiniteSetTheorems, TLAPS

-----------------------------------------------------------------------------
(***************************************************************************)
(* Types and the discipline of the mutex.                                  *)
(***************************************************************************)

\* A worker that runs has a job.
Typed ==
  /\ TypeOK
  /\ \A w \in Workers : worker_pc[w] = "run" => active[w] \in Jobs

LEMMA NextTyped == Typed /\ [Next]_vars => Typed'
<1> SUFFICES ASSUME Typed, [Next]_vars PROVE Typed'
  OBVIOUS
<1> USE WorkerPoolAssumption DEF Typed, TypeOK, Enter, MutexFree, Wake, In
<1>1. ASSUME NEW j \in Jobs, SubmitPush(j) \/ SubmitThrow(j) PROVE Typed'
  BY <1>1 DEF SubmitPush, SubmitThrow
<1>2. CASE ShutdownStop \/ Destroy
  BY <1>2 DEF ShutdownStop, Destroy
<1>3. ASSUME NEW w \in Workers, SpawnThread(w) PROVE Typed'
  BY <1>3 DEF SpawnThread
<1>4. CASE UnwindConstructor \/ SpawnFails \/ JoinAll
  BY <1>4 DEF UnwindConstructor, SpawnFails, JoinAll
<1>5. CASE NotifyOne
  BY <1>5 DEF NotifyOne
<1>6. CASE NotifyAll
  BY <1>6 DEF NotifyAll
<1>7. ASSUME NEW w \in Workers, Lock(w) PROVE Typed'
  BY <1>7 DEF Lock
<1>8. ASSUME NEW w \in Workers, Take(w) PROVE Typed'
  <2>1. Head(jobs) \in Jobs /\ Tail(jobs) \in Seq(Jobs)
    BY <1>8 DEF Take
  <2>2. QED
    BY <1>8, <2>1 DEF Take, Popped
<1>9. ASSUME NEW w \in Workers, Leave(w) \/ Refuse(w) \/ Block(w) PROVE Typed'
  BY <1>9 DEF Leave, Refuse, Block
<1>10. ASSUME NEW w \in Workers, SpuriousWakeup(w) PROVE Typed'
  BY <1>10 DEF SpuriousWakeup
<1>11. ASSUME NEW w \in Workers, RunJob(w) PROVE Typed'
  BY <1>11 DEF RunJob
<1>12. CASE UNCHANGED vars
  BY <1>12 DEF vars
<1>13. QED
  BY <1>1, <1>2, <1>3, <1>4, <1>5, <1>6, <1>7, <1>8, <1>9, <1>10, <1>11, <1>12
  DEF Next, ClientCalls, ClientReturns, WorkerLoop, Destroyed

LEMMA InitTyped == Init => Typed
<1> SUFFICES ASSUME Init PROVE Typed
  OBVIOUS
<1>1. /\ jobs \in Seq(Jobs)
      /\ worker_pc \in [Workers -> {"none", "lock", "test", "block",
                                    "blocked", "run", "exited"}]
      /\ active \in [Workers -> Jobs \cup {NoJob}]
  BY DEF Init
<1>2. \A w \in Workers : mutex # w /\ worker_pc[w] = "none"
  BY WorkerPoolAssumption DEF Init
<1>3. QED
  BY <1>1, <1>2 DEF Init, Typed, TypeOK

\* Types; a worker that runs has a job.
THEOREM TypedHolds == Spec => []Typed
  BY InitTyped, NextTyped, PTL DEF Spec

\* Types, and mutex_ is held by the worker that tests the wait predicate or is
\* about to block, and by no other.
THEOREM TypeOKHolds == Spec => []TypeOK
<1>1. Typed => TypeOK
  BY DEF Typed
<1>2. QED
  BY <1>1, TypedHolds, PTL

-----------------------------------------------------------------------------
(***************************************************************************)
(* The phases of the client.                                               *)
(***************************************************************************)

\* Before shutdown the pool accepts jobs; its destructor follows the joins.
Phases ==
  /\ client_pc \in {"construct", "unwind", "threw", "terminated", "notify_one"}
       => ~stopping
  /\ client_pc \in {"notify_all", "join", "destroyed"} => stopping
  /\ stopping /\ client_pc \in {"idle", "destroyed"} => In("exited") = Workers

LEMMA NextPhases == Typed /\ Phases /\ [Next]_vars => Phases'
<1> SUFFICES ASSUME Typed, Phases, [Next]_vars PROVE Phases'
  OBVIOUS
<1> USE DEF Enter, In, Phases
<1>types. /\ worker_pc \in [Workers -> {"none", "lock", "test", "block",
                                        "blocked", "run", "exited"}]
          /\ Workers # {}
  BY WorkerPoolAssumption DEF Typed, TypeOK
<1>1. ASSUME NEW j \in Jobs, SubmitPush(j) \/ SubmitThrow(j) PROVE Phases'
  BY <1>1 DEF SubmitPush, SubmitThrow
<1>2. CASE ShutdownStop \/ Destroy
  BY <1>2 DEF ShutdownStop, Destroy
<1>3. ASSUME NEW w \in Workers, SpawnThread(w) PROVE Phases'
  BY <1>3 DEF SpawnThread
<1>4. CASE UnwindConstructor \/ SpawnFails \/ JoinAll
  BY <1>4 DEF UnwindConstructor, SpawnFails, JoinAll, NoThreadYet
<1>5. CASE NotifyOne \/ NotifyAll
  BY <1>5 DEF NotifyOne, NotifyAll
\* A worker moves only while some worker has been created and has not exited.
<1>6. ASSUME NEW w \in Workers, worker_pc[w] \notin {"none", "exited"},
             UNCHANGED <<stopping, client_pc>>
      PROVE  Phases'
  BY <1>types, <1>6
<1>7. ASSUME NEW w \in Workers, WorkerLoop(w) \/ SpuriousWakeup(w)
      PROVE  Phases'
  <2>1. /\ worker_pc[w] \notin {"none", "exited"}
        /\ UNCHANGED <<stopping, client_pc>>
    BY <1>7 DEF WorkerLoop, Lock, Take, Leave, Refuse, Block, RunJob,
       SpuriousWakeup
  <2>2. QED
    BY <1>6, <2>1
<1>8. CASE UNCHANGED vars
  BY <1>8 DEF vars
<1>9. QED
  BY <1>1, <1>2, <1>3, <1>4, <1>5, <1>7, <1>8
  DEF Next, ClientCalls, ClientReturns, Destroyed

\* The pool accepts jobs until shutdown, and its destructor follows the joins.
THEOREM PhasesHold == Spec => []Phases
<1>1. Init => Phases
  BY DEF Init, Phases
<1>2. QED
  BY <1>1, TypedHolds, NextPhases, PTL DEF Spec

-----------------------------------------------------------------------------
(***************************************************************************)
(* Sleepers.                                                               *)
(***************************************************************************)

\* The workers that are on their way to the queue.
Coming == In("lock") \cup In("test")

\* The notification the client is about to send, as a number.
Announced == IF client_pc \in {"notify_one", "notify_all"} THEN 1 ELSE 0

\* What NoNotificationIsLost rests on: from the test to the sleep the mutex is
\* held, so nothing is queued and the pool is not stopped in between.
Sleepers ==
  /\ In("block") # {} => jobs = <<>> /\ ~stopping
  /\ stopping /\ client_pc # "notify_all" => In("blocked") = {}
  /\ In("blocked") # {} => Len(jobs) <= Cardinality(Coming) + Announced

\* The mutex keeps the client out while a worker is about to block.
LEMMA BlockHoldsMutex ==
  ASSUME Typed, In("block") # {}
  PROVE  ~MutexFree
  BY WorkerPoolAssumption DEF Typed, TypeOK, In, MutexFree

LEMMA WorkersFinite ==
  ASSUME NEW S \in SUBSET Workers
  PROVE  IsFiniteSet(S) /\ Cardinality(S) \in Nat
  BY WorkerPoolAssumption, FS_Subset, FS_CardinalityType

\* A step that takes no job, queues none, withdraws no notification and stops
\* nobody who is coming keeps the balance.
LEMMA BalanceKept ==
  ASSUME Typed, Sleepers, UNCHANGED <<jobs, client_pc>>,
         In("blocked")' # {} => In("blocked") # {}, Coming \subseteq Coming'
  PROVE  In("blocked")' # {} =>
           Len(jobs') <= Cardinality(Coming') + Announced'
<1>1. Coming \in SUBSET Workers /\ Coming' \in SUBSET Workers
  BY DEF Coming, In
<1>2. /\ Cardinality(Coming) \in Nat
      /\ IsFiniteSet(Coming') /\ Cardinality(Coming') \in Nat
  BY <1>1, WorkersFinite
<1>3. Cardinality(Coming) <= Cardinality(Coming')
  BY <1>2, FS_Subset
<1>4. Len(jobs) \in Nat /\ Announced \in {0, 1} /\ Announced' = Announced
  BY DEF Typed, TypeOK, Announced
<1>5. QED
  BY <1>2, <1>3, <1>4 DEF Sleepers

LEMMA NextSleepers == Typed /\ Phases /\ Sleepers /\ [Next]_vars => Sleepers'
<1> SUFFICES ASSUME Typed, Phases, Sleepers, [Next]_vars PROVE Sleepers'
  OBVIOUS
<1>types. /\ worker_pc \in [Workers -> {"none", "lock", "test", "block",
                                        "blocked", "run", "exited"}]
          /\ jobs \in Seq(Jobs)
          /\ Workers # {}
  BY WorkerPoolAssumption DEF Typed, TypeOK
<1>numbers. /\ Cardinality(Coming) \in Nat
            /\ Len(jobs) \in Nat
            /\ Announced \in {0, 1}
  BY <1>types, WorkersFinite DEF Coming, In, Announced
<1>1. ASSUME NEW j \in Jobs, SubmitPush(j) PROVE Sleepers'
  <2>1. /\ In("block") = {}
        /\ client_pc = "idle" /\ client_pc' = "notify_one"
        /\ ~stopping
        /\ jobs' = Append(jobs, j)
        /\ UNCHANGED <<stopping, worker_pc>>
    BY <1>1, BlockHoldsMutex DEF SubmitPush, Enter
  <2>2. Len(jobs') = Len(jobs) + 1 /\ Announced = 0 /\ Announced' = 1
    BY <1>types, <2>1 DEF Announced
  <2>3. /\ In("block")' = In("block") /\ In("blocked")' = In("blocked")
        /\ Coming' = Coming
    BY <2>1 DEF In, Coming
  <2>4. QED
    BY <1>numbers, <2>1, <2>2, <2>3 DEF Sleepers
<1>2. CASE ShutdownStop
  <2>1. /\ In("block") = {}
        /\ client_pc = "idle" /\ client_pc' = "notify_all"
        /\ UNCHANGED <<jobs, worker_pc>>
    BY <1>2, BlockHoldsMutex DEF ShutdownStop, Enter
  <2>2. Announced = 0 /\ Announced' = 1
    BY <2>1 DEF Announced
  <2>3. /\ In("block")' = In("block") /\ In("blocked")' = In("blocked")
        /\ Coming' = Coming
    BY <2>1 DEF In, Coming
  <2>4. QED
    BY <1>numbers, <2>1, <2>2, <2>3 DEF Sleepers
\* The other steps of the client that wake nobody neither start nor end a
\* notification.
<1>3. CASE \/ \E j \in Jobs : SubmitThrow(j)
           \/ Destroy \/ UnwindConstructor \/ SpawnFails \/ JoinAll
           \/ UNCHANGED vars
  <2>1. /\ UNCHANGED <<jobs, stopping, worker_pc>>
        /\ Announced' = Announced
        /\ stopping /\ client_pc' # "notify_all" => client_pc # "notify_all"
    BY <1>3 DEF SubmitThrow, Destroy, UnwindConstructor, SpawnFails, JoinAll,
       Enter, Announced, vars
  <2>2. /\ In("block")' = In("block") /\ In("blocked")' = In("blocked")
        /\ Coming' = Coming
    BY <2>1 DEF In, Coming
  <2>3. QED
    BY <2>1, <2>2 DEF Sleepers
<1>4. ASSUME NEW w \in Workers, SpawnThread(w) PROVE Sleepers'
  <2>1. /\ client_pc = "construct" /\ client_pc' \in {"idle", "construct"}
        /\ worker_pc[w] = "none"
        /\ worker_pc' = [worker_pc EXCEPT ![w] = "lock"]
        /\ UNCHANGED <<jobs, stopping>>
    BY <1>4 DEF SpawnThread
  <2>2. /\ In("block")' = In("block") /\ In("blocked")' = In("blocked")
        /\ Coming \subseteq Coming'
    BY <1>types, <2>1 DEF In, Coming
  <2>3. Cardinality(Coming) <= Cardinality(Coming') /\ Cardinality(Coming') \in Nat
    <3>1. Coming' \in SUBSET Workers
      BY DEF Coming, In
    <3>2. IsFiniteSet(Coming') /\ Cardinality(Coming') \in Nat
      BY <3>1, WorkersFinite
    <3>3. QED
      BY <2>2, <3>2, FS_Subset
  <2>4. Announced = 0 /\ Announced' = 0
    BY <2>1 DEF Announced
  <2>5. QED
    BY <1>numbers, <2>1, <2>2, <2>3, <2>4 DEF Sleepers
<1>5. CASE NotifyOne
  <2>0. client_pc = "notify_one" /\ client_pc' = "idle" /\ ~stopping
        /\ UNCHANGED <<jobs, stopping>>
    BY <1>5 DEF NotifyOne, Phases
  <2>1. CASE In("blocked") = {}
    <3>1. UNCHANGED worker_pc
      BY <1>5, <2>1 DEF NotifyOne
    <3>2. QED
      BY <2>0, <2>1, <3>1 DEF Sleepers, In
  <2>2. ASSUME NEW w \in In("blocked"), Wake({w}) PROVE Sleepers'
    <3>1. worker_pc' = [worker_pc EXCEPT ![w] = "lock"]
      BY <1>types, <2>2 DEF Wake, In
    <3>2. /\ In("block")' = In("block")
          /\ Coming' = Coming \cup {w} /\ w \notin Coming
      BY <1>types, <3>1 DEF In, Coming
    <3>3. Cardinality(Coming') = Cardinality(Coming) + 1
      <4>1. IsFiniteSet(Coming)
        BY WorkersFinite DEF Coming, In
      <4>2. QED
        BY <3>2, <4>1, FS_AddElement
    <3>4. Announced = 1 /\ Announced' = 0
      BY <2>0 DEF Announced
    <3>5. QED
      BY <1>numbers, <2>0, <3>2, <3>3, <3>4 DEF Sleepers
  <2>3. QED
    BY <1>5, <2>1, <2>2 DEF NotifyOne
<1>6. CASE NotifyAll
  <2>1. /\ worker_pc' = [w \in Workers |-> IF w \in In("blocked") THEN "lock"
                                           ELSE worker_pc[w]]
        /\ UNCHANGED <<jobs, stopping>>
    BY <1>6 DEF NotifyAll, Wake
  <2>2. In("block")' = In("block") /\ In("blocked")' = {}
    BY <1>types, <2>1 DEF In
  <2>3. QED
    BY <2>1, <2>2 DEF Sleepers
\* The steps of a worker that bring it no nearer to sleep.
<1>7. ASSUME NEW w \in Workers,
             \/ Lock(w) \/ RunJob(w) \/ SpuriousWakeup(w)
      PROVE  Sleepers'
  <2>1. /\ worker_pc[w] \in {"lock", "run", "blocked"}
        /\ worker_pc' \in {[worker_pc EXCEPT ![w] = "lock"],
                           [worker_pc EXCEPT ![w] = "test"]}
        /\ UNCHANGED <<jobs, stopping, client_pc>>
    BY <1>7 DEF Lock, RunJob, SpuriousWakeup
  <2>2. /\ In("block")' = In("block") /\ In("blocked")' \subseteq In("blocked")
        /\ Coming \subseteq Coming'
    BY <1>types, <2>1 DEF In, Coming
  <2>3. In("blocked")' # {} => Len(jobs') <= Cardinality(Coming') + Announced'
    BY <2>1, <2>2, BalanceKept
  <2>4. QED
    BY <2>1, <2>2, <2>3 DEF Sleepers
<1>8. ASSUME NEW w \in Workers, Take(w) PROVE Sleepers'
  <2>1. /\ worker_pc[w] = "test" /\ jobs # <<>>
        /\ worker_pc' = [worker_pc EXCEPT ![w] = "run"]
        /\ jobs' = Tail(jobs)
        /\ UNCHANGED <<stopping, client_pc>>
    BY <1>8 DEF Take, Popped
  <2>2. /\ In("block")' = In("block") /\ In("blocked")' = In("blocked")
        /\ Coming' = Coming \ {w} /\ w \in Coming
    BY <1>types, <2>1 DEF In, Coming
  <2>3. Cardinality(Coming') = Cardinality(Coming) - 1
    <3>1. IsFiniteSet(Coming)
      BY WorkersFinite DEF Coming, In
    <3>2. QED
      BY <2>2, <3>1, FS_RemoveElement
  <2>4. Len(jobs') = Len(jobs) - 1
    BY <1>types, <2>1
  <2>5. Announced' = Announced
    BY <2>1 DEF Announced
  <2>6. QED
    BY <1>numbers, <2>1, <2>2, <2>3, <2>4, <2>5 DEF Sleepers
<1>9. ASSUME NEW w \in Workers, Leave(w) \/ Refuse(w) PROVE Sleepers'
  <2>1. /\ jobs = <<>>
        /\ worker_pc[w] = "test"
        /\ UNCHANGED <<jobs, stopping, client_pc>>
        /\ \/ worker_pc' = [worker_pc EXCEPT ![w] = "exited"]
           \/ worker_pc' = [worker_pc EXCEPT ![w] = "block"] /\ ~stopping
    BY <1>9 DEF Leave, Refuse, MayLeave
  <2>2. /\ In("blocked")' = In("blocked")
        /\ In("block")' \subseteq In("block") \cup (IF stopping THEN {} ELSE {w})
    BY <1>types, <2>1 DEF In
  <2>3. Len(jobs') = 0 /\ Cardinality(Coming') \in Nat /\ Announced' \in {0, 1}
    <3>1. Coming' \in SUBSET Workers
      BY DEF Coming, In
    <3>2. QED
      BY <2>1, <3>1, WorkersFinite DEF Announced
  <2>4. QED
    BY <2>1, <2>2, <2>3 DEF Sleepers
<1>10. ASSUME NEW w \in Workers, Block(w) PROVE Sleepers'
  <2>1. /\ worker_pc[w] = "block"
        /\ worker_pc' = [worker_pc EXCEPT ![w] = "blocked"]
        /\ UNCHANGED <<jobs, stopping, client_pc>>
    BY <1>10 DEF Block
  <2>2. jobs = <<>> /\ ~stopping
    BY <2>1 DEF Sleepers, In
  <2>3. Len(jobs') = 0 /\ Cardinality(Coming') \in Nat /\ Announced' \in {0, 1}
    <3>1. Coming' \in SUBSET Workers
      BY DEF Coming, In
    <3>2. QED
      BY <2>1, <2>2, <3>1, WorkersFinite DEF Announced
  <2>4. QED
    BY <2>1, <2>2, <2>3 DEF Sleepers
<1>11. QED
  BY <1>1, <1>2, <1>3, <1>4, <1>5, <1>6, <1>7, <1>8, <1>9, <1>10
  DEF Next, ClientCalls, ClientReturns, WorkerLoop, Destroyed

\* No worker goes to sleep past a job or past shutdown, and while workers sleep
\* there are enough awake, or about to be, for all queued jobs.
THEOREM SleepersHold == Spec => []Sleepers
<1>1. Init => Sleepers
  BY DEF Init, Sleepers, In
<1>2. QED
  BY <1>1, TypedHolds, PhasesHold, NextSleepers, PTL DEF Spec

\* Neither the notify_one of submit nor the notify_all of shutdown, both sent
\* outside the lock, leaves a worker asleep that is needed.
THEOREM NoNotificationIsLostHolds == Spec => []NoNotificationIsLost
<1>1. Typed /\ Sleepers => NoNotificationIsLost
  <2> SUFFICES ASSUME Typed, Sleepers
               PROVE  NoJobWaitsForSleeper /\ NoSleeperAfterStop
    BY DEF NoNotificationIsLost
  <2>1. NoJobWaitsForSleeper
    BY DEF NoJobWaitsForSleeper, Sleepers, Coming, Announced
  <2>2. NoSleeperAfterStop
    BY DEF NoSleeperAfterStop, Sleepers
  <2>3. QED
    BY <2>1, <2>2
<1>2. QED
  BY <1>1, TypedHolds, SleepersHold, PTL

-----------------------------------------------------------------------------
(***************************************************************************)
(* No job is lost.                                                         *)
(***************************************************************************)

Queued == {jobs[i] : i \in DOMAIN jobs}
Running == {active[w] : w \in In("run")}

\* An accepted job is queued, running or finished, and workers leave only when
\* nothing can be queued any more.
NoJobLost ==
  /\ accepted = Queued \cup Running \cup finished
  /\ In("exited") # {} => stopping /\ jobs = <<>>

LEMMA NextNoJobLost == Typed /\ NoJobLost /\ [Next]_vars => NoJobLost'
<1> SUFFICES ASSUME Typed, NoJobLost, [Next]_vars PROVE NoJobLost'
  OBVIOUS
<1>types. /\ worker_pc \in [Workers -> {"none", "lock", "test", "block",
                                        "blocked", "run", "exited"}]
          /\ active \in [Workers -> Jobs \cup {NoJob}]
          /\ jobs \in Seq(Jobs)
  BY DEF Typed, TypeOK
<1>1. ASSUME NEW j \in Jobs, SubmitPush(j) PROVE NoJobLost'
  <2>1. /\ ~stopping
        /\ jobs' = Append(jobs, j)
        /\ accepted' = accepted \cup {j}
        /\ UNCHANGED <<worker_pc, active, finished>>
    BY <1>1 DEF SubmitPush, Enter
  <2>2. Queued' = Queued \cup {j}
    BY <1>types, <2>1 DEF Queued
  <2>3. Running' = Running /\ In("exited")' = In("exited")
    BY <2>1 DEF Running, In
  <2>4. QED
    BY <2>1, <2>2, <2>3 DEF NoJobLost
\* The steps that move no job and let no worker leave.
<1>2. ASSUME UNCHANGED <<jobs, accepted, finished>>, stopping => stopping',
             Running' = Running, In("exited")' = In("exited")
      PROVE  NoJobLost'
  BY <1>2 DEF NoJobLost, Queued
<1>3. CASE \/ \E j \in Jobs : SubmitThrow(j)
           \/ ShutdownStop \/ Destroy \/ UnwindConstructor \/ SpawnFails
           \/ JoinAll \/ UNCHANGED vars
  <2>1. /\ UNCHANGED <<jobs, worker_pc, active, accepted, finished>>
        /\ stopping => stopping'
    BY <1>3 DEF SubmitThrow, ShutdownStop, Destroy, UnwindConstructor,
       SpawnFails, JoinAll, Enter, vars
  <2>2. QED
    BY <1>2, <2>1 DEF Running, In
<1>4. CASE \/ \E w \in Workers : \/ SpawnThread(w) \/ Lock(w) \/ Refuse(w)
                                 \/ Block(w) \/ SpuriousWakeup(w)
           \/ NotifyOne \/ NotifyAll
  <2>1. /\ UNCHANGED <<jobs, stopping, active, accepted, finished>>
        /\ \A v \in Workers : \/ worker_pc'[v] = worker_pc[v]
                              \/ /\ worker_pc[v] \notin {"run", "exited"}
                                 /\ worker_pc'[v] \notin {"run", "exited"}
    BY <1>types, <1>4 DEF SpawnThread, Lock, Refuse, Block, SpuriousWakeup,
       NotifyOne, NotifyAll, Wake, In
  <2>2. In("run")' = In("run") /\ In("exited")' = In("exited")
    BY <2>1 DEF In
  <2>3. QED
    BY <1>2, <2>1, <2>2 DEF Running
<1>5. ASSUME NEW w \in Workers, Take(w) PROVE NoJobLost'
  <2>1. /\ worker_pc[w] = "test" /\ jobs # <<>>
        /\ jobs' = Tail(jobs)
        /\ active' = [active EXCEPT ![w] = Head(jobs)]
        /\ worker_pc' = [worker_pc EXCEPT ![w] = "run"]
        /\ UNCHANGED <<stopping, accepted, finished>>
    BY <1>5 DEF Take, Popped
  <2>2. Queued = Queued' \cup {Head(jobs)}
    <3>1. /\ Len(jobs) \in Nat \ {0}
          /\ DOMAIN jobs = 1 .. Len(jobs)
          /\ DOMAIN Tail(jobs) = 1 .. Len(jobs) - 1
          /\ \A i \in 1 .. Len(jobs) - 1 : Tail(jobs)[i] = jobs[i + 1]
          /\ Head(jobs) = jobs[1]
      BY <1>types, <2>1
    <3>2. \A i \in 1 .. Len(jobs) :
            i = 1 \/ (i - 1 \in 1 .. Len(jobs) - 1 /\ jobs[i] = Tail(jobs)[i - 1])
      BY <3>1
    <3>3. \A i \in 1 .. Len(jobs) - 1 : i + 1 \in 1 .. Len(jobs)
      BY <3>1
    <3>4. Queued' = {Tail(jobs)[i] : i \in 1 .. Len(jobs) - 1}
      BY <2>1, <3>1 DEF Queued
    <3>5. ASSUME NEW j \in Queued PROVE j \in Queued' \cup {Head(jobs)}
      <4>1. PICK i \in 1 .. Len(jobs) : j = jobs[i]
        BY <3>1 DEF Queued
      <4>2. QED
        BY <3>1, <3>2, <3>4, <4>1
    <3>6. ASSUME NEW j \in Queued' PROVE j \in Queued
      <4>1. PICK i \in 1 .. Len(jobs) - 1 : j = Tail(jobs)[i]
        BY <3>4
      <4>2. i + 1 \in DOMAIN jobs /\ j = jobs[i + 1]
        BY <3>1, <3>3, <4>1
      <4>3. QED
        BY <4>2 DEF Queued
    <3>7. Head(jobs) \in Queued
      <4>1. 1 \in DOMAIN jobs /\ Head(jobs) = jobs[1]
        BY <3>1
      <4>2. QED
        BY <4>1 DEF Queued
    <3>8. QED
      BY <3>5, <3>6, <3>7
  <2>3. In("run")' = In("run") \cup {w} /\ w \notin In("run")
    BY <1>types, <2>1 DEF In
  <2>4. Running' = Running \cup {Head(jobs)}
    <3>1. active'[w] = Head(jobs) /\ \A v \in In("run") : active'[v] = active[v]
      BY <1>types, <2>1, <2>3 DEF In
    <3>2. QED
      BY <2>3, <3>1 DEF Running
  <2>5. In("exited")' = In("exited")
    BY <1>types, <2>1 DEF In
  <2>6. QED
    BY <2>1, <2>2, <2>4, <2>5 DEF NoJobLost
<1>6. ASSUME NEW w \in Workers, RunJob(w) PROVE NoJobLost'
  <2>1. /\ worker_pc[w] = "run"
        /\ finished' = finished \cup {active[w]}
        /\ active' = [active EXCEPT ![w] = NoJob]
        /\ worker_pc' = [worker_pc EXCEPT ![w] = "lock"]
        /\ UNCHANGED <<jobs, stopping, accepted>>
    BY <1>6 DEF RunJob
  <2>2. In("run")' = In("run") \ {w} /\ w \in In("run")
    BY <1>types, <2>1 DEF In
  <2>3. Running = Running' \cup {active[w]}
    <3>1. \A v \in In("run")' : active'[v] = active[v]
      BY <1>types, <2>1, <2>2 DEF In
    <3>2. QED
      BY <2>2, <3>1 DEF Running
  <2>4. In("exited")' = In("exited") /\ Queued' = Queued
    BY <1>types, <2>1 DEF In, Queued
  <2>5. QED
    BY <2>1, <2>3, <2>4 DEF NoJobLost
<1>7. ASSUME NEW w \in Workers, Leave(w) PROVE NoJobLost'
  <2>1. /\ stopping /\ jobs = <<>>
        /\ worker_pc[w] = "test"
        /\ worker_pc' = [worker_pc EXCEPT ![w] = "exited"]
        /\ UNCHANGED <<jobs, stopping, active, accepted, finished>>
    BY <1>7 DEF Leave, MayLeave
  <2>2. In("run")' = In("run")
    BY <1>types, <2>1 DEF In
  <2>3. QED
    BY <2>1, <2>2 DEF NoJobLost, Queued, Running
<1>8. QED
  BY <1>1, <1>3, <1>4, <1>5, <1>6, <1>7
  DEF Next, ClientCalls, ClientReturns, WorkerLoop, Destroyed

\* An accepted job is queued, running or finished.
THEOREM NoJobLostHolds == Spec => []NoJobLost
<1>1. Init => NoJobLost
  BY DEF Init, NoJobLost, Queued, Running, In
<1>2. QED
  BY <1>1, TypedHolds, NextNoJobLost, PTL DEF Spec

\* When shutdown has returned, and when the pool is destroyed, every job that
\* submit accepted has run.
THEOREM ShutdownDrainsHolds == Spec => []ShutdownDrains
<1>1. Typed /\ Phases /\ NoJobLost => ShutdownDrains
  <2> SUFFICES ASSUME Typed, Phases, NoJobLost, stopping,
                      client_pc \in {"idle", "destroyed"}
               PROVE  In("exited") = Workers /\ finished = accepted
    BY DEF ShutdownDrains
  <2>1. In("exited") = Workers
    BY DEF Phases
  <2>2. In("run") = {} /\ In("exited") # {}
    BY <2>1, WorkerPoolAssumption DEF In
  <2>3. Queued = {} /\ Running = {}
    BY <2>2 DEF NoJobLost, Queued, Running
  <2>4. QED
    BY <2>1, <2>3 DEF NoJobLost
<1>2. QED
  BY <1>1, TypedHolds, PhasesHold, NoJobLostHolds, PTL

-----------------------------------------------------------------------------
(***************************************************************************)
(* Every step is a step of JobQueue, or none.                              *)
(***************************************************************************)

\* The pool, with its mutex and its condition variable, does what JobQueue
\* allows and nothing else.
THEOREM ImplementsJobQueueSafety == Spec => Queue!PoolSafety
<1> DEFINE Mapped(pc) == CASE pc = "run"    -> "busy"
                           [] pc = "exited" -> "exited"
                           [] OTHER         -> "idle"
           worker == [w \in Workers |-> Mapped(worker_pc[w])]
<1>1. Init => Queue!PoolInit
  BY DEF Init, Queue!PoolInit
<1>2. Typed /\ [Next]_vars => [Queue!PoolNext]_(Queue!poolVars)
  <2> SUFFICES ASSUME Typed, [Next]_vars
               PROVE  Queue!PoolNext \/ UNCHANGED Queue!poolVars
    OBVIOUS
  <2>types. worker_pc \in [Workers -> {"none", "lock", "test", "block",
                                       "blocked", "run", "exited"}]
    BY DEF Typed, TypeOK
  <2>kept. ASSUME UNCHANGED <<jobs, stopping, active>>,
                  \A w \in Workers : \/ worker_pc'[w] = worker_pc[w]
                                     \/ /\ worker_pc[w] \notin {"run", "exited"}
                                        /\ worker_pc'[w] \notin {"run", "exited"}
           PROVE  UNCHANGED Queue!poolVars
    BY <2>kept DEF Queue!poolVars
  <2>1. ASSUME NEW j \in Jobs, SubmitPush(j) PROVE Queue!PoolNext
    BY <2>1 DEF SubmitPush, Enter, Queue!PoolNext, Queue!Submit
  <2>2. CASE ShutdownStop
    BY <2>2 DEF ShutdownStop, Enter, Queue!PoolNext, Queue!Stop
  <2>3. CASE \/ \E j \in Jobs : SubmitThrow(j)
             \/ Destroy \/ UnwindConstructor \/ SpawnFails
             \/ JoinAll \/ UNCHANGED vars
    <3>1. UNCHANGED <<jobs, stopping, active, worker_pc>>
      BY <2>3 DEF SubmitThrow, Destroy, UnwindConstructor, SpawnFails, JoinAll,
         Enter, vars
    <3>2. QED
      BY <2>kept, <3>1
  <2>4. CASE \/ \E w \in Workers : \/ SpawnThread(w) \/ Lock(w) \/ Refuse(w)
                                   \/ Block(w) \/ SpuriousWakeup(w)
             \/ NotifyOne \/ NotifyAll
    <3>1. /\ UNCHANGED <<jobs, stopping, active>>
          /\ \A v \in Workers : \/ worker_pc'[v] = worker_pc[v]
                                \/ /\ worker_pc[v] \notin {"run", "exited"}
                                   /\ worker_pc'[v] \notin {"run", "exited"}
      BY <2>types, <2>4 DEF SpawnThread, Lock, Refuse, Block, SpuriousWakeup,
         NotifyOne, NotifyAll, Wake, In
    <3>2. QED
      BY <2>kept, <3>1
  <2>5. ASSUME NEW w \in Workers, NEW from, NEW to,
               worker_pc[w] = from, worker_pc' = [worker_pc EXCEPT ![w] = to]
        PROVE  /\ worker[w] = Mapped(from)
               /\ worker' = [worker EXCEPT ![w] = Mapped(to)]
    BY <2>types, <2>5
  <2>6. ASSUME NEW w \in Workers, Take(w) PROVE Queue!PoolNext
    <3>1. worker[w] = "idle" /\ worker' = [worker EXCEPT ![w] = "busy"]
      BY <2>5, <2>6 DEF Take
    <3>2. Queue!Take(w)
      BY <2>6, <3>1 DEF Take, Popped, Queue!Take, Queue!Popped
    <3>3. QED
      BY <3>2 DEF Queue!PoolNext, Queue!WorkerStep
  <2>7. ASSUME NEW w \in Workers, RunJob(w) PROVE Queue!PoolNext
    <3>1. worker[w] = "busy" /\ worker' = [worker EXCEPT ![w] = "idle"]
      <4>1. worker_pc[w] = "run" /\ worker_pc' = [worker_pc EXCEPT ![w] = "lock"]
        BY <2>7 DEF RunJob
      <4>2. worker[w] = Mapped("run") /\ worker' = [worker EXCEPT ![w] = Mapped("lock")]
        BY <2>types, <4>1
      <4>3. QED
        BY <4>2
    <3>2. Queue!Return(w)
      BY <2>7, <3>1 DEF RunJob, Queue!Return
    <3>3. QED
      BY <3>2 DEF Queue!PoolNext, Queue!WorkerStep
  <2>8. ASSUME NEW w \in Workers, Leave(w) PROVE Queue!PoolNext
    <3>1. worker[w] = "idle" /\ worker' = [worker EXCEPT ![w] = "exited"]
      BY <2>5, <2>8 DEF Leave
    <3>2. Queue!Exit(w)
      BY <2>8, <3>1 DEF Leave, MayLeave, Queue!Exit
    <3>3. QED
      BY <3>2 DEF Queue!PoolNext, Queue!WorkerStep
  <2>9. QED
    BY <2>1, <2>2, <2>3, <2>4, <2>6, <2>7, <2>8
    DEF Next, ClientCalls, ClientReturns, WorkerLoop, Destroyed
<1>3. QED
  BY <1>1, <1>2, TypedHolds, PTL DEF Spec, Queue!PoolSafety
=============================================================================
