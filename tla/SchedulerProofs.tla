-------------------------- MODULE SchedulerProofs --------------------------
(***************************************************************************)
(* Proofs about module Scheduler, for every graph, every failure table and *)
(* every number of workers.                                                *)
(***************************************************************************)
EXTENDS SchedulerProperties, FiniteSetTheorems, TLAPS

-----------------------------------------------------------------------------
(***************************************************************************)
(* Finite sets of tasks.                                                   *)
(***************************************************************************)

LEMMA TasksFinite ==
  ASSUME NEW S \in SUBSET Tasks
  PROVE  IsFiniteSet(S) /\ Cardinality(S) \in Nat
<1>1. IsFiniteSet(Tasks)
  BY SchedulerAssumption, FS_Interval DEF Tasks
<1>2. IsFiniteSet(S)
  BY <1>1, FS_Subset
<1>3. QED
  BY <1>2, FS_CardinalityType

\* The entries enqueue_ready_task pushes are well typed.
LEMMA ReadyTasksType ==
  ASSUME NEW S \in SUBSET Tasks, NEW first \in Nat
  PROVE  ReadyTasks(S, first) \subseteq
           [priority : Int, insertion_order : Nat, task_id : Tasks]
<1> SUFFICES ASSUME NEW r \in ReadyTasks(S, first)
             PROVE  r \in [priority : Int, insertion_order : Nat,
                           task_id : Tasks]
  OBVIOUS
<1>1. PICK t \in S :
        r = ReadyTask(t, first + Cardinality({u \in S : u < t}))
  BY DEF ReadyTasks
<1>2. Cardinality({u \in S : u < t}) \in Nat
  BY TasksFinite
<1>3. Priority[t] \in Int
  BY SchedulerAssumption
<1>4. QED
  BY <1>1, <1>2, <1>3 DEF ReadyTask

-----------------------------------------------------------------------------
(***************************************************************************)
(* Types.                                                                  *)
(***************************************************************************)

\* A worker inside execute_task has a job.
Typed ==
  /\ Types
  /\ \A w \in Workers : exec[w] # "idle" => active[w] \in Jobs

LEMMA InitTyped == Init => Typed
<1> SUFFICES ASSUME Init PROVE Typed
  OBVIOUS
<1>1. fails \in [Tasks -> SUBSET (Nat \ {0})]
  <2>1. \A t \in Tasks : Attempts(t) \subseteq Nat \ {0}
    BY SchedulerAssumption DEF Attempts
  <2>2. fails \in [Tasks -> SUBSET UNION {Attempts(t) : t \in Tasks}]
    BY DEF Init, FailureTables
  <2>3. QED
    BY <2>1, <2>2
<1>2. remaining_dependencies \in [Tasks -> Int]
  <2>1. \A t \in Tasks : Indegree(t) \in Nat
    BY SchedulerAssumption, TasksFinite DEF Indegree
  <2>2. QED
    BY <2>1 DEF Init
<1>3. ready_queue \subseteq [priority : Int, insertion_order : Nat,
                             task_id : Tasks]
  BY ReadyTasksType DEF Init
<1>4. enqueue_sequence \in Nat
  BY TasksFinite DEF Init
<1>5. /\ jobs \in Seq(Jobs)
      /\ to_launch \in Seq(Jobs)
      /\ active \in [Workers -> Jobs \cup {NoJob}]
      /\ worker \in [Workers -> {"idle", "busy", "exited"}]
  BY DEF Init, Pool!PoolInit
<1>6. /\ state \in [Tasks -> TaskStates]
      /\ has_started \in [Tasks -> BOOLEAN]
      /\ has_finished \in [Tasks -> BOOLEAN]
      /\ attempts_by_task \in [Tasks -> Nat]
  BY DEF Init, TaskStates
<1>7. /\ exec \in [Workers -> {"idle", "start", "sleep", "finish", "notify"}]
      /\ success \in [Workers -> BOOLEAN]
      /\ \A w \in Workers : exec[w] # "idle" => active[w] \in Jobs
  BY DEF Init
<1>8. /\ running_tasks \in Int /\ completed_tasks \in Nat
      /\ failed_tasks \in Nat /\ cancelled_tasks \in Nat
      /\ main_pc = "lock"
  BY DEF Init
<1>9. terminated = FALSE /\ stopping = FALSE
  BY DEF Init, Pool!PoolInit
<1>10. QED
  BY <1>1, <1>2, <1>3, <1>4, <1>5, <1>6, <1>7, <1>8, <1>9 DEF Typed, Types

LEMMA NextTyped == Typed /\ [Next]_vars => Typed'
<1> SUFFICES ASSUME Typed, [Next]_vars PROVE Typed'
  OBVIOUS
<1> USE DEF Typed, Types, TaskStates, sharedVars, taskVars, queueVars,
            counters, mainVars, poolVars, MainGoto, ExecGoto
<1>1. CASE \/ LockMutex \/ DispatchEnd \/ SubmitEnd \/ EnterLoop \/ LeaveLoop
           \/ WaitTest \/ Block \/ SpuriousWakeup \/ Relock
           \/ Shutdown \/ Join
  BY <1>1 DEF LockMutex, DispatchEnd, SubmitEnd, EnterLoop, LeaveLoop, WaitTest,
     Block, SpuriousWakeup, Relock, Shutdown, Join, Pool!Stop
<1>2. ASSUME NEW r \in ready_queue, DispatchNext(r) PROVE Typed'
  <2>1. CASE state[r.task_id] = "Pending"
    <3> DEFINE j == [task_id |-> r.task_id,
                     attempt |-> attempts_by_task[r.task_id] + 1]
    <3>1. j \in Jobs
      BY DEF Jobs
    <3>2. to_launch' = Append(to_launch, j)
      BY <1>2, <2>1 DEF DispatchNext
    <3>3. to_launch' \in Seq(Jobs)
      BY <3>1, <3>2
    <3>4. r.task_id \in Tasks
      OBVIOUS
    <3>5. /\ state' = [state EXCEPT ![r.task_id] = "Running"]
          /\ attempts_by_task' = [attempts_by_task EXCEPT
                 ![r.task_id] = attempts_by_task[r.task_id] + 1]
          /\ running_tasks' = running_tasks + 1
      BY <1>2, <2>1 DEF DispatchNext
    <3>6. QED
      BY <1>2, <3>3, <3>4, <3>5 DEF DispatchNext
  <2>2. CASE state[r.task_id] # "Pending"
    BY <1>2, <2>2 DEF DispatchNext
  <2>3. QED
    BY <2>1, <2>2
<1>3. CASE SubmitNext
  BY <1>3 DEF SubmitNext, Pool!Submit
<1>4. ASSUME NEW w \in Workers, WorkerStep(w) PROVE Typed'
  <2>1. CASE TakeJob(w)
    BY <2>1 DEF TakeJob, Pool!Take, Pool!Popped
  <2>2. CASE StartTask(w) \/ DecideTask(w)
    BY <2>2 DEF StartTask, DecideTask, Jobs
  <2> DEFINE t == active[w].task_id
  <2>a. ASSUME NEW S \in SUBSET Tasks, enqueue_ready_tasks(S)
        PROVE  /\ ready_queue' \subseteq [priority : Int,
                                          insertion_order : Nat,
                                          task_id : Tasks]
               /\ enqueue_sequence' \in Nat
    <3>1. Cardinality(S) \in Nat
      BY TasksFinite
    <3>2. ReadyTasks(S, enqueue_sequence) \subseteq
            [priority : Int, insertion_order : Nat, task_id : Tasks]
      BY ReadyTasksType
    <3>3. QED
      BY <2>a, <3>1, <3>2 DEF enqueue_ready_tasks
  <2>b. ASSUME exec[w] = "finish"
        PROVE  t \in Tasks
    BY <2>b DEF Jobs
  <2>3. CASE CompleteTask(w)
    <3>1. Released(t) \in SUBSET Tasks
      BY DEF Released, Dependents
    <3>2. /\ ready_queue' \subseteq [priority : Int, insertion_order : Nat,
                                     task_id : Tasks]
          /\ enqueue_sequence' \in Nat
      BY <2>3, <2>a, <3>1 DEF CompleteTask
    <3>3. QED
      BY <2>3, <2>b, <3>2 DEF CompleteTask, FinishTask
  <2>4. CASE RetryTask(w)
    <3>1. t \in Tasks
      BY <2>4, <2>b DEF RetryTask, FinishTask
    <3>2. /\ ready_queue' \subseteq [priority : Int, insertion_order : Nat,
                                     task_id : Tasks]
          /\ enqueue_sequence' \in Nat
      BY <2>4, <2>a, <3>1 DEF RetryTask
    <3>3. QED
      BY <2>4, <3>1, <3>2 DEF RetryTask, FinishTask
  <2>5. CASE FailTask(w)
    <3>1. Cardinality(CancelledBy(t)) \in Nat
      BY TasksFinite DEF CancelledBy, ReachedFrom, InState
    <3>2. QED
      BY <2>5, <2>b, <3>1 DEF FailTask, FinishTask
  <2>6. CASE NotifyMain(w)
    BY <2>6 DEF NotifyMain, Notified, Pool!Return
  <2>7. CASE ExitWorker(w)
    BY <2>7 DEF ExitWorker, Pool!Exit
  <2>8. QED
    BY <1>4, <2>1, <2>2, <2>3, <2>4, <2>5, <2>6, <2>7 DEF WorkerStep
<1>5. CASE UNCHANGED vars
  BY <1>5 DEF vars
<1>6. QED
  BY <1>1, <1>2, <1>3, <1>4, <1>5 DEF Next, MainStep, Finished

\* Types; a worker inside execute_task has a job.
THEOREM TypesHold == Spec => []Typed
  BY InitTyped, NextTyped, PTL DEF Spec

-----------------------------------------------------------------------------
(***************************************************************************)
(* The main thread's sleep.                                                *)
(***************************************************************************)

\* What NoLostWakeup rests on: between the test of the wait predicate and the
\* sleep the mutex is held, so the predicate is still false at "block".
SleepInvariant ==
  /\ main_pc = "block" => ~WaitPredicate
  /\ NoLostWakeup

LEMMA NextSleepInvariant ==
  Typed /\ SleepInvariant /\ [Next]_vars => SleepInvariant'
<1> SUFFICES ASSUME Typed, SleepInvariant, [Next]_vars PROVE SleepInvariant'
  OBVIOUS
<1> USE DEF SleepInvariant, NoLostWakeup, WaitPredicate, all_tasks_terminal,
            has_worker_capacity, sharedVars, taskVars, queueVars, counters,
            mainVars, MainGoto, ExecGoto, MainHoldsMutex
<1>exec. exec \in [Workers -> {"idle", "start", "sleep", "finish", "notify"}]
  BY DEF Typed, Types
<1>1. CASE \/ LockMutex \/ DispatchEnd \/ SubmitEnd \/ EnterLoop \/ LeaveLoop
           \/ WaitTest \/ Block \/ SpuriousWakeup \/ Relock
           \/ Shutdown \/ Join
  BY <1>1 DEF LockMutex, DispatchEnd, SubmitEnd, EnterLoop, LeaveLoop, WaitTest,
     Block, SpuriousWakeup, Relock, Shutdown, Join
<1>2. CASE \E r \in ready_queue : DispatchNext(r)
  BY <1>2 DEF DispatchNext
<1>3. CASE SubmitNext
  BY <1>3 DEF SubmitNext
<1>4. ASSUME NEW w \in Workers, WorkerStep(w) PROVE SleepInvariant'
  <2>1. CASE TakeJob(w)
    BY <1>exec, <2>1 DEF TakeJob
  <2>2. CASE StartTask(w) \/ DecideTask(w)
    BY <1>exec, <2>2 DEF StartTask, DecideTask
  <2>3. CASE CompleteTask(w) \/ RetryTask(w) \/ FailTask(w)
    BY <1>exec, <2>3 DEF CompleteTask, RetryTask, FailTask, FinishTask
  <2>4. CASE NotifyMain(w)
    BY <2>4 DEF NotifyMain, Notified
  <2>5. CASE ExitWorker(w)
    BY <2>5 DEF ExitWorker
  <2>6. QED
    BY <1>4, <2>1, <2>2, <2>3, <2>4, <2>5 DEF WorkerStep
<1>5. CASE UNCHANGED vars
  BY <1>5 DEF vars
<1>6. QED
  BY <1>1, <1>2, <1>3, <1>4, <1>5 DEF Next, MainStep, Finished

\* The main thread never sleeps through work: notify_all of execute_task
\* follows the critical section that changes the wait predicate, and the main
\* thread holds mutex_ from its test to its sleep.
THEOREM NoLostWakeupHolds == Spec => []NoLostWakeup
<1>1. Init => SleepInvariant
  BY DEF Init, SleepInvariant, NoLostWakeup
<1>2. SleepInvariant => NoLostWakeup
  BY DEF SleepInvariant
<1>3. QED
  BY <1>1, <1>2, TypesHold, NextSleepInvariant, PTL DEF Spec

-----------------------------------------------------------------------------
(***************************************************************************)
(* Who holds a running task.                                               *)
(***************************************************************************)

\* j is the current attempt of a running task.
Current(j) ==
  /\ state[j.task_id] = "Running"
  /\ j.attempt = attempts_by_task[j.task_id]

\* Every launch waiting in to_launch, every job in the pool's queue and every
\* executing worker holds the current attempt of a task of its own.
HeldOnce ==
  /\ \A i \in DOMAIN to_launch :
       /\ Current(to_launch[i])
       /\ \A k \in DOMAIN to_launch :
            to_launch[i].task_id = to_launch[k].task_id => i = k
       /\ \A k \in DOMAIN jobs : to_launch[i].task_id # jobs[k].task_id
       /\ \A w \in Executing : to_launch[i].task_id # active[w].task_id
  /\ \A i \in DOMAIN jobs :
       /\ Current(jobs[i])
       /\ \A k \in DOMAIN jobs : jobs[i].task_id = jobs[k].task_id => i = k
       /\ \A w \in Executing : jobs[i].task_id # active[w].task_id
  /\ \A w \in Executing :
       /\ Current(active[w])
       /\ \A v \in Executing : active[w].task_id = active[v].task_id => w = v

LEMMA NextHeldOnce == Typed /\ HeldOnce /\ [Next]_vars => HeldOnce'
<1> SUFFICES ASSUME Typed, HeldOnce, [Next]_vars PROVE HeldOnce'
  OBVIOUS
<1> USE DEF sharedVars, taskVars, queueVars, counters, mainVars, poolVars,
            MainGoto, ExecGoto, Executing, Current
<1>1. CASE \/ LockMutex \/ DispatchEnd \/ SubmitEnd \/ EnterLoop \/ LeaveLoop
           \/ WaitTest \/ Block \/ SpuriousWakeup \/ Relock
           \/ Shutdown \/ Join \/ UNCHANGED vars
  <2>1. UNCHANGED <<state, attempts_by_task, to_launch, exec, jobs, active>>
    BY <1>1 DEF LockMutex, DispatchEnd, SubmitEnd, EnterLoop, LeaveLoop,
       WaitTest, Block, SpuriousWakeup, Relock, Shutdown, Join, Pool!Stop, vars
  <2>2. QED
    BY <2>1 DEF HeldOnce
<1>2. ASSUME NEW r \in ready_queue, DispatchNext(r) PROVE HeldOnce'
  <2>1. CASE state[r.task_id] = "Pending"
    <3> DEFINE j == [task_id |-> r.task_id,
                     attempt |-> attempts_by_task[r.task_id] + 1]
    <3>1. to_launch' = Append(to_launch, j)
      BY <1>2, <2>1 DEF DispatchNext
    <3>2. /\ state' = [state EXCEPT ![r.task_id] = "Running"]
          /\ attempts_by_task' = [attempts_by_task EXCEPT
                 ![r.task_id] = attempts_by_task[r.task_id] + 1]
          /\ UNCHANGED <<exec, jobs, active>>
      BY <1>2, <2>1 DEF DispatchNext
    <3>3. /\ r.task_id \in Tasks
          /\ to_launch \in Seq(Jobs)
          /\ state \in [Tasks -> TaskStates]
          /\ attempts_by_task \in [Tasks -> Nat]
      BY DEF Typed, Types
    <3>4. \A h \in Jobs : Current(h) => h.task_id # r.task_id /\ Current(h)'
      BY <2>1, <3>2, <3>3 DEF Jobs
    <3>5. /\ j \in Jobs
          /\ \A h \in Jobs : h = j => Current(h)'
      BY <3>2, <3>3 DEF Jobs
    <3>6. DOMAIN to_launch' = DOMAIN to_launch \cup {Len(to_launch) + 1}
      BY <3>1, <3>3
    <3>7. /\ \A i \in DOMAIN to_launch : to_launch'[i] = to_launch[i]
          /\ to_launch'[Len(to_launch) + 1] = j
      BY <3>1, <3>3
    <3>8. /\ \A i \in DOMAIN to_launch : to_launch[i] \in Jobs
          /\ \A i \in DOMAIN jobs : jobs[i] \in Jobs
          /\ \A v \in Executing : active[v] \in Jobs
      BY DEF Typed, Types
    <3>9. j.task_id = r.task_id
      OBVIOUS
    <3> HIDE DEF j, Current
    <3>10. QED
      BY <3>2, <3>4, <3>5, <3>6, <3>7, <3>8, <3>9 DEF HeldOnce
  <2>2. CASE state[r.task_id] # "Pending"
    <3>1. UNCHANGED <<state, attempts_by_task, to_launch, exec, jobs, active>>
      BY <1>2, <2>2 DEF DispatchNext
    <3>2. QED
      BY <3>1 DEF HeldOnce
  <2>3. QED
    BY <2>1, <2>2
<1>3. CASE SubmitNext
  BY <1>3 DEF SubmitNext, Pool!Submit, HeldOnce, Typed, Types
<1>4. ASSUME NEW w \in Workers, WorkerStep(w) PROVE HeldOnce'
  <2>1. CASE TakeJob(w)
    BY <2>1 DEF TakeJob, Pool!Take, Pool!Popped, HeldOnce, Typed, Types
  <2>2. CASE StartTask(w) \/ DecideTask(w)
    <3>1. /\ exec[w] \in {"start", "sleep"}
          /\ exec' \in {[exec EXCEPT ![w] = "sleep"], [exec EXCEPT ![w] = "finish"]}
          /\ UNCHANGED <<state, attempts_by_task, to_launch, jobs, active>>
      BY <2>2 DEF StartTask, DecideTask
    <3>2. Executing' = Executing
      BY <3>1 DEF Typed, Types
    <3>3. QED
      BY <3>1, <3>2 DEF HeldOnce
  <2>3. CASE CompleteTask(w)
    BY <2>3 DEF CompleteTask, FinishTask, HeldOnce, Typed, Types
  <2>4. CASE RetryTask(w)
    BY <2>4 DEF RetryTask, FinishTask, HeldOnce, Typed, Types
  <2>5. CASE FailTask(w)
    <3> DEFINE t == active[w].task_id
    <3>1. w \in Executing /\ Executing' = Executing \ {w}
      BY <2>5 DEF FailTask, FinishTask, Typed, Types
    <3>2. UNCHANGED <<attempts_by_task, to_launch, jobs, active>>
      BY <2>5 DEF FailTask, FinishTask
    <3>3. \A u \in Tasks : u # t /\ state[u] = "Running" => state'[u] = "Running"
      BY <2>5 DEF FailTask, CancelledBy, ReachedFrom, InState
    <3>4. \A h \in Jobs : Current(h) /\ h.task_id # t => Current(h)'
      BY <3>2, <3>3 DEF Jobs
    <3>5. /\ \A i \in DOMAIN to_launch : to_launch[i] \in Jobs
          /\ \A i \in DOMAIN jobs : jobs[i] \in Jobs
          /\ \A v \in Executing : active[v] \in Jobs
      BY DEF Typed, Types
    <3> HIDE DEF Current
    <3>6. QED
      BY <3>1, <3>2, <3>4, <3>5 DEF HeldOnce
  <2>6. CASE NotifyMain(w)
    BY <2>6 DEF NotifyMain, Pool!Return, HeldOnce, Typed, Types
  <2>7. CASE ExitWorker(w)
    BY <2>7 DEF ExitWorker, Pool!Exit, HeldOnce, Typed, Types
  <2>8. QED
    BY <1>4, <2>1, <2>2, <2>3, <2>4, <2>5, <2>6, <2>7 DEF WorkerStep
<1>5. QED
  BY <1>1, <1>2, <1>3, <1>4 DEF Next, MainStep, Finished

LEMMA InitHeldOnce == Init => HeldOnce
  BY DEF Init, Pool!PoolInit, HeldOnce, Executing

\* A launch that waits, a queued job and an executing worker each hold the
\* current attempt of a running task of their own.
THEOREM HeldOnceHolds == Spec => []HeldOnce
  BY InitHeldOnce, TypesHold, NextHeldOnce, PTL DEF Spec

-----------------------------------------------------------------------------
(***************************************************************************)
(* The steps that change the state of a task.                              *)
(***************************************************************************)

coreVars == <<fails, state, remaining_dependencies, attempts_by_task,
              queueVars, counters, terminated>>

LEMMA CoreSteps ==
  ASSUME [Next]_vars
  PROVE  \/ UNCHANGED coreVars
         \/ \E r \in ready_queue : DispatchNext(r)
         \/ \E w \in Workers : CompleteTask(w) \/ RetryTask(w) \/ FailTask(w)
<1> USE DEF sharedVars, taskVars, mainVars, MainGoto, coreVars
<1>1. CASE \/ LockMutex \/ DispatchEnd \/ SubmitNext \/ SubmitEnd \/ EnterLoop
           \/ LeaveLoop \/ WaitTest \/ Block \/ SpuriousWakeup \/ Relock
           \/ Shutdown \/ Join \/ UNCHANGED vars
  BY <1>1 DEF LockMutex, DispatchEnd, SubmitNext, SubmitEnd, EnterLoop,
     LeaveLoop, WaitTest, Block, SpuriousWakeup, Relock, Shutdown, Join, vars
<1>2. ASSUME NEW w \in Workers,
             \/ TakeJob(w) \/ StartTask(w) \/ DecideTask(w)
             \/ NotifyMain(w) \/ ExitWorker(w)
      PROVE  UNCHANGED coreVars
  BY <1>2 DEF TakeJob, StartTask, DecideTask, NotifyMain, ExitWorker
<1>3. QED
  BY <1>1, <1>2 DEF Next, MainStep, WorkerStep, Finished

\* The task a finishing worker holds is running.
LEMMA FinisherHolds ==
  ASSUME Typed, HeldOnce, NEW w \in Workers,
         CompleteTask(w) \/ RetryTask(w) \/ FailTask(w)
  PROVE  /\ active[w].task_id \in Tasks
         /\ state[active[w].task_id] = "Running"
<1>1. exec[w] = "finish"
  BY DEF CompleteTask, RetryTask, FailTask, FinishTask, ExecGoto
<1>2. QED
  BY <1>1 DEF Typed, Jobs, HeldOnce, Executing, Current

\* A popped entry names a task.
LEMMA PoppedTask ==
  ASSUME Typed, NEW r \in ready_queue
  PROVE  r.task_id \in Tasks
  BY DEF Typed, Types

\* A task that changes state moves from one set to another.
LEMMA MoveTask ==
  ASSUME Typed, NEW t \in Tasks, NEW from \in TaskStates, NEW to \in TaskStates,
         state[t] = from, from # to, state' = [state EXCEPT ![t] = to]
  PROVE  /\ InState(from)' = InState(from) \ {t}
         /\ InState(to)' = InState(to) \cup {t}
         /\ \A s \in TaskStates \ {from, to} : InState(s)' = InState(s)
<1> USE DEF InState
<1>1. state \in [Tasks -> TaskStates]
  BY DEF Typed, Types
<1>2. \A u \in Tasks : state'[u] = IF u = t THEN to ELSE state[u]
  BY <1>1
<1>3. InState(from)' = InState(from) \ {t}
  BY <1>2
<1>4. InState(to)' = InState(to) \cup {t}
  BY <1>2
<1>5. \A s \in TaskStates \ {from, to} : InState(s)' = InState(s)
  BY <1>2
<1>6. QED
  BY <1>3, <1>4, <1>5

\* What cancel_dependents cancels was pending.
LEMMA CancelledWerePending ==
  ASSUME NEW t
  PROVE  CancelledBy(t) \subseteq InState("Pending")
  BY DEF CancelledBy, ReachedFrom

-----------------------------------------------------------------------------
(***************************************************************************)
(* The counters.                                                           *)
(***************************************************************************)

Counted ==
  /\ CountersMatchStates
  /\ running_tasks <= Cardinality(Workers)

LEMMA NextCounted ==
  Typed /\ HeldOnce /\ Counted /\ [Next]_vars => Counted'
<1> SUFFICES ASSUME Typed, HeldOnce, Counted, [Next]_vars PROVE Counted'
  OBVIOUS
<1>finite. \A S \in SUBSET Tasks : IsFiniteSet(S) /\ Cardinality(S) \in Nat
  BY TasksFinite
<1>sets. \A s : InState(s) \in SUBSET Tasks
  BY DEF InState
<1>workers. Cardinality(Workers) \in Nat
  BY SchedulerAssumption, FS_CardinalityType
<1>1. CASE UNCHANGED coreVars
  BY <1>1 DEF coreVars, counters, Counted, CountersMatchStates, InState
<1>2. ASSUME NEW r \in ready_queue, DispatchNext(r) PROVE Counted'
  <2> DEFINE t == r.task_id
  <2>1. CASE state[t] = "Pending"
    <3>1. state' = [state EXCEPT ![t] = "Running"]
      BY <1>2, <2>1 DEF DispatchNext
    <3>t. t \in Tasks
      BY PoppedTask
    <3> HIDE DEF t
    <3>2. /\ InState("Running")' = InState("Running") \cup {t}
          /\ InState("Completed")' = InState("Completed")
          /\ InState("Failed")' = InState("Failed")
          /\ InState("Cancelled")' = InState("Cancelled")
      BY <2>1, <3>1, <3>t, MoveTask DEF TaskStates
    <3>3. t \notin InState("Running")
      BY <2>1 DEF InState
    <3>4. Cardinality(InState("Running"))'
            = Cardinality(InState("Running")) + 1
      BY <1>finite, <1>sets, <3>2, <3>3, FS_AddElement
    <3>5. /\ running_tasks < Cardinality(Workers)
          /\ running_tasks' = running_tasks + 1
          /\ UNCHANGED <<completed_tasks, failed_tasks, cancelled_tasks>>
      BY <1>2, <2>1 DEF DispatchNext, has_worker_capacity, t
    <3>6. QED
      BY <1>workers, <3>2, <3>4, <3>5 DEF Counted, CountersMatchStates, Typed, Types
  <2>2. CASE state[t] # "Pending"
    BY <1>2, <2>2 DEF DispatchNext, Counted, CountersMatchStates, InState
  <2>3. QED
    BY <2>1, <2>2
<1>3. ASSUME NEW w \in Workers, CompleteTask(w) \/ RetryTask(w) \/ FailTask(w)
      PROVE  Counted'
  <2> DEFINE t == active[w].task_id
  <2>1. t \in Tasks /\ state[t] = "Running"
    BY <1>3, FinisherHolds
  <2>2. running_tasks' = running_tasks - 1
    BY <1>3 DEF CompleteTask, RetryTask, FailTask, FinishTask
  <2>3. Cardinality(InState("Running") \ {t})
          = Cardinality(InState("Running")) - 1
    BY <1>finite, <1>sets, <2>1, FS_RemoveElement DEF InState
  <2> HIDE DEF t
  <2>4. CASE CompleteTask(w)
    <3>1. state' = [state EXCEPT ![t] = "Completed"]
      BY <2>4 DEF CompleteTask, t
    <3>2. /\ InState("Running")' = InState("Running") \ {t}
          /\ InState("Completed")' = InState("Completed") \cup {t}
          /\ InState("Failed")' = InState("Failed")
          /\ InState("Cancelled")' = InState("Cancelled")
      BY <2>1, <3>1, MoveTask DEF TaskStates
    <3>running. Cardinality(InState("Running"))'
                  = Cardinality(InState("Running")) - 1
      BY <2>3, <3>2
    <3>3. Cardinality(InState("Completed"))'
            = Cardinality(InState("Completed")) + 1
      BY <1>finite, <1>sets, <2>1, <3>2, FS_AddElement DEF InState
    <3>4. /\ completed_tasks' = completed_tasks + 1
          /\ UNCHANGED <<failed_tasks, cancelled_tasks>>
      BY <2>4 DEF CompleteTask
    <3>5. QED
      BY <1>workers, <2>2, <3>2, <3>running, <3>3, <3>4
      DEF Counted, CountersMatchStates, Typed, Types
  <2>5. CASE RetryTask(w)
    <3>1. state' = [state EXCEPT ![t] = "Pending"]
      BY <2>5 DEF RetryTask, t
    <3>2. /\ InState("Running")' = InState("Running") \ {t}
          /\ InState("Completed")' = InState("Completed")
          /\ InState("Failed")' = InState("Failed")
          /\ InState("Cancelled")' = InState("Cancelled")
      BY <2>1, <3>1, MoveTask DEF TaskStates
    <3>3. UNCHANGED <<completed_tasks, failed_tasks, cancelled_tasks>>
      BY <2>5 DEF RetryTask
    <3>running. Cardinality(InState("Running"))'
                  = Cardinality(InState("Running")) - 1
      BY <2>3, <3>2
    <3>4. QED
      BY <1>workers, <2>2, <3>2, <3>running, <3>3
      DEF Counted, CountersMatchStates, Typed, Types
  <2>6. CASE FailTask(w)
    <3> DEFINE cancelled == CancelledBy(t)
    <3>1. cancelled \subseteq InState("Pending")
      BY CancelledWerePending
    <3>2. state' = [d \in Tasks |-> IF d = t THEN "Failed"
                                    ELSE IF d \in cancelled THEN "Cancelled"
                                    ELSE state[d]]
      BY <2>6 DEF FailTask, t
    <3> HIDE DEF cancelled
    <3>3. /\ InState("Running")' = InState("Running") \ {t}
          /\ InState("Completed")' = InState("Completed")
          /\ InState("Failed")' = InState("Failed") \cup {t}
          /\ InState("Cancelled")' = InState("Cancelled") \cup cancelled
      BY <2>1, <3>1, <3>2 DEF InState
    <3>running. Cardinality(InState("Running"))'
                  = Cardinality(InState("Running")) - 1
      BY <2>3, <3>3
    <3>4. Cardinality(InState("Failed"))' = Cardinality(InState("Failed")) + 1
      BY <1>finite, <1>sets, <2>1, <3>3, FS_AddElement DEF InState
    <3>5. Cardinality(InState("Cancelled"))'
            = Cardinality(InState("Cancelled")) + Cardinality(cancelled)
      <4>1. InState("Cancelled") \cap cancelled = {}
        BY <3>1 DEF InState
      <4>2. IsFiniteSet(cancelled) /\ Cardinality(cancelled) \in Nat
        BY <1>finite, <1>sets, <3>1
      <4>3. QED
        <5>1. IsFiniteSet(InState("Cancelled"))
              /\ Cardinality(InState("Cancelled")) \in Nat
          BY <1>finite, <1>sets
        <5>2. Cardinality(InState("Cancelled") \cup cancelled)
                = Cardinality(InState("Cancelled")) + Cardinality(cancelled)
          <6>1. Cardinality(InState("Cancelled") \cup cancelled)
                  = Cardinality(InState("Cancelled")) + Cardinality(cancelled)
                    - Cardinality(InState("Cancelled") \cap cancelled)
            BY <4>2, <5>1, FS_Union
          <6>2. Cardinality(InState("Cancelled") \cap cancelled) = 0
            BY <4>1, FS_EmptySet
          <6>3. QED
            BY <4>2, <5>1, <6>1, <6>2
        <5>3. QED
          BY <3>3, <5>2
    <3>6. /\ failed_tasks' = failed_tasks + 1
          /\ cancelled_tasks' = cancelled_tasks + Cardinality(cancelled)
          /\ UNCHANGED completed_tasks
      BY <2>6 DEF FailTask, t, cancelled
    <3>7. QED
      BY <1>workers, <2>2, <3>3, <3>running, <3>4, <3>5, <3>6
      DEF Counted, CountersMatchStates, Typed, Types
  <2>7. QED
    BY <1>3, <2>4, <2>5, <2>6
<1>4. QED
  BY <1>1, <1>2, <1>3, CoreSteps

\* The four counters of run() are the cardinalities of sets of tasks.
THEOREM CountedHolds == Spec => []Counted
<1>1. Init => Counted
  <2> SUFFICES ASSUME Init PROVE Counted
    OBVIOUS
  <2>1. /\ InState("Running") = {} /\ InState("Completed") = {}
        /\ InState("Failed") = {} /\ InState("Cancelled") = {}
    BY DEF Init, InState
  <2>2. Cardinality({}) = 0
    BY FS_EmptySet
  <2>3. Cardinality(Workers) \in Nat
    BY SchedulerAssumption, FS_CardinalityType
  <2>4. /\ running_tasks = 0 /\ completed_tasks = 0
        /\ failed_tasks = 0 /\ cancelled_tasks = 0
    BY DEF Init
  <2>5. QED
    BY <2>1, <2>2, <2>3, <2>4 DEF Counted, CountersMatchStates
<1>2. QED
  BY <1>1, TypesHold, HeldOnceHolds, NextCounted, PTL DEF Spec

\* The four counters that end the loop of run() count the tasks in each state.
THEOREM CountersHold == Spec => []CountersMatchStates
<1>1. Counted => CountersMatchStates
  BY DEF Counted
<1>2. QED
  BY <1>1, CountedHolds, PTL

-----------------------------------------------------------------------------
(***************************************************************************)
(* The dependency counts.                                                  *)
(***************************************************************************)

Unfinished(t) == {d \in Dependencies[t] : state[d] # "Completed"}

RemainingExact ==
  /\ \A t \in Tasks : remaining_dependencies[t] = Cardinality(Unfinished(t))
  /\ ~terminated

LEMMA UnfinishedFinite ==
  ASSUME NEW t \in Tasks
  PROVE  /\ IsFiniteSet(Unfinished(t))
         /\ Cardinality(Unfinished(t)) \in Nat
         /\ Cardinality(Unfinished(t)) = 0 <=> Unfinished(t) = {}
<1>1. Unfinished(t) \in SUBSET Tasks
  BY SchedulerAssumption DEF Unfinished
<1>2. QED
  BY <1>1, TasksFinite, FS_EmptySet

\* A step after which the same tasks are completed leaves the sets alone.
LEMMA UnfinishedKept ==
  ASSUME \A d \in Tasks : state'[d] = "Completed" <=> state[d] = "Completed",
         NEW t \in Tasks
  PROVE  Unfinished(t)' = Unfinished(t)
  BY SchedulerAssumption DEF Unfinished

LEMMA NextRemainingExact ==
  Typed /\ HeldOnce /\ RemainingExact /\ [Next]_vars => RemainingExact'
<1> SUFFICES ASSUME Typed, HeldOnce, RemainingExact, [Next]_vars
             PROVE  RemainingExact'
  OBVIOUS
<1>types. state \in [Tasks -> TaskStates]
  BY DEF Typed, Types
<1>kept. ASSUME UNCHANGED <<remaining_dependencies, terminated>>,
                \A d \in Tasks : state'[d] = "Completed"
                                 <=> state[d] = "Completed"
         PROVE  RemainingExact'
  BY <1>kept, UnfinishedKept DEF RemainingExact
<1>1. CASE UNCHANGED coreVars
  BY <1>1, <1>kept DEF coreVars
<1>2. ASSUME NEW r \in ready_queue, DispatchNext(r) PROVE RemainingExact'
  <2>1. UNCHANGED <<remaining_dependencies, terminated>>
    BY <1>2 DEF DispatchNext
  <2>2. \A d \in Tasks : state'[d] = "Completed" <=> state[d] = "Completed"
    BY <1>2, <1>types, PoppedTask DEF DispatchNext
  <2>3. QED
    BY <1>kept, <2>1, <2>2
<1>3. ASSUME NEW w \in Workers, CompleteTask(w) \/ RetryTask(w) \/ FailTask(w)
      PROVE  RemainingExact'
  <2> DEFINE t == active[w].task_id
  <2>1. t \in Tasks /\ state[t] = "Running"
    BY <1>3, FinisherHolds
  <2>2. CASE CompleteTask(w)
    <3>1. /\ state' = [state EXCEPT ![t] = "Completed"]
          /\ remaining_dependencies' =
               [d \in Tasks |-> IF d \in Dependents(t)
                                THEN remaining_dependencies[d] - 1
                                ELSE remaining_dependencies[d]]
          /\ terminated' =
               (\E d \in Dependents(t) : remaining_dependencies[d] = 0)
      BY <2>2 DEF CompleteTask
    <3> HIDE DEF t
    <3>2. \A d \in Tasks : Unfinished(d)' = Unfinished(d) \ {t}
      BY <1>types, <2>1, <3>1, SchedulerAssumption DEF Unfinished
    <3>3. \A d \in Tasks : t \in Unfinished(d) <=> d \in Dependents(t)
      BY <2>1 DEF Unfinished, Dependents
    <3>4. \A d \in Tasks : Cardinality(Unfinished(d) \ {t}) =
                             IF d \in Dependents(t)
                             THEN Cardinality(Unfinished(d)) - 1
                             ELSE Cardinality(Unfinished(d))
      BY <3>3, UnfinishedFinite, FS_RemoveElement
    <3>5. \A d \in Tasks :
            remaining_dependencies'[d] = Cardinality(Unfinished(d))'
      BY <3>1, <3>2, <3>4 DEF RemainingExact
    <3>6. ~ \E d \in Dependents(t) : remaining_dependencies[d] = 0
      BY <3>3, UnfinishedFinite DEF RemainingExact, Dependents
    <3>7. QED
      BY <3>1, <3>5, <3>6 DEF RemainingExact
  <2>3. CASE RetryTask(w)
    <3>1. \A d \in Tasks : state'[d] = "Completed" <=> state[d] = "Completed"
      BY <1>types, <2>1, <2>3 DEF RetryTask
    <3>2. QED
      BY <1>kept, <2>3, <3>1 DEF RetryTask
  <2>4. CASE FailTask(w)
    <3>1. \A d \in Tasks : state'[d] = "Completed" <=> state[d] = "Completed"
      BY <2>1, <2>4, CancelledWerePending DEF FailTask, InState
    <3>2. QED
      BY <1>kept, <2>4, <3>1 DEF FailTask
  <2>5. QED
    BY <1>3, <2>2, <2>3, <2>4
<1>4. QED
  BY <1>1, <1>2, <1>3, CoreSteps

LEMMA InitRemainingExact == Init => RemainingExact
<1> SUFFICES ASSUME Init PROVE RemainingExact
  OBVIOUS
<1>1. remaining_dependencies = [t \in Tasks |-> Cardinality(Dependencies[t])]
  BY DEF Init, Indegree
<1>2. \A t \in Tasks : Unfinished(t) = Dependencies[t]
  BY SchedulerAssumption DEF Init, Unfinished
<1>3. ~terminated
  BY DEF Init
<1>4. QED
  BY <1>1, <1>2, <1>3 DEF RemainingExact

\* remaining_dependencies counts the dependencies that have not completed, and
\* mark_task_completed has thrown nothing.
THEOREM RemainingExactHolds == Spec => []RemainingExact
  BY InitRemainingExact, TypesHold, HeldOnceHolds, NextRemainingExact, PTL DEF Spec

\* The exception "Dependency count underflow" is never thrown in a worker.
THEOREM NeverTerminatesHolds == Spec => []NeverTerminates
<1>1. RemainingExact => NeverTerminates
  BY DEF RemainingExact, NeverTerminates
<1>2. QED
  BY <1>1, RemainingExactHolds, PTL

\* Types, and the unsigned counters of the code never wrap.
THEOREM TypeOKHolds == Spec => []TypeOK
<1>1. Typed /\ Counted /\ RemainingExact => TypeOK
  <2> SUFFICES ASSUME Typed, Counted, RemainingExact PROVE TypeOK
    OBVIOUS
  <2>1. InState("Running") \in SUBSET Tasks
    BY DEF InState
  <2>2. running_tasks \in Nat
    BY <2>1, TasksFinite DEF Counted, CountersMatchStates
  <2>3. Cardinality(Workers) \in Nat
    BY SchedulerAssumption, FS_CardinalityType
  <2>4. \A t \in Tasks : remaining_dependencies[t] \in Nat
    BY UnfinishedFinite DEF RemainingExact
  <2>5. QED
    BY <2>2, <2>3, <2>4 DEF Typed, Counted, TypeOK
<1>2. QED
  BY <1>1, TypesHold, CountedHolds, RemainingExactHolds, PTL

-----------------------------------------------------------------------------
(***************************************************************************)
(* The least set closed under dependents.                                  *)
(***************************************************************************)

LEMMA ReachedClosed ==
  ASSUME NEW S, NEW Within
  PROVE  ClosedUnderDependents(ReachedFrom(S, Within), S, Within)
<1> DEFINE R == ReachedFrom(S, Within)
<1>1. \A D \in SUBSET Within : ClosedUnderDependents(D, S, Within) => R \subseteq D
  BY DEF ReachedFrom
<1> SUFFICES ASSUME NEW d \in Within, Dependencies[d] \cap (S \cup R) # {}
             PROVE  d \in R
  BY DEF ClosedUnderDependents
<1>2. ASSUME NEW D \in SUBSET Within, ClosedUnderDependents(D, S, Within)
      PROVE  d \in D
  BY <1>1, <1>2 DEF ClosedUnderDependents
<1>3. QED
  BY <1>2 DEF ReachedFrom

\* A member of the least closed set is there because of a dependency.
LEMMA ReachedHasParent ==
  ASSUME NEW S, NEW Within, NEW u \in ReachedFrom(S, Within)
  PROVE  Dependencies[u] \cap (S \cup ReachedFrom(S, Within)) # {}
<1> DEFINE R == ReachedFrom(S, Within)
           D == R \ {u}
<1>1. R \subseteq Within
  BY DEF ReachedFrom
<1>2. ClosedUnderDependents(R, S, Within)
  BY ReachedClosed
<1>3. u \in R
  OBVIOUS
<1> SUFFICES ASSUME Dependencies[u] \cap (S \cup R) = {} PROVE FALSE
  OBVIOUS
<1> HIDE DEF R
<1>4. ClosedUnderDependents(D, S, Within)
  <2> SUFFICES ASSUME NEW d \in Within, Dependencies[d] \cap (S \cup D) # {}
               PROVE  d \in D
    BY DEF ClosedUnderDependents
  <2>1. d \in R
    BY <1>2 DEF ClosedUnderDependents
  <2>2. d # u
    OBVIOUS
  <2>3. QED
    BY <2>1, <2>2
<1>5. u \in D
  BY <1>1, <1>3, <1>4 DEF ReachedFrom, R
<1>6. QED
  BY <1>5

-----------------------------------------------------------------------------
(***************************************************************************)
(* The ready queue.                                                        *)
(***************************************************************************)

QueuedTasks == {r.task_id : r \in ready_queue}

\* Distinct entries are entries of distinct tasks with distinct insertion
\* orders, and the next insertion order is above all of them.
QueueDistinct ==
  /\ \A q, r \in ready_queue :
       q.task_id = r.task_id \/ q.insertion_order = r.insertion_order => q = r
  /\ \A r \in ready_queue : r.insertion_order < enqueue_sequence

\* Tasks enqueued in one go get distinct insertion orders.
LEMMA RankDistinct ==
  ASSUME NEW S \in SUBSET Tasks, NEW t \in S
  PROVE  /\ Cardinality({v \in S : v < t}) \in Nat
         /\ Cardinality({v \in S : v < t}) < Cardinality(S)
         /\ \A u \in S : Cardinality({v \in S : v < t})
                           = Cardinality({v \in S : v < u}) => t = u
<1> DEFINE Below(u) == {v \in S : v < u}
<1>1. \A u \in S : Below(u) \in SUBSET S /\ Below(u) \in SUBSET Tasks
  OBVIOUS
<1>2. \A u \in S : u \in Int /\ u \notin Below(u)
  BY DEF Tasks
<1>3. IsFiniteSet(S) /\ Cardinality(S) \in Nat
  BY TasksFinite
<1>4. \A u \in S : IsFiniteSet(Below(u)) /\ Cardinality(Below(u)) \in Nat
  BY <1>1, TasksFinite
<1>5. \A u \in S : Cardinality(Below(u)) < Cardinality(S)
  BY <1>1, <1>2, <1>3, <1>4, FS_Subset
<1>6. \A u, v \in S : u < v => Cardinality(Below(u)) < Cardinality(Below(v))
  <2> SUFFICES ASSUME NEW u \in S, NEW v \in S, u < v
               PROVE  Cardinality(Below(u)) < Cardinality(Below(v))
    OBVIOUS
  <2>1. Below(u) \in SUBSET Below(v)
    BY <1>2
  <2>2. u \in Below(v) /\ u \notin Below(u)
    BY <1>2
  <2>3. /\ IsFiniteSet(Below(v))
        /\ Cardinality(Below(u)) \in Nat /\ Cardinality(Below(v)) \in Nat
    BY <1>4
  <2> HIDE DEF Below
  <2>4. /\ Cardinality(Below(u)) <= Cardinality(Below(v))
        /\ Cardinality(Below(v)) # Cardinality(Below(u))
    BY <2>1, <2>2, <2>3, FS_Subset
  <2>5. QED
    BY <2>3, <2>4
<1>7. \A u \in S : Cardinality(Below(t)) = Cardinality(Below(u)) => t = u
  <2> SUFFICES ASSUME NEW u \in S, t # u
               PROVE  Cardinality(Below(t)) # Cardinality(Below(u))
    OBVIOUS
  <2>1. t < u \/ u < t
    BY <1>2
  <2> HIDE DEF Below
  <2>2. QED
    BY <1>4, <1>6, <2>1
<1>8. QED
  BY <1>4, <1>5, <1>7

\* What enqueue_ready_task does to the queue when none of the tasks is in it.
LEMMA Enqueue ==
  ASSUME Typed, QueueDistinct, NEW S \in SUBSET Tasks,
         S \cap QueuedTasks = {}, enqueue_ready_tasks(S)
  PROVE  /\ QueuedTasks' = QueuedTasks \cup S
         /\ QueueDistinct'
<1> DEFINE order(t) == enqueue_sequence + Cardinality({v \in S : v < t})
           added == ReadyTasks(S, enqueue_sequence)
<1>1. /\ ready_queue' = ready_queue \cup added
      /\ enqueue_sequence' = enqueue_sequence + Cardinality(S)
  BY DEF enqueue_ready_tasks
<1>2. added = {ReadyTask(t, order(t)) : t \in S}
  BY DEF ReadyTasks
<1>3. /\ enqueue_sequence \in Nat
      /\ \A r \in ready_queue : r.insertion_order \in Nat
      /\ Cardinality(S) \in Nat
  BY TasksFinite DEF Typed, Types
<1>4. \A t \in S : /\ order(t) \in Nat
                   /\ order(t) >= enqueue_sequence
                   /\ order(t) < enqueue_sequence + Cardinality(S)
  BY <1>3, RankDistinct
<1>5. ASSUME NEW t \in S, NEW u \in S, order(t) = order(u)
      PROVE  t = u
  <2>1. /\ Cardinality({v \in S : v < t}) \in Nat
        /\ Cardinality({v \in S : v < u}) \in Nat
    BY RankDistinct
  <2>2. Cardinality({v \in S : v < t}) = Cardinality({v \in S : v < u})
    BY <1>3, <1>5, <2>1
  <2>3. QED
    BY <2>2, RankDistinct
<1> HIDE DEF order, added
<1>6. \A t \in S : /\ ReadyTask(t, order(t)).task_id = t
                   /\ ReadyTask(t, order(t)).insertion_order = order(t)
  BY DEF ReadyTask
<1>7. QueuedTasks' = QueuedTasks \cup S
  <2>1. {r.task_id : r \in added} = S
    BY <1>2, <1>6
  <2>2. QED
    BY <1>1, <2>1 DEF QueuedTasks
<1>8. \A r \in added : /\ r.insertion_order >= enqueue_sequence
                       /\ r.insertion_order < enqueue_sequence + Cardinality(S)
                       /\ r.insertion_order \in Nat
                       /\ r.task_id \in S
  BY <1>2, <1>4, <1>6
<1>9. \A q, r \in added :
        q.task_id = r.task_id \/ q.insertion_order = r.insertion_order => q = r
  BY <1>2, <1>5, <1>6
<1>10. \A q \in ready_queue, r \in added :
         q.task_id # r.task_id /\ q.insertion_order # r.insertion_order
  BY <1>3, <1>8 DEF QueueDistinct, QueuedTasks
<1>11. QED
  BY <1>1, <1>3, <1>7, <1>8, <1>9, <1>10 DEF QueueDistinct

-----------------------------------------------------------------------------
(***************************************************************************)
(* Order and cancellation.                                                 *)
(***************************************************************************)

RunnableTasks == {t \in Tasks : Runnable(t)}

Ordered ==
  /\ DependenciesCompleteFirst
  /\ CancelledExactlyDownstream
  /\ QueuedTasks = RunnableTasks
  /\ QueueDistinct

LEMMA DispatchOrdered ==
  ASSUME Typed, Ordered, NEW r \in ready_queue, DispatchNext(r)
  PROVE  Ordered'
<1> DEFINE t == r.task_id
<1>1. /\ t \in Tasks
      /\ state[t] = "Pending"
      /\ \A d \in Dependencies[t] : state[d] = "Completed"
  BY DEF Ordered, QueuedTasks, RunnableTasks, Runnable
<1>2. /\ state' = [state EXCEPT ![t] = "Running"]
      /\ ready_queue' = ready_queue \ {r}
      /\ enqueue_sequence' = enqueue_sequence
  BY <1>1 DEF DispatchNext
<1>3. state \in [Tasks -> TaskStates]
  BY DEF Typed, Types
<1>4. \A d \in Tasks : Dependencies[d] \subseteq Tasks
  BY SchedulerAssumption
<1>5. QueuedTasks' = QueuedTasks \ {t}
  BY <1>2 DEF QueuedTasks, Ordered, QueueDistinct
<1>6. QueueDistinct'
  BY <1>2 DEF Ordered, QueueDistinct
<1> HIDE DEF t
<1>7. \A u \in Tasks : state'[u] = IF u = t THEN "Running" ELSE state[u]
  BY <1>2, <1>3
<1>8. RunnableTasks' = RunnableTasks \ {t}
  BY <1>1, <1>4, <1>7 DEF RunnableTasks, Runnable
<1>9. DependenciesCompleteFirst'
  BY <1>1, <1>4, <1>7 DEF Ordered, DependenciesCompleteFirst
<1>10. CancelledExactlyDownstream'
  BY <1>1, <1>4, <1>7 DEF Ordered, CancelledExactlyDownstream
<1>11. QED
  BY <1>5, <1>6, <1>8, <1>9, <1>10 DEF Ordered

LEMMA CompleteOrdered ==
  ASSUME Typed, HeldOnce, RemainingExact, Ordered,
         NEW w \in Workers, CompleteTask(w)
  PROVE  Ordered'
<1> DEFINE t == active[w].task_id
<1>1. t \in Tasks /\ state[t] = "Running"
  BY FinisherHolds
<1>2. /\ state' = [state EXCEPT ![t] = "Completed"]
      /\ enqueue_ready_tasks(Released(t))
  BY DEF CompleteTask
<1>3. state \in [Tasks -> TaskStates]
  BY DEF Typed, Types
<1>4. \A d \in Tasks : Dependencies[d] \subseteq Tasks
  BY SchedulerAssumption
<1> HIDE DEF t
<1>5. \A u \in Tasks : state'[u] = IF u = t THEN "Completed" ELSE state[u]
  BY <1>1, <1>2, <1>3
<1>6. \A u \in Tasks :
        u \in Released(t) <=> t \in Dependencies[u] /\ Unfinished(u) = {t}
  <2> SUFFICES ASSUME NEW u \in Tasks
               PROVE  u \in Released(t) <=>
                        t \in Dependencies[u] /\ Unfinished(u) = {t}
    OBVIOUS
  <2>1. u \in Released(t) <=> t \in Dependencies[u] /\ Cardinality(Unfinished(u)) = 1
    BY DEF Released, Dependents, RemainingExact
  <2>2. Cardinality(Unfinished(u)) = 1 <=> \E x : Unfinished(u) = {x}
    BY UnfinishedFinite, FS_Singleton
  <2>3. t \in Dependencies[u] => t \in Unfinished(u)
    BY <1>1 DEF Unfinished
  <2>4. QED
    BY <2>1, <2>2, <2>3
<1>7. \A u \in Released(t) : state[u] = "Pending"
  <2> SUFFICES ASSUME NEW u \in Released(t) PROVE state[u] = "Pending"
    OBVIOUS
  <2>1. u \in Tasks
    BY DEF Released, Dependents
  <2>2. t \in Dependencies[u] /\ Unfinished(u) = {t}
    BY <1>6, <2>1
  <2>3. state[u] \notin {"Running", "Completed", "Failed"}
    BY <1>1, <2>1, <2>2 DEF Ordered, DependenciesCompleteFirst
  <2>4. state[u] # "Cancelled"
    <3>1. ASSUME NEW d \in Dependencies[u], state[d] \in {"Failed", "Cancelled"}
          PROVE  FALSE
      BY <1>1, <2>2, <3>1 DEF Unfinished
    <3>2. QED
      BY <2>1, <3>1 DEF Ordered, CancelledExactlyDownstream
  <2>5. QED
    BY <1>3, <2>1, <2>3, <2>4 DEF TaskStates
<1>8. RunnableTasks' = RunnableTasks \cup Released(t)
  <2>1. ASSUME NEW u \in Tasks
        PROVE  Runnable(u)' <=> Runnable(u) \/ u \in Released(t)
    BY <1>1, <1>4, <1>5, <1>6, <1>7 DEF Runnable, Unfinished
  <2>2. Released(t) \subseteq Tasks
    BY DEF Released, Dependents
  <2>3. QED
    BY <2>1, <2>2 DEF RunnableTasks
<1>9. QueuedTasks' = QueuedTasks \cup Released(t) /\ QueueDistinct'
  <2>1. Released(t) \in SUBSET Tasks
    BY DEF Released, Dependents
  <2>2. Released(t) \cap RunnableTasks = {}
    BY <1>1, <1>6 DEF RunnableTasks, Runnable
  <2>3. QED
    BY <1>2, <2>1, <2>2, Enqueue DEF Ordered
<1>10. DependenciesCompleteFirst'
  BY <1>1, <1>4, <1>5 DEF Ordered, DependenciesCompleteFirst
<1>11. CancelledExactlyDownstream'
  BY <1>1, <1>4, <1>5 DEF Ordered, CancelledExactlyDownstream
<1>12. QED
  BY <1>8, <1>9, <1>10, <1>11 DEF Ordered

LEMMA RetryOrdered ==
  ASSUME Typed, HeldOnce, Ordered, NEW w \in Workers, RetryTask(w)
  PROVE  Ordered'
<1> DEFINE t == active[w].task_id
<1>1. t \in Tasks /\ state[t] = "Running"
  BY FinisherHolds
<1>2. /\ state' = [state EXCEPT ![t] = "Pending"]
      /\ enqueue_ready_tasks({t})
  BY DEF RetryTask
<1>3. state \in [Tasks -> TaskStates]
  BY DEF Typed, Types
<1>4. \A d \in Tasks : Dependencies[d] \subseteq Tasks
  BY SchedulerAssumption
<1> HIDE DEF t
<1>5. \A u \in Tasks : state'[u] = IF u = t THEN "Pending" ELSE state[u]
  BY <1>1, <1>2, <1>3
<1>6. RunnableTasks' = RunnableTasks \cup {t}
  BY <1>1, <1>4, <1>5
  DEF RunnableTasks, Runnable, Ordered, DependenciesCompleteFirst
<1>7. QueuedTasks' = QueuedTasks \cup {t} /\ QueueDistinct'
  <2>1. {t} \cap RunnableTasks = {}
    BY <1>1 DEF RunnableTasks, Runnable
  <2>2. QED
    BY <1>1, <1>2, <2>1, Enqueue DEF Ordered
<1>8. DependenciesCompleteFirst'
  BY <1>1, <1>4, <1>5 DEF Ordered, DependenciesCompleteFirst
<1>9. CancelledExactlyDownstream'
  BY <1>1, <1>4, <1>5 DEF Ordered, CancelledExactlyDownstream
<1>10. QED
  BY <1>6, <1>7, <1>8, <1>9 DEF Ordered

LEMMA FailOrdered ==
  ASSUME Typed, HeldOnce, Ordered, NEW w \in Workers, FailTask(w)
  PROVE  Ordered'
<1> DEFINE t == active[w].task_id
           cancelled == CancelledBy(t)
<1>1. t \in Tasks /\ state[t] = "Running"
  BY FinisherHolds
<1>2. /\ state' = [d \in Tasks |-> IF d = t THEN "Failed"
                                   ELSE IF d \in cancelled THEN "Cancelled"
                                   ELSE state[d]]
      /\ UNCHANGED <<ready_queue, enqueue_sequence>>
  BY DEF FailTask, queueVars
<1>3. \A u \in cancelled : u \in Tasks /\ state[u] = "Pending"
  BY CancelledWerePending DEF InState
<1>4. \A d \in Tasks : Dependencies[d] \subseteq Tasks
  BY SchedulerAssumption
<1>5. \A u \in Tasks : state[u] = "Pending"
                       /\ Dependencies[u] \cap ({t} \cup cancelled) # {}
                       => u \in cancelled
  BY ReachedClosed DEF CancelledBy, ClosedUnderDependents, InState
<1>6. \A u \in cancelled : Dependencies[u] \cap ({t} \cup cancelled) # {}
  BY ReachedHasParent DEF CancelledBy
<1> HIDE DEF t, cancelled
<1>7. state \in [Tasks -> TaskStates]
  BY DEF Typed, Types
<1>8. \A u \in Tasks : state'[u] = IF u = t THEN "Failed"
                                   ELSE IF u \in cancelled THEN "Cancelled"
                                   ELSE state[u]
  BY <1>2
<1>9. \A u \in {t} \cup cancelled : u \in Tasks /\ state[u] \in {"Running", "Pending"}
  BY <1>1, <1>3
<1>10. RunnableTasks' = RunnableTasks
  <2>1. ASSUME NEW u \in Tasks PROVE Runnable(u)' <=> Runnable(u)
    BY <1>1, <1>3, <1>4, <1>6, <1>8, <1>9 DEF Runnable
  <2>2. QED
    BY <2>1 DEF RunnableTasks
<1>11. QueuedTasks' = QueuedTasks /\ QueueDistinct'
  BY <1>2 DEF Ordered, QueuedTasks, QueueDistinct
<1>12. DependenciesCompleteFirst'
  BY <1>1, <1>4, <1>8, <1>9 DEF Ordered, DependenciesCompleteFirst
<1>13. CancelledExactlyDownstream'
  <2> SUFFICES ASSUME NEW u \in Tasks
               PROVE  state'[u] = "Cancelled" <=>
                        \E d \in Dependencies[u] :
                          state'[d] \in {"Failed", "Cancelled"}
    BY DEF CancelledExactlyDownstream
  <2>1. \A d \in Dependencies[u] :
          state'[d] \in {"Failed", "Cancelled"} <=>
            d \in {t} \cup cancelled \/ state[d] \in {"Failed", "Cancelled"}
    BY <1>4, <1>8
  <2>2. state'[u] = "Cancelled" <=> u \in cancelled \/ state[u] = "Cancelled"
    BY <1>1, <1>3, <1>8
  <2>3. state[u] = "Cancelled" <=>
          \E d \in Dependencies[u] : state[d] \in {"Failed", "Cancelled"}
    BY DEF Ordered, CancelledExactlyDownstream
  <2>4. ASSUME NEW d \in Dependencies[u], d \in {t} \cup cancelled
        PROVE  u \in cancelled \/ state[u] = "Cancelled"
    <3>1. state[d] # "Completed"
      BY <1>9, <2>4
    <3>2. state[u] \in {"Pending", "Cancelled"}
      BY <1>7, <3>1 DEF Ordered, DependenciesCompleteFirst, TaskStates
    <3>3. QED
      BY <1>5, <2>4, <3>2
  <2>5. QED
    BY <1>6, <2>1, <2>2, <2>3, <2>4
<1>14. QED
  BY <1>10, <1>11, <1>12, <1>13 DEF Ordered

LEMMA NextOrdered ==
  Typed /\ HeldOnce /\ RemainingExact /\ Ordered /\ [Next]_vars => Ordered'
<1> SUFFICES ASSUME Typed, HeldOnce, RemainingExact, Ordered, [Next]_vars
             PROVE  Ordered'
  OBVIOUS
<1>1. CASE UNCHANGED coreVars
  BY <1>1 DEF coreVars, queueVars, Ordered, DependenciesCompleteFirst,
     CancelledExactlyDownstream, QueuedTasks, RunnableTasks, Runnable,
     QueueDistinct
<1>2. QED
  BY <1>1, CoreSteps, DispatchOrdered, CompleteOrdered, RetryOrdered, FailOrdered

LEMMA InitOrdered == Init => Ordered
<1> SUFFICES ASSUME Init PROVE Ordered
  OBVIOUS
<1> DEFINE S == {t \in Tasks : Indegree(t) = 0}
<1>1. /\ state = [t \in Tasks |-> "Pending"]
      /\ ready_queue = ReadyTasks(S, 0)
      /\ enqueue_sequence = Cardinality(S)
  BY DEF Init
<1>2. \A t \in Tasks : Indegree(t) = 0 <=> Dependencies[t] = {}
  BY SchedulerAssumption, TasksFinite, FS_EmptySet DEF Indegree
<1>3. S \in SUBSET Tasks
  OBVIOUS
<1>4. RunnableTasks = S
  BY <1>1, <1>2, SchedulerAssumption DEF RunnableTasks, Runnable
<1> DEFINE order(t) == 0 + Cardinality({v \in S : v < t})
<1>5. ready_queue = {ReadyTask(t, order(t)) : t \in S}
  BY <1>1 DEF ReadyTasks
<1>6. \A t \in S : order(t) < Cardinality(S)
  BY <1>3, RankDistinct
<1>7. ASSUME NEW t \in S, NEW u \in S, order(t) = order(u)
      PROVE  t = u
  <2>1. /\ Cardinality({v \in S : v < t}) \in Nat
        /\ Cardinality({v \in S : v < u}) \in Nat
    BY <1>3, RankDistinct
  <2>2. Cardinality({v \in S : v < t}) = Cardinality({v \in S : v < u})
    BY <1>7, <2>1
  <2>3. QED
    BY <1>3, <2>2, RankDistinct
<1> HIDE DEF order, S
<1>8. \A t \in S : /\ ReadyTask(t, order(t)).task_id = t
                   /\ ReadyTask(t, order(t)).insertion_order = order(t)
  BY DEF ReadyTask
<1>9. QueuedTasks = S
  BY <1>5, <1>8 DEF QueuedTasks
<1>10. QueueDistinct
  BY <1>1, <1>5, <1>6, <1>7, <1>8 DEF QueueDistinct
<1>11. DependenciesCompleteFirst /\ CancelledExactlyDownstream
  BY <1>1, SchedulerAssumption
  DEF DependenciesCompleteFirst, CancelledExactlyDownstream
<1>12. QED
  BY <1>4, <1>9, <1>10, <1>11 DEF Ordered

\* The states of tasks agree with those of their dependencies, and the ready
\* queue with the states.
THEOREM OrderedHolds == Spec => []Ordered
  BY InitOrdered, NextOrdered, TypesHold, HeldOnceHolds, RemainingExactHolds,
     PTL DEF Spec

\* No task is dispatched before everything it depends on has completed.
THEOREM DependenciesCompleteFirstHolds == Spec => []DependenciesCompleteFirst
<1>1. Ordered => DependenciesCompleteFirst
  BY DEF Ordered
<1>2. QED
  BY <1>1, OrderedHolds, PTL

\* A failure cancels all that is downstream of it, and nothing else.
THEOREM CancelledExactlyDownstreamHolds == Spec => []CancelledExactlyDownstream
<1>1. Ordered => CancelledExactlyDownstream
  BY DEF Ordered
<1>2. QED
  BY <1>1, OrderedHolds, PTL

\* The ready queue holds one entry for each runnable task and nothing else.
THEOREM ReadyQueueExactHolds == Spec => []ReadyQueueExact
<1>1. Ordered => ReadyQueueExact
  BY DEF Ordered, QueuedTasks, RunnableTasks, QueueDistinct, ReadyQueueExact
<1>2. QED
  BY <1>1, OrderedHolds, PTL

-----------------------------------------------------------------------------
(***************************************************************************)
(* What a run comes to: who holds a running task, what the summary         *)
(* reports, that the outcome does not depend on the schedule, and that     *)
(* every step is one of module TaskRun.  First, a running task is held.    *)
(***************************************************************************)

\* Some entry of s is about t.
Mentions(s, t) == \E i \in DOMAIN s : s[i].task_id = t

\* Some worker executes t.
Executes(t) == \E w \in Executing : active[w].task_id = t

\* No running task is forgotten.
Held ==
  \A t \in Tasks : state[t] = "Running" =>
    Mentions(to_launch, t) \/ Mentions(jobs, t) \/ Executes(t)

LEMMA MentionsAppend ==
  ASSUME NEW S, NEW s \in Seq(S), NEW j \in S, NEW t
  PROVE  Mentions(Append(s, j), t) <=> Mentions(s, t) \/ j.task_id = t
<1>1. /\ DOMAIN Append(s, j) = DOMAIN s \cup {Len(s) + 1}
      /\ \A i \in DOMAIN s : Append(s, j)[i] = s[i]
      /\ Append(s, j)[Len(s) + 1] = j
  OBVIOUS
<1>2. QED
  BY <1>1 DEF Mentions

LEMMA MentionsHeadTail ==
  ASSUME NEW S, NEW s \in Seq(S), s # <<>>, NEW t
  PROVE  Mentions(s, t) <=> Head(s).task_id = t \/ Mentions(Tail(s), t)
<1>1. /\ Len(s) \in Nat \ {0}
      /\ DOMAIN s = 1 .. Len(s)
      /\ DOMAIN Tail(s) = 1 .. Len(s) - 1
      /\ \A i \in 1 .. Len(s) - 1 : Tail(s)[i] = s[i + 1]
      /\ Head(s) = s[1]
  OBVIOUS
<1>2. ASSUME NEW i \in 1 .. Len(s)
      PROVE  i = 1 \/ (i - 1 \in 1 .. Len(s) - 1 /\ s[i] = Tail(s)[i - 1])
  BY <1>1
<1>3. Mentions(s, t) => Head(s).task_id = t \/ Mentions(Tail(s), t)
  BY <1>1, <1>2 DEF Mentions
<1>4. Head(s).task_id = t => Mentions(s, t)
  BY <1>1 DEF Mentions
<1>5. Mentions(Tail(s), t) => Mentions(s, t)
  <2> SUFFICES ASSUME NEW i \in 1 .. Len(s) - 1, Tail(s)[i].task_id = t
               PROVE  Mentions(s, t)
    BY <1>1 DEF Mentions
  <2>1. i + 1 \in 1 .. Len(s) /\ s[i + 1].task_id = t
    BY <1>1
  <2>2. QED
    BY <1>1, <2>1 DEF Mentions
<1>6. QED
  BY <1>3, <1>4, <1>5

LEMMA NextHeld == Typed /\ HeldOnce /\ Held /\ [Next]_vars => Held'
<1> SUFFICES ASSUME Typed, HeldOnce, Held, [Next]_vars PROVE Held'
  OBVIOUS
<1> USE DEF sharedVars, taskVars, queueVars, counters, mainVars, poolVars,
            MainGoto, ExecGoto
<1>types. /\ state \in [Tasks -> TaskStates]
          /\ exec \in [Workers -> {"idle", "start", "sleep", "finish", "notify"}]
          /\ to_launch \in Seq(Jobs)
          /\ jobs \in Seq(Jobs)
          /\ active \in [Workers -> Jobs \cup {NoJob}]
  BY DEF Typed, Types
<1>kept. ASSUME UNCHANGED <<to_launch, jobs, active>>, Executing' = Executing,
                \A t \in Tasks : state'[t] = "Running" => state[t] = "Running"
         PROVE  Held'
  BY <1>kept DEF Held, Mentions, Executes
<1>1. CASE \/ LockMutex \/ DispatchEnd \/ SubmitEnd \/ EnterLoop \/ LeaveLoop
           \/ WaitTest \/ Block \/ SpuriousWakeup \/ Relock
           \/ Shutdown \/ Join \/ UNCHANGED vars
  <2>1. UNCHANGED <<state, to_launch, exec, jobs, active>>
    BY <1>1 DEF LockMutex, DispatchEnd, SubmitEnd, EnterLoop, LeaveLoop,
       WaitTest, Block, SpuriousWakeup, Relock, Shutdown, Join, Pool!Stop, vars
  <2>2. QED
    BY <1>kept, <2>1 DEF Executing
<1>2. ASSUME NEW r \in ready_queue, DispatchNext(r) PROVE Held'
  <2>0. r.task_id \in Tasks
    BY PoppedTask
  <2>1. CASE state[r.task_id] = "Pending"
    <3> DEFINE j == [task_id |-> r.task_id,
                     attempt |-> attempts_by_task[r.task_id] + 1]
    <3>1. /\ to_launch' = Append(to_launch, j)
          /\ state' = [state EXCEPT ![r.task_id] = "Running"]
          /\ UNCHANGED <<exec, jobs, active>>
      BY <1>2, <2>1 DEF DispatchNext
    <3>2. j \in Jobs /\ j.task_id = r.task_id
      BY <2>0 DEF Jobs, Typed, Types
    <3> HIDE DEF j
    <3>3. \A t : Mentions(to_launch, t)' <=> Mentions(to_launch, t) \/ r.task_id = t
      <4> TAKE t
      <4>1. Mentions(Append(to_launch, j), t)
              <=> Mentions(to_launch, t) \/ j.task_id = t
        BY <1>types, <3>2, MentionsAppend
      <4>2. QED
        BY <3>1, <3>2, <4>1 DEF Mentions
    <3>4. \A t : /\ Mentions(jobs, t)' <=> Mentions(jobs, t)
                 /\ Executes(t)' <=> Executes(t)
      BY <3>1 DEF Mentions, Executes, Executing
    <3>5. \A t \in Tasks : state'[t] = "Running"
                           => state[t] = "Running" \/ t = r.task_id
      BY <1>types, <3>1
    <3>6. QED
      BY <3>3, <3>4, <3>5 DEF Held
  <2>2. CASE state[r.task_id] # "Pending"
    <3>1. UNCHANGED <<state, to_launch, exec, jobs, active>>
      BY <1>2, <2>2 DEF DispatchNext
    <3>2. QED
      BY <1>kept, <3>1 DEF Executing
  <2>3. QED
    BY <2>1, <2>2
<1>3. CASE SubmitNext
  <2>1. /\ to_launch # <<>>
        /\ to_launch' = Tail(to_launch)
        /\ jobs' = Append(jobs, Head(to_launch))
        /\ UNCHANGED <<state, exec, active>>
    BY <1>3 DEF SubmitNext, Pool!Submit
  <2>2. Head(to_launch) \in Jobs
    BY <1>types, <2>1
  <2>3. ASSUME NEW t
        PROVE  Mentions(to_launch, t) \/ Mentions(jobs, t)
                 => Mentions(to_launch, t)' \/ Mentions(jobs, t)'
    <3>1. Mentions(to_launch, t)
            <=> Head(to_launch).task_id = t \/ Mentions(Tail(to_launch), t)
      BY <1>types, <2>1, MentionsHeadTail
    <3>2. Mentions(Append(jobs, Head(to_launch)), t)
            <=> Mentions(jobs, t) \/ Head(to_launch).task_id = t
      BY <1>types, <2>2, MentionsAppend
    <3>3. /\ Mentions(to_launch, t)' <=> Mentions(Tail(to_launch), t)
          /\ Mentions(jobs, t)' <=> Mentions(Append(jobs, Head(to_launch)), t)
      BY <2>1 DEF Mentions
    <3>4. QED
      BY <3>1, <3>2, <3>3
  <2>4. \A t : Executes(t)' <=> Executes(t)
    BY <2>1 DEF Executes, Executing
  <2>5. QED
    BY <2>1, <2>3, <2>4 DEF Held
<1>4. ASSUME NEW w \in Workers, WorkerStep(w) PROVE Held'
  <2>1. CASE TakeJob(w)
    <3>1. /\ jobs # <<>>
          /\ jobs' = Tail(jobs)
          /\ active' = [active EXCEPT ![w] = Head(jobs)]
          /\ exec[w] = "idle"
          /\ exec' = [exec EXCEPT ![w] = "start"]
          /\ UNCHANGED <<state, to_launch>>
      BY <2>1 DEF TakeJob, Pool!Take, Pool!Popped
    <3>2. Executing' = Executing \cup {w} /\ w \notin Executing
      BY <1>types, <3>1 DEF Executing
    <3>3. \A v \in Executing : active'[v] = active[v]
      BY <1>types, <3>1, <3>2 DEF Executing
    <3>4. active'[w] = Head(jobs)
      BY <1>types, <3>1
    <3>5. \A t : Mentions(jobs, t) <=> Head(jobs).task_id = t \/ Mentions(Tail(jobs), t)
      BY <1>types, <3>1, MentionsHeadTail
    <3>6. \A t : Executes(t)' <=> Executes(t) \/ Head(jobs).task_id = t
      BY <3>2, <3>3, <3>4 DEF Executes
    <3>7. \A t : /\ Mentions(to_launch, t)' <=> Mentions(to_launch, t)
                 /\ Mentions(jobs, t)' <=> Mentions(Tail(jobs), t)
      BY <3>1 DEF Mentions
    <3>8. QED
      BY <3>1, <3>5, <3>6, <3>7 DEF Held
  <2>2. CASE StartTask(w) \/ DecideTask(w)
    <3>1. /\ exec[w] \in {"start", "sleep"}
          /\ exec' \in {[exec EXCEPT ![w] = "sleep"], [exec EXCEPT ![w] = "finish"]}
          /\ UNCHANGED <<state, to_launch, jobs, active>>
      BY <2>2 DEF StartTask, DecideTask
    <3>2. Executing' = Executing
      BY <1>types, <3>1 DEF Executing
    <3>3. QED
      BY <1>kept, <3>1, <3>2
  <2>3. CASE CompleteTask(w) \/ RetryTask(w) \/ FailTask(w)
    <3> DEFINE t == active[w].task_id
    <3>1. t \in Tasks /\ state[t] = "Running"
      BY <2>3, FinisherHolds
    <3>2. /\ exec[w] = "finish"
          /\ exec' = [exec EXCEPT ![w] = "notify"]
          /\ UNCHANGED <<to_launch, jobs, active>>
      BY <2>3 DEF CompleteTask, RetryTask, FailTask, FinishTask
    <3>3. Executing' = Executing \ {w} /\ w \in Executing
      BY <1>types, <3>2 DEF Executing
    <3>4. \A u \in Tasks : state'[u] = "Running" => state[u] = "Running" /\ u # t
      BY <1>types, <2>3, <3>1 DEF CompleteTask, RetryTask, FailTask
    <3> HIDE DEF t
    <3>5. \A u : u # t /\ Executes(u) => Executes(u)'
      BY <3>2, <3>3 DEF Executes, t
    <3>6. \A u : /\ Mentions(to_launch, u)' <=> Mentions(to_launch, u)
                 /\ Mentions(jobs, u)' <=> Mentions(jobs, u)
      BY <3>2 DEF Mentions
    <3>7. QED
      BY <3>4, <3>5, <3>6 DEF Held
  <2>4. CASE NotifyMain(w)
    <3>1. /\ exec[w] = "notify"
          /\ exec' = [exec EXCEPT ![w] = "idle"]
          /\ active' = [active EXCEPT ![w] = NoJob]
          /\ UNCHANGED <<state, to_launch, jobs>>
      BY <2>4 DEF NotifyMain, Pool!Return
    <3>2. Executing' = Executing /\ w \notin Executing
      BY <1>types, <3>1 DEF Executing
    <3>3. \A v \in Executing : active'[v] = active[v]
      BY <1>types, <3>1, <3>2 DEF Executing
    <3>4. QED
      BY <3>1, <3>2, <3>3 DEF Held, Mentions, Executes
  <2>5. CASE ExitWorker(w)
    <3>1. UNCHANGED <<state, to_launch, exec, jobs, active>>
      BY <2>5 DEF ExitWorker, Pool!Exit
    <3>2. QED
      BY <1>kept, <3>1 DEF Executing
  <2>6. QED
    BY <1>4, <2>1, <2>2, <2>3, <2>4, <2>5 DEF WorkerStep
<1>5. QED
  BY <1>1, <1>2, <1>3, <1>4 DEF Next, MainStep, Finished

\* A running task is never forgotten: it waits to be launched, it is queued, or a
\* worker executes it.
THEOREM HeldHolds == Spec => []Held
<1>1. Init => Held
  BY DEF Init, Held
<1>2. QED
  BY <1>1, TypesHold, HeldOnceHolds, NextHeld, PTL DEF Spec

-----------------------------------------------------------------------------
(***************************************************************************)
(* One holder.                                                             *)
(***************************************************************************)

\* A set with at most one member has none or one.
LEMMA AtMostOne ==
  ASSUME NEW S, \A x, y \in S : x = y
  PROVE  Cardinality(S) = IF S = {} THEN 0 ELSE 1
<1>1. CASE S = {}
  BY <1>1, FS_EmptySet
<1>2. ASSUME NEW x \in S PROVE Cardinality(S) = 1
  <2>1. S = {x}
    BY <1>2
  <2>2. QED
    BY <2>1, FS_Singleton
<1>3. QED
  BY <1>1, <1>2

\* A running task is in exactly one place, to_launch, the pool's queue or on a
\* worker, a task that is not running is in none, and a worker executes the
\* current attempt.
THEOREM RunningHasOneHolderHolds == Spec => []RunningHasOneHolder
<1>1. Typed /\ HeldOnce /\ Held => RunningHasOneHolder
  <2> SUFFICES ASSUME Typed, HeldOnce, Held PROVE RunningHasOneHolder
    OBVIOUS
  <2>1. \A w \in Executing : Current(active[w])
    BY DEF HeldOnce
  <2>2. ASSUME NEW t \in Tasks
        PROVE  HoldersOf(t) = IF state[t] = "Running" THEN 1 ELSE 0
    <3> DEFINE At(s) == {i \in DOMAIN s : s[i].task_id = t}
               On == {w \in Executing : active[w].task_id = t}
    <3>1. HoldersOf(t) = Cardinality(At(to_launch)) + Cardinality(At(jobs))
                         + Cardinality(On)
      BY DEF HoldersOf
    <3>2. /\ \A x, y \in At(to_launch) : x = y
          /\ \A x, y \in At(jobs) : x = y
          /\ \A x, y \in On : x = y
      BY DEF HeldOnce
    <3>3. /\ At(to_launch) # {} => At(jobs) = {} /\ On = {}
          /\ At(jobs) # {} => On = {}
      BY DEF HeldOnce
    <3>4. At(to_launch) # {} \/ At(jobs) # {} \/ On # {} => state[t] = "Running"
      BY DEF HeldOnce, Current
    <3>5. state[t] = "Running" => At(to_launch) # {} \/ At(jobs) # {} \/ On # {}
      BY DEF Held, Mentions, Executes
    <3>6. /\ Cardinality(At(to_launch)) = IF At(to_launch) = {} THEN 0 ELSE 1
          /\ Cardinality(At(jobs)) = IF At(jobs) = {} THEN 0 ELSE 1
          /\ Cardinality(On) = IF On = {} THEN 0 ELSE 1
      <4> HIDE DEF At, On
      <4>1. QED
        BY <3>2, AtMostOne
    <3> HIDE DEF At, On
    <3>7. QED
      BY <3>1, <3>3, <3>4, <3>5, <3>6
  <2>3. QED
    BY <2>1, <2>2 DEF RunningHasOneHolder, Current
<1>2. QED
  BY <1>1, TypesHold, HeldOnceHolds, HeldHolds, PTL

-----------------------------------------------------------------------------
(***************************************************************************)
(* After the loop.                                                         *)
(***************************************************************************)

\* What the four counters say when their sum is the number of tasks.
LEMMA AllTerminal ==
  ASSUME Typed, Counted, all_tasks_terminal
  PROVE  \A t \in Tasks : state[t] \in Terminal
<1> DEFINE C == InState("Completed")
           F == InState("Failed")
           X == InState("Cancelled")
<1>1. \A S \in SUBSET Tasks : IsFiniteSet(S) /\ Cardinality(S) \in Nat
  BY TasksFinite
<1>2. C \in SUBSET Tasks /\ F \in SUBSET Tasks /\ X \in SUBSET Tasks
  BY DEF InState
<1>3. C \cap F = {} /\ (C \cup F) \cap X = {}
  BY DEF InState
<1>4. Cardinality(C) + Cardinality(F) + Cardinality(X) = TaskCount
  BY DEF Counted, CountersMatchStates, all_tasks_terminal
<1>5. Cardinality(Tasks) = TaskCount
  BY SchedulerAssumption, FS_Interval DEF Tasks
<1> HIDE DEF C, F, X
<1>6. ASSUME NEW A \in SUBSET Tasks, NEW B \in SUBSET Tasks, A \cap B = {}
      PROVE  Cardinality(A \cup B) = Cardinality(A) + Cardinality(B)
  <2>1. Cardinality(A \cup B)
          = Cardinality(A) + Cardinality(B) - Cardinality(A \cap B)
    BY <1>1, FS_Union
  <2>2. Cardinality(A \cap B) = 0
    BY <1>6, FS_EmptySet
  <2>3. Cardinality(A) \in Nat /\ Cardinality(B) \in Nat
    BY <1>1
  <2>4. QED
    BY <2>1, <2>2, <2>3
<1>7. Cardinality(C \cup F) = Cardinality(C) + Cardinality(F)
  BY <1>2, <1>3, <1>6
<1>8. Cardinality((C \cup F) \cup X) = Cardinality(C \cup F) + Cardinality(X)
  <2>1. (C \cup F) \in SUBSET Tasks
    BY <1>2
  <2>2. QED
    BY <1>2, <1>3, <1>6, <2>1
<1>9. (C \cup F) \cup X = Tasks
  <2>1. (C \cup F) \cup X \in SUBSET Tasks
    BY <1>2
  <2>2. Cardinality((C \cup F) \cup X) = Cardinality(Tasks)
    BY <1>4, <1>5, <1>7, <1>8
  <2>3. QED
    BY <1>1, <2>1, <2>2, FS_Subset
<1>10. QED
  BY <1>9 DEF C, F, X, InState, Terminal

\* The loop is left when every task is in a terminal state, and no step after
\* it changes the state of a task or revives a worker.
LoopOver ==
  /\ AfterLoop => all_tasks_terminal
  /\ main_pc = "done" => Pool!Joined

LEMMA NextLoopOver ==
  Typed /\ HeldOnce /\ Counted /\ LoopOver /\ [Next]_vars => LoopOver'
<1> SUFFICES ASSUME Typed, HeldOnce, Counted, LoopOver, [Next]_vars PROVE LoopOver'
  OBVIOUS
<1> USE DEF LoopOver, AfterLoop, sharedVars, taskVars, queueVars, counters,
            mainVars, poolVars, MainGoto, ExecGoto
<1>main. main_pc \in {"lock", "dispatch", "submit", "while", "wait", "block",
                      "blocked", "woken", "shutdown", "join", "done"}
  BY DEF Typed, Types
<1>1. CASE \/ LockMutex \/ DispatchEnd \/ SubmitEnd \/ EnterLoop \/ LeaveLoop
           \/ WaitTest \/ Block \/ SpuriousWakeup \/ Relock
           \/ Shutdown \/ Join \/ UNCHANGED vars
  <2>1. UNCHANGED <<running_tasks, completed_tasks, failed_tasks,
                    cancelled_tasks, worker>>
    BY <1>1 DEF LockMutex, DispatchEnd, SubmitEnd, EnterLoop, LeaveLoop,
       WaitTest, Block, SpuriousWakeup, Relock, Shutdown, Join, Pool!Stop, vars
  <2>2. /\ main_pc' \in {"shutdown", "join", "done"} => all_tasks_terminal
        /\ main_pc' = "done" => Pool!Joined
    BY <1>1 DEF LockMutex, DispatchEnd, SubmitEnd, EnterLoop, LeaveLoop,
       WaitTest, Block, SpuriousWakeup, Relock, Shutdown, Join, vars
  <2>3. QED
    BY <2>1, <2>2 DEF all_tasks_terminal, Pool!Joined
<1>2. CASE \E r \in ready_queue : DispatchNext(r)
  BY <1>2 DEF DispatchNext
<1>3. CASE SubmitNext
  BY <1>3 DEF SubmitNext
<1>4. ASSUME NEW w \in Workers, WorkerStep(w) PROVE LoopOver'
  <2>1. CASE TakeJob(w)
    BY <2>1 DEF TakeJob, Pool!Take, Pool!Joined, all_tasks_terminal
  <2>2. CASE StartTask(w) \/ DecideTask(w)
    BY <2>2 DEF StartTask, DecideTask, Pool!Joined, all_tasks_terminal
  <2>3. CASE CompleteTask(w) \/ RetryTask(w) \/ FailTask(w)
    <3>1. ~AfterLoop
      <4> SUFFICES ASSUME AfterLoop PROVE FALSE
        OBVIOUS
      <4>1. state[active[w].task_id] \in Terminal
        BY <2>3, FinisherHolds, AllTerminal
      <4>2. QED
        BY <2>3, <4>1, FinisherHolds DEF Terminal
    <3>2. main_pc' = main_pc
      BY <2>3 DEF CompleteTask, RetryTask, FailTask, FinishTask
    <3>3. QED
      BY <3>1, <3>2
  <2>4. CASE NotifyMain(w)
    <3>1. worker[w] = "busy" /\ main_pc' = Notified(main_pc)
          /\ UNCHANGED <<running_tasks, completed_tasks, failed_tasks,
                         cancelled_tasks>>
      BY <2>4 DEF NotifyMain, Pool!Return
    <3>2. ~Pool!Joined
      BY <3>1 DEF Pool!Joined
    <3>3. main_pc # "done" /\ main_pc' \in {main_pc, "woken"}
      BY <3>1, <3>2 DEF Notified
    <3>4. QED
      BY <3>1, <3>3 DEF all_tasks_terminal
  <2>5. CASE ExitWorker(w)
    <3>1. /\ worker' = [worker EXCEPT ![w] = "exited"]
          /\ UNCHANGED <<main_pc, running_tasks, completed_tasks, failed_tasks,
                         cancelled_tasks>>
      BY <2>5 DEF ExitWorker, Pool!Exit
    <3>2. Pool!Joined => Pool!Joined'
      BY <3>1 DEF Pool!Joined, Typed, Types
    <3>3. QED
      BY <3>1, <3>2 DEF all_tasks_terminal
  <2>6. QED
    BY <1>4, <2>1, <2>2, <2>3, <2>4, <2>5 DEF WorkerStep
<1>5. QED
  BY <1>1, <1>2, <1>3, <1>4 DEF Next, MainStep, Finished

\* run() leaves its loop only when every task has ended, and returns only when
\* every worker has.
THEOREM LoopOverHolds == Spec => []LoopOver
<1>1. Init => LoopOver
  BY DEF Init, LoopOver, AfterLoop
<1>2. QED
  BY <1>1, TypesHold, HeldOnceHolds, CountedHolds, NextLoopOver, PTL DEF Spec

\* When run() has left its loop every task has ended, nothing is queued or
\* executed any more, and when it returns every worker has ended.
THEOREM QuietAfterLoopHolds == Spec => []QuietAfterLoop
<1>1. Typed /\ HeldOnce /\ Counted /\ Ordered /\ LoopOver => QuietAfterLoop
  <2> SUFFICES ASSUME Typed, HeldOnce, Counted, Ordered, LoopOver, AfterLoop
               PROVE  /\ \A t \in Tasks : state[t] \in Terminal
                      /\ ready_queue = {} /\ to_launch = <<>> /\ jobs = <<>>
                      /\ Executing = {}
                      /\ main_pc = "done" => \A w \in Workers : worker[w] = "exited"
    BY DEF QuietAfterLoop
  <2>1. \A t \in Tasks : state[t] \in Terminal
    BY AllTerminal DEF LoopOver
  <2>2. \A j \in Jobs : ~Current(j)
    BY <2>1 DEF Current, Terminal, Jobs
  <2>3. /\ to_launch \in Seq(Jobs) /\ jobs \in Seq(Jobs)
        /\ \A w \in Executing : active[w] \in Jobs
    BY DEF Typed, Types, Executing
  <2>4. /\ \A i \in DOMAIN to_launch : Current(to_launch[i])
        /\ \A i \in DOMAIN jobs : Current(jobs[i])
        /\ \A w \in Executing : Current(active[w])
    BY DEF HeldOnce
  <2>5. DOMAIN to_launch = {} /\ DOMAIN jobs = {} /\ Executing = {}
    <3>1. /\ \A i \in DOMAIN to_launch : to_launch[i] \in Jobs
          /\ \A i \in DOMAIN jobs : jobs[i] \in Jobs
      BY <2>3
    <3>2. QED
      BY <2>2, <2>3, <2>4, <3>1
  <2>6. to_launch = <<>> /\ jobs = <<>>
    BY <2>3, <2>5
  <2>7. ready_queue = {}
    BY <2>1 DEF Ordered, QueuedTasks, RunnableTasks, Runnable, Terminal
  <2>8. QED
    BY <2>1, <2>5, <2>6, <2>7 DEF LoopOver, Pool!Joined
<1>2. QED
  BY <1>1, TypesHold, HeldOnceHolds, CountedHolds, OrderedHolds, LoopOverHolds, PTL

-----------------------------------------------------------------------------
(***************************************************************************)
(* Attempts and times.                                                     *)
(***************************************************************************)

\* Every attempt before the latest one failed.  A pending task has budget left
\* and its latest attempt, if it had one, failed too.
AttemptsOf(t) ==
  /\ attempts_by_task[t] <= RetryCount[t] + 1
  /\ 1 .. attempts_by_task[t] - 1 \subseteq fails[t]
  /\ state[t] = "Pending" =>
       /\ attempts_by_task[t] <= RetryCount[t]
       /\ attempts_by_task[t] = 0 \/ attempts_by_task[t] \in fails[t]
  /\ state[t] \in {"Running", "Completed", "Failed"} => attempts_by_task[t] >= 1
  /\ state[t] = "Completed" => attempts_by_task[t] \notin fails[t]
  /\ state[t] = "Failed" => /\ attempts_by_task[t] = RetryCount[t] + 1
                            /\ attempts_by_task[t] \in fails[t]

\* A task is stamped finished while it is in a terminal state, started from its
\* first attempt on, and attempted only once its dependencies have completed.
TimesOf(t) ==
  /\ has_finished[t] <=> state[t] \in Terminal
  /\ state[t] \in {"Completed", "Failed"} => has_started[t]
  /\ has_started[t] => attempts_by_task[t] >= 1
  /\ attempts_by_task[t] >= 1 => \A d \in Dependencies[t] : state[d] = "Completed"

\* The worker that has passed the first critical section has stamped its task;
\* one that has passed the second holds the verdict on its attempt.
VerdictOf(w) ==
  /\ exec[w] \in {"sleep", "finish"} => has_started[active[w].task_id]
  /\ exec[w] = "finish" =>
       success[w] = (active[w].attempt \notin fails[active[w].task_id])

Accounted ==
  /\ \A t \in Tasks : AttemptsOf(t) /\ TimesOf(t)
  /\ \A w \in Workers : VerdictOf(w)

LEMMA DispatchAccounted ==
  ASSUME Typed, Ordered, Accounted, NEW r \in ready_queue, DispatchNext(r)
  PROVE  Accounted'
<1> DEFINE t == r.task_id
<1>1. /\ t \in Tasks
      /\ state[t] = "Pending"
      /\ \A d \in Dependencies[t] : state[d] = "Completed"
  BY DEF Ordered, QueuedTasks, RunnableTasks, Runnable
<1>2. /\ state' = [state EXCEPT ![t] = "Running"]
      /\ attempts_by_task' = [attempts_by_task EXCEPT
                                ![t] = attempts_by_task[t] + 1]
      /\ UNCHANGED <<fails, has_started, has_finished, exec, success, active>>
  BY <1>1 DEF DispatchNext, poolVars
<1> HIDE DEF t
<1>3. /\ state \in [Tasks -> TaskStates]
      /\ attempts_by_task \in [Tasks -> Nat]
      /\ RetryCount \in [Tasks -> Nat]
      /\ \A u \in Tasks : Dependencies[u] \subseteq Tasks
  BY SchedulerAssumption DEF Typed, Types
<1>4. /\ state'[t] = "Running"
      /\ attempts_by_task'[t] = attempts_by_task[t] + 1
      /\ \A u \in Tasks \ {t} : /\ state'[u] = state[u]
                                /\ attempts_by_task'[u] = attempts_by_task[u]
  BY <1>1, <1>2, <1>3
<1>5. AttemptsOf(t)'
  BY <1>1, <1>2, <1>3, <1>4 DEF Accounted, AttemptsOf
<1>6. TimesOf(t)'
  <2>1. t \notin Dependencies[t]
    BY <1>1
  <2>2. TimesOf(t)
    BY <1>1 DEF Accounted
  <2>3. QED
    BY <1>1, <1>2, <1>3, <1>4, <2>1, <2>2 DEF TimesOf, Terminal
<1>7. ASSUME NEW u \in Tasks \ {t} PROVE AttemptsOf(u)' /\ TimesOf(u)'
  <2>1. AttemptsOf(u) /\ TimesOf(u)
    BY DEF Accounted
  <2>2. AttemptsOf(u)'
    BY <1>2, <1>4, <2>1 DEF AttemptsOf
  <2>3. \A d \in Dependencies[u] : state[d] = "Completed" => state'[d] = "Completed"
    BY <1>1, <1>3, <1>4
  <2>4. TimesOf(u)'
    BY <1>2, <1>4, <2>1, <2>3 DEF TimesOf
  <2>5. QED
    BY <2>2, <2>4
<1>8. \A w \in Workers : VerdictOf(w)'
  BY <1>2 DEF Accounted, VerdictOf
<1>9. QED
  BY <1>1, <1>5, <1>6, <1>7, <1>8 DEF Accounted

LEMMA FinishAccounted ==
  ASSUME Typed, HeldOnce, Ordered, Accounted,
         NEW w \in Workers, CompleteTask(w) \/ RetryTask(w) \/ FailTask(w)
  PROVE  Accounted'
<1>1. PICK t \in Tasks : t = active[w].task_id /\ state[t] = "Running"
  BY FinisherHolds
<1> DEFINE cancelled == CancelledBy(t)
<1>2. /\ exec[w] = "finish"
      /\ exec' = [exec EXCEPT ![w] = "notify"]
      /\ UNCHANGED <<fails, has_started, attempts_by_task, success, active>>
  BY DEF CompleteTask, RetryTask, FailTask, FinishTask, ExecGoto, poolVars
<1>3. /\ state \in [Tasks -> TaskStates]
      /\ has_finished \in [Tasks -> BOOLEAN]
      /\ attempts_by_task \in [Tasks -> Nat]
      /\ RetryCount \in [Tasks -> Nat]
      /\ exec \in [Workers -> {"idle", "start", "sleep", "finish", "notify"}]
      /\ \A u \in Tasks : Dependencies[u] \subseteq Tasks
  BY SchedulerAssumption DEF Typed, Types
<1>4. /\ active[w].attempt = attempts_by_task[t]
      /\ success[w] = (attempts_by_task[t] \notin fails[t])
      /\ has_started[t]
  BY <1>1, <1>2 DEF HeldOnce, Executing, Current, Accounted, VerdictOf
<1>5. AttemptsOf(t) /\ TimesOf(t)
  BY <1>1 DEF Accounted
<1>6. \A v \in Workers : VerdictOf(v)'
  BY <1>2, <1>3 DEF Accounted, VerdictOf
<1>7. \A u \in cancelled : u \in Tasks /\ state[u] = "Pending"
  BY CancelledWerePending DEF InState
\* Every other task is as it was, or pending and then cancelled.
<1>8. ASSUME NEW u \in Tasks \ {t},
             \/ state'[u] = state[u] /\ has_finished'[u] = has_finished[u]
             \/ /\ state[u] = "Pending" /\ state'[u] = "Cancelled"
                /\ has_finished'[u] = TRUE,
             \A d \in Tasks : state[d] = "Completed" => state'[d] = "Completed"
      PROVE  AttemptsOf(u)' /\ TimesOf(u)'
  <2>1. AttemptsOf(u) /\ TimesOf(u)
    BY DEF Accounted
  <2>2. AttemptsOf(u)'
    BY <1>2, <1>8, <2>1 DEF AttemptsOf
  <2>3. TimesOf(u)'
    BY <1>2, <1>3, <1>8, <2>1 DEF TimesOf, Terminal
  <2>4. QED
    BY <2>2, <2>3
<1>9. CASE CompleteTask(w)
  <2>1. /\ success[w]
        /\ state' = [state EXCEPT ![t] = "Completed"]
        /\ has_finished' = [has_finished EXCEPT ![t] = TRUE]
    BY <1>1, <1>9 DEF CompleteTask
  <2> HIDE DEF cancelled
  <2>2. /\ state'[t] = "Completed" /\ has_finished'[t] = TRUE
        /\ \A u \in Tasks \ {t} : /\ state'[u] = state[u]
                                  /\ has_finished'[u] = has_finished[u]
    BY <1>1, <1>3, <2>1
  <2>3. AttemptsOf(t)'
    BY <1>1, <1>2, <1>3, <1>4, <1>5, <2>1, <2>2 DEF AttemptsOf
  <2>4. TimesOf(t)'
    BY <1>1, <1>2, <1>3, <1>4, <1>5, <2>2 DEF TimesOf, Terminal
  <2>5. \A d \in Tasks : state[d] = "Completed" => state'[d] = "Completed"
    BY <2>2
  <2>6. QED
    BY <1>6, <1>8, <2>2, <2>3, <2>4, <2>5 DEF Accounted
<1>10. CASE RetryTask(w)
  <2>1. /\ ~success[w]
        /\ attempts_by_task[t] <= RetryCount[t]
        /\ state' = [state EXCEPT ![t] = "Pending"]
        /\ has_finished' = [has_finished EXCEPT ![t] = FALSE]
    BY <1>1, <1>4, <1>10 DEF RetryTask, MayRetry
  <2> HIDE DEF cancelled
  <2>2. /\ state'[t] = "Pending" /\ has_finished'[t] = FALSE
        /\ \A u \in Tasks \ {t} : /\ state'[u] = state[u]
                                  /\ has_finished'[u] = has_finished[u]
    BY <1>1, <1>3, <2>1
  <2>3. AttemptsOf(t)'
    BY <1>1, <1>2, <1>3, <1>4, <1>5, <2>1, <2>2 DEF AttemptsOf
  <2>4. \A d \in Tasks : state[d] = "Completed" => state'[d] = "Completed"
    BY <1>1, <2>2
  <2>5. TimesOf(t)'
    BY <1>1, <1>2, <1>3, <1>4, <1>5, <2>2, <2>4 DEF TimesOf, Terminal
  <2>6. QED
    BY <1>6, <1>8, <2>2, <2>3, <2>4, <2>5 DEF Accounted
<1>11. CASE FailTask(w)
  <2>1. /\ ~success[w]
        /\ ~(attempts_by_task[t] <= RetryCount[t])
        /\ state' = [d \in Tasks |-> IF d = t THEN "Failed"
                                     ELSE IF d \in cancelled THEN "Cancelled"
                                     ELSE state[d]]
        /\ has_finished' = [d \in Tasks |-> d \in cancelled \cup {t}
                                            \/ has_finished[d]]
    BY <1>1, <1>4, <1>11 DEF FailTask, MayRetry
  <2> HIDE DEF cancelled
  <2>2. /\ state'[t] = "Failed" /\ has_finished'[t]
        /\ \A u \in Tasks \ {t} :
             \/ state'[u] = state[u] /\ has_finished'[u] = has_finished[u]
             \/ /\ state[u] = "Pending" /\ state'[u] = "Cancelled"
                /\ has_finished'[u] = TRUE
    BY <1>1, <1>3, <1>7, <2>1
  <2>3. AttemptsOf(t)'
    BY <1>1, <1>2, <1>3, <1>4, <1>5, <2>1, <2>2 DEF AttemptsOf
  <2>4. \A d \in Tasks : state[d] = "Completed" => state'[d] = "Completed"
    BY <1>1, <2>2
  <2>5. TimesOf(t)'
    BY <1>1, <1>2, <1>3, <1>4, <1>5, <2>2, <2>4 DEF TimesOf, Terminal
  <2>6. QED
    BY <1>6, <1>8, <2>2, <2>3, <2>4, <2>5 DEF Accounted
<1>12. QED
  BY <1>9, <1>10, <1>11

LEMMA NextAccounted ==
  Typed /\ HeldOnce /\ Ordered /\ Accounted /\ [Next]_vars => Accounted'
<1> SUFFICES ASSUME Typed, HeldOnce, Ordered, Accounted, [Next]_vars
             PROVE  Accounted'
  OBVIOUS
<1> USE DEF sharedVars, taskVars, queueVars, counters, mainVars, poolVars,
            MainGoto, ExecGoto
<1>types. /\ exec \in [Workers -> {"idle", "start", "sleep", "finish", "notify"}]
          /\ has_started \in [Tasks -> BOOLEAN]
          /\ attempts_by_task \in [Tasks -> Nat]
          /\ success \in [Workers -> BOOLEAN]
  BY DEF Typed, Types
<1>tasks. ASSUME UNCHANGED <<fails, state, has_started, has_finished,
                             attempts_by_task>>
          PROVE  \A t \in Tasks : AttemptsOf(t)' /\ TimesOf(t)'
  BY <1>tasks DEF Accounted, AttemptsOf, TimesOf
<1>1. CASE \/ LockMutex \/ DispatchEnd \/ SubmitNext \/ SubmitEnd \/ EnterLoop
           \/ LeaveLoop \/ WaitTest \/ Block \/ SpuriousWakeup \/ Relock
           \/ Shutdown \/ Join \/ UNCHANGED vars
  <2>1. UNCHANGED <<fails, state, has_started, has_finished, attempts_by_task,
                    exec, success, active>>
    BY <1>1 DEF LockMutex, DispatchEnd, SubmitNext, SubmitEnd, EnterLoop,
       LeaveLoop, WaitTest, Block, SpuriousWakeup, Relock, Shutdown, Join,
       Pool!Stop, Pool!Submit, vars
  <2>2. QED
    BY <1>tasks, <2>1 DEF Accounted, VerdictOf
<1>2. ASSUME NEW w \in Workers, TakeJob(w) \/ NotifyMain(w) \/ ExitWorker(w)
      PROVE  Accounted'
  <2>1. /\ UNCHANGED <<fails, state, has_started, has_finished,
                       attempts_by_task, success>>
        /\ \A v \in Workers : exec'[v] \in {"sleep", "finish"} =>
             exec[v] = exec'[v] /\ active'[v] = active[v]
    BY <1>types, <1>2 DEF TakeJob, NotifyMain, ExitWorker, Pool!Take,
       Pool!Return, Pool!Exit, Typed, Types
  <2>2. QED
    BY <1>tasks, <2>1 DEF Accounted, VerdictOf
<1>3. ASSUME NEW w \in Workers, StartTask(w) PROVE Accounted'
  <2> DEFINE t == active[w].task_id
  <2>1. /\ exec[w] = "start"
        /\ exec' = [exec EXCEPT ![w] = "sleep"]
        /\ has_started' = [has_started EXCEPT ![t] = TRUE]
        /\ UNCHANGED <<fails, state, has_finished, attempts_by_task, success,
                       active>>
    BY <1>3 DEF StartTask
  <2>2. t \in Tasks /\ state[t] = "Running"
    BY <2>1 DEF Typed, Jobs, HeldOnce, Executing, Current
  <2> HIDE DEF t
  <2>3. \A u \in Tasks : has_started'[u] <=> u = t \/ has_started[u]
    BY <1>types, <2>1, <2>2
  <2>4. \A u \in Tasks : AttemptsOf(u)' /\ TimesOf(u)'
    BY <2>1, <2>2, <2>3 DEF Accounted, AttemptsOf, TimesOf
  <2>5. ASSUME NEW v \in Workers PROVE VerdictOf(v)'
    <3>1. v # w => exec'[v] = exec[v]
      BY <1>types, <2>1
    <3>2. exec'[w] = "sleep"
      BY <1>types, <2>1
    <3>3. exec[v] # "idle" => active[v].task_id \in Tasks
      BY DEF Typed, Jobs
    <3>4. QED
      BY <2>1, <2>2, <2>3, <3>1, <3>2, <3>3 DEF Accounted, VerdictOf, t
  <2>6. QED
    BY <2>4, <2>5 DEF Accounted
<1>4. ASSUME NEW w \in Workers, DecideTask(w) PROVE Accounted'
  <2>1. /\ exec[w] = "sleep"
        /\ exec' = [exec EXCEPT ![w] = "finish"]
        /\ success' = [success EXCEPT
              ![w] = active[w].attempt \notin fails[active[w].task_id]]
        /\ UNCHANGED <<fails, state, has_started, has_finished,
                       attempts_by_task, active>>
    BY <1>4 DEF DecideTask, should_fail
  <2>2. ASSUME NEW v \in Workers PROVE VerdictOf(v)'
    <3>1. v # w => exec'[v] = exec[v] /\ success'[v] = success[v]
      BY <1>types, <2>1
    <3>2. success'[w] = (active[w].attempt \notin fails[active[w].task_id])
      BY <1>types, <2>1
    <3>3. QED
      BY <2>1, <3>1, <3>2 DEF Accounted, VerdictOf
  <2>3. QED
    BY <1>tasks, <2>1, <2>2 DEF Accounted
<1>5. QED
  BY <1>1, <1>2, <1>3, <1>4, DispatchAccounted, FinishAccounted
  DEF Next, MainStep, WorkerStep, Finished

\* The attempts, the time stamps and the verdicts on attempts agree with the
\* states of the tasks and with the failure table.
THEOREM AccountedHolds == Spec => []Accounted
<1>1. Init => Accounted
  <2> SUFFICES ASSUME Init PROVE Accounted
    OBVIOUS
  <2>1. /\ state = [t \in Tasks |-> "Pending"]
        /\ has_started = [t \in Tasks |-> FALSE]
        /\ has_finished = [t \in Tasks |-> FALSE]
        /\ attempts_by_task = [t \in Tasks |-> 0]
        /\ exec = [w \in Workers |-> "idle"]
    BY DEF Init
  <2>2. RetryCount \in [Tasks -> Nat]
    BY SchedulerAssumption
  <2>3. QED
    BY <2>1, <2>2 DEF Accounted, AttemptsOf, TimesOf, VerdictOf, Terminal
<1>2. QED
  BY <1>1, TypesHold, HeldOnceHolds, OrderedHolds, NextAccounted, PTL DEF Spec

-----------------------------------------------------------------------------
(***************************************************************************)
(* The report.                                                             *)
(***************************************************************************)

\* Of the tasks that are cancelled, one depends on a task that failed: the
\* cancelled tasks cannot all be cancelled because of each other.
LEMMA CancellationHasCause ==
  ASSUME CancelledExactlyDownstream, InState("Cancelled") # {}
  PROVE  InState("Failed") # {}
<1>1. \A u \in Tasks : Dependencies[u] \subseteq Tasks
  BY SchedulerAssumption
<1>2. InState("Cancelled") \in SUBSET Tasks
  BY DEF InState
<1>3. PICK t \in InState("Cancelled") :
        Dependencies[t] \cap InState("Cancelled") = {}
  BY <1>2, ValidatedAssumption DEF Acyclic
<1>4. t \in Tasks /\ state[t] = "Cancelled"
  BY DEF InState
<1>5. PICK d \in Dependencies[t] : state[d] \in {"Failed", "Cancelled"}
  BY <1>4 DEF CancelledExactlyDownstream
<1>6. d \in Tasks
  BY <1>1, <1>4
<1>7. state[d] = "Failed"
  BY <1>3, <1>5, <1>6 DEF InState
<1>8. QED
  BY <1>6, <1>7 DEF InState

\* The attempts and the durations of the summary, and the exit code, tell what
\* happened in the run.
THEOREM ReportIsTrueHolds == Spec => []ReportIsTrue
<1>1. Typed /\ Counted /\ Ordered /\ LoopOver /\ Accounted => ReportIsTrue
  <2> SUFFICES ASSUME Typed, Counted, Ordered, LoopOver, Accounted
               PROVE  ReportIsTrue
    OBVIOUS
  <2>types. /\ state \in [Tasks -> TaskStates]
            /\ attempts_by_task \in [Tasks -> Nat]
            /\ RetryCount \in [Tasks -> Nat]
    BY SchedulerAssumption DEF Typed, Types
  <2>1. AttemptsWithinBudget
    <3> SUFFICES ASSUME NEW t \in Tasks
                 PROVE  /\ state[t] = "Completed" =>
                             /\ attempts_by_task[t] \in Attempts(t) \ fails[t]
                             /\ 1 .. attempts_by_task[t] - 1 \subseteq fails[t]
                        /\ state[t] = "Failed" =>
                             /\ attempts_by_task[t] = RetryCount[t] + 1
                             /\ Attempts(t) \subseteq fails[t]
      BY DEF AttemptsWithinBudget
    <3>1. AttemptsOf(t)
      BY DEF Accounted
    <3>2. attempts_by_task[t] \in Nat /\ RetryCount[t] \in Nat
      BY <2>types
    <3>3. ASSUME state[t] = "Completed"
          PROVE  /\ attempts_by_task[t] \in Attempts(t) \ fails[t]
                 /\ 1 .. attempts_by_task[t] - 1 \subseteq fails[t]
      BY <3>1, <3>2, <3>3 DEF AttemptsOf, Attempts
    <3>4. ASSUME state[t] = "Failed"
          PROVE  /\ attempts_by_task[t] = RetryCount[t] + 1
                 /\ Attempts(t) \subseteq fails[t]
      <4>1. \A i \in Attempts(t) :
              i \in 1 .. attempts_by_task[t] - 1 \/ i = attempts_by_task[t]
        BY <3>1, <3>2, <3>4 DEF AttemptsOf, Attempts
      <4>2. QED
        BY <3>1, <3>4, <4>1 DEF AttemptsOf
    <3>5. QED
      BY <3>3, <3>4
  <2>2. SummaryTimings
    <3> SUFFICES ASSUME NEW t \in Tasks
                 PROVE  /\ has_finished[t] <=> state[t] \in Terminal
                        /\ state[t] \in {"Completed", "Failed"} => has_started[t]
                        /\ state[t] = "Cancelled" =>
                             ~has_started[t] /\ attempts_by_task[t] = 0
      BY DEF SummaryTimings
    <3>1. TimesOf(t)
      BY DEF Accounted
    <3>2. state[t] = "Cancelled" =>
            \E d \in Dependencies[t] : state[d] # "Completed"
      BY DEF Ordered, CancelledExactlyDownstream
    <3>3. state[t] = "Cancelled" => ~has_started[t] /\ attempts_by_task[t] = 0
      BY <2>types, <3>1, <3>2 DEF TimesOf
    <3>4. QED
      BY <3>1, <3>3 DEF TimesOf
  <2>3. ExitCodeTellsSuccess
    <3> SUFFICES ASSUME main_pc = "done"
                 PROVE  ExitCode = 0 <=> \A t \in Tasks : state[t] = "Completed"
      BY DEF ExitCodeTellsSuccess
    <3>1. \A t \in Tasks : state[t] \in Terminal
      BY AllTerminal DEF LoopOver, AfterLoop
    <3>2. InState("Failed") \in SUBSET Tasks
      BY DEF InState
    <3>3. failed_tasks = 0 <=> InState("Failed") = {}
      BY <3>2, TasksFinite, FS_EmptySet DEF Counted, CountersMatchStates
    <3>4. InState("Failed") = {} => InState("Cancelled") = {}
      BY CancellationHasCause DEF Ordered
    <3>5. InState("Failed") = {} /\ InState("Cancelled") = {}
            <=> \A t \in Tasks : state[t] = "Completed"
      BY <3>1 DEF InState, Terminal
    <3>6. QED
      BY <3>3, <3>4, <3>5 DEF ExitCode
  <2>4. QED
    BY <2>1, <2>2, <2>3 DEF ReportIsTrue
<1>2. QED
  BY <1>1, TypesHold, CountedHolds, OrderedHolds, LoopOverHolds, AccountedHolds,
     PTL

-----------------------------------------------------------------------------
(***************************************************************************)
(* The outcome.                                                            *)
(***************************************************************************)

\* The graph and the failure table allow one outcome: two would differ first
\* at a task on whose dependencies they agree.
LEMMA OutcomeUnique ==
  ASSUME NEW o, NEW p, IsOutcome(o), IsOutcome(p)
  PROVE  \A t \in Tasks : o[t] = p[t]
<1> DEFINE D == {t \in Tasks : o[t] # p[t]}
<1> SUFFICES ASSUME D # {} PROVE FALSE
  OBVIOUS
<1>1. PICK t \in D : Dependencies[t] \cap D = {}
  BY ValidatedAssumption DEF Acyclic
<1>2. \A d \in Dependencies[t] : o[d] = p[d]
  BY <1>1, SchedulerAssumption
<1>3. o[t] = p[t]
  BY <1>2 DEF IsOutcome
<1>4. QED
  BY <1>3

\* When the loop ends the states are the one outcome the graph and the failure
\* table allow, whatever the schedule, the priorities and the worker count.
THEOREM OutcomeIsDeterministicHolds == Spec => []OutcomeIsDeterministic
<1>1. Typed /\ Counted /\ Ordered /\ LoopOver /\ ReportIsTrue
        => OutcomeIsDeterministic
  <2> SUFFICES ASSUME Typed, Counted, Ordered, LoopOver, ReportIsTrue, AfterLoop
               PROVE  /\ IsOutcome(state)
                      /\ \A o \in [Tasks -> Terminal] : IsOutcome(o) => o = state
    BY DEF OutcomeIsDeterministic
  <2>1. \A t \in Tasks : state[t] \in Terminal
    BY AllTerminal DEF LoopOver
  <2>2. IsOutcome(state)
    <3> SUFFICES ASSUME NEW t \in Tasks
                 PROVE  state[t] =
                          IF \E d \in Dependencies[t] : state[d] # "Completed"
                          THEN "Cancelled"
                          ELSE IF Attempts(t) \subseteq fails[t] THEN "Failed"
                          ELSE "Completed"
      BY DEF IsOutcome
    <3>1. CASE state[t] = "Cancelled"
      BY <3>1 DEF Ordered, CancelledExactlyDownstream
    <3>2. CASE state[t] = "Failed"
      BY <3>2 DEF Ordered, DependenciesCompleteFirst, ReportIsTrue,
         AttemptsWithinBudget
    <3>3. CASE state[t] = "Completed"
      BY <3>3 DEF Ordered, DependenciesCompleteFirst, ReportIsTrue,
         AttemptsWithinBudget
    <3>4. QED
      BY <2>1, <3>1, <3>2, <3>3 DEF Terminal
  <2>3. ASSUME NEW o \in [Tasks -> Terminal], IsOutcome(o)
        PROVE  o = state
    <3>1. \A t \in Tasks : o[t] = state[t]
      BY <2>2, <2>3, OutcomeUnique
    <3>2. state \in [Tasks -> TaskStates]
      BY DEF Typed, Types
    <3>3. QED
      BY <3>1, <3>2
  <2>4. QED
    BY <2>2, <2>3
<1>2. QED
  BY <1>1, TypesHold, CountedHolds, OrderedHolds, LoopOverHolds,
     ReportIsTrueHolds, PTL

-----------------------------------------------------------------------------
(***************************************************************************)
(* Every step is a step of TaskRun, or none.                               *)
(***************************************************************************)

\* An entry carries the priority of its task.
QueuePriorities == \A r \in ready_queue : r.priority = Priority[r.task_id]

LEMMA ReadyTasksPriority ==
  ASSUME NEW S, NEW first, NEW r \in ReadyTasks(S, first)
  PROVE  r.priority = Priority[r.task_id]
<1>1. PICK t \in S : r = ReadyTask(t, first + Cardinality({u \in S : u < t}))
  BY DEF ReadyTasks
<1>2. QED
  BY <1>1 DEF ReadyTask

LEMMA NextQueuePriorities == QueuePriorities /\ [Next]_vars => QueuePriorities'
<1> SUFFICES ASSUME QueuePriorities, [Next]_vars PROVE QueuePriorities'
  OBVIOUS
<1>1. CASE UNCHANGED coreVars
  BY <1>1 DEF coreVars, queueVars, QueuePriorities
<1>2. ASSUME NEW r \in ready_queue, DispatchNext(r) PROVE QueuePriorities'
  BY <1>2 DEF DispatchNext, QueuePriorities
<1>3. ASSUME NEW w \in Workers, CompleteTask(w) \/ RetryTask(w) \/ FailTask(w)
      PROVE  QueuePriorities'
  <2>1. CASE CompleteTask(w) \/ RetryTask(w)
    <3>1. PICK S : ready_queue' = ready_queue \cup ReadyTasks(S, enqueue_sequence)
      BY <2>1 DEF CompleteTask, RetryTask, enqueue_ready_tasks
    <3>2. QED
      BY <3>1, ReadyTasksPriority DEF QueuePriorities
  <2>2. CASE FailTask(w)
    BY <2>2 DEF FailTask, queueVars, QueuePriorities
  <2>3. QED
    BY <1>3, <2>1, <2>2
<1>4. QED
  BY <1>1, <1>2, <1>3, CoreSteps

\* An entry of the ready queue carries the priority of its task.
THEOREM QueuePrioritiesHold == Spec => []QueuePriorities
<1>1. Init => QueuePriorities
  BY ReadyTasksPriority DEF Init, QueuePriorities
<1>2. QED
  BY <1>1, NextQueuePriorities, PTL DEF Spec

\* The top of the ready queue is a task TaskRun may launch.
LEMMA DispatchLaunches ==
  ASSUME Typed, Counted, Ordered, QueuePriorities,
         NEW r \in ready_queue, DispatchNext(r)
  PROVE  Run!RunNext
<1> DEFINE t == r.task_id
<1>1. /\ t \in Tasks
      /\ state[t] = "Pending"
      /\ \A d \in Dependencies[t] : state[d] = "Completed"
  BY DEF Ordered, QueuedTasks, RunnableTasks, Runnable
<1>2. /\ state' = [state EXCEPT ![t] = "Running"]
      /\ attempts_by_task' = [attempts_by_task EXCEPT
                                ![t] = attempts_by_task[t] + 1]
      /\ fails' = fails
      /\ has_worker_capacity
      /\ IsTop(r)
  BY <1>1 DEF DispatchNext
<1>3. Run!HasCapacity
  <2>1. Run!Cardinality({u \in Run!Tasks : state[u] = "Running"})
          = Cardinality({u \in Tasks : state[u] = "Running"})
    BY DEF Run!Cardinality, Cardinality, Run!Tasks, Tasks
  <2>2. QED
    BY <1>2, <2>1 DEF Run!HasCapacity, has_worker_capacity, Counted,
       CountersMatchStates, InState
<1>4. \A u \in Tasks : Runnable(u) => Priority[u] <= Priority[t]
  <2> SUFFICES ASSUME NEW u \in Tasks, Runnable(u)
               PROVE  Priority[u] <= Priority[t]
    OBVIOUS
  <2>1. PICK q \in ready_queue : q.task_id = u
    BY DEF Ordered, QueuedTasks, RunnableTasks
  <2>2. ~(r.priority < q.priority)
    BY <1>2 DEF IsTop, ReadyTaskCompare
  <2>3. r.priority = Priority[t] /\ q.priority = Priority[u]
    BY <2>1 DEF QueuePriorities
  <2>4. Priority[t] \in Int /\ Priority[u] \in Int
    BY <1>1, SchedulerAssumption
  <2>5. QED
    BY <2>2, <2>3, <2>4
<1> HIDE DEF t
<1>5. Run!Launch(t)
  <2>1. \A u : Run!Runnable(u) <=> Runnable(u)
    BY DEF Run!Runnable, Runnable
  <2>2. Run!Runnable(t)
    BY <1>1 DEF Run!Runnable
  <2>3. \A u \in Run!Tasks : Run!Runnable(u) => Priority[u] <= Priority[t]
    BY <1>4, <2>1 DEF Run!Tasks, Tasks
  <2>4. QED
    BY <1>2, <1>3, <2>2, <2>3 DEF Run!Launch
<1>6. QED
  BY <1>1, <1>5 DEF Run!RunNext, Run!Tasks, Tasks

\* What is downstream of the running task t is pending and then reached by
\* cancel_dependents, or cancelled already.
LEMMA DownstreamIsCancelled ==
  ASSUME Typed, Ordered, NEW t \in Tasks, state[t] = "Running"
  PROVE  /\ CancelledBy(t) \subseteq Downstream(t)
         /\ Downstream(t) \subseteq CancelledBy(t) \cup InState("Cancelled")
<1> DEFINE P == InState("Pending")
           X == InState("Cancelled")
           C == CancelledBy(t)
<1>1. state \in [Tasks -> TaskStates]
  BY DEF Typed, Types
<1>2. \A d \in Tasks : Dependencies[d] \subseteq Tasks
  BY SchedulerAssumption
<1>3. P \in SUBSET Tasks /\ X \in SUBSET Tasks
  BY DEF InState
<1>4. C \subseteq Downstream(t)
  <2> SUFFICES ASSUME NEW u \in C, NEW D \in SUBSET Tasks,
                      ClosedUnderDependents(D, {t}, Tasks)
               PROVE  u \in D
    BY <1>3, CancelledWerePending DEF Downstream, ReachedFrom
  <2>1. ClosedUnderDependents(D \cap P, {t}, P)
    BY <1>3 DEF ClosedUnderDependents
  <2>2. QED
    BY <2>1 DEF CancelledBy, ReachedFrom
<1>5. Downstream(t) \subseteq C \cup X
  <2>1. C \cup X \in SUBSET Tasks
    BY <1>3, CancelledWerePending
  <2>2. ClosedUnderDependents(C \cup X, {t}, Tasks)
    <3> SUFFICES ASSUME NEW d \in Tasks, NEW e \in Dependencies[d],
                        e \in {t} \cup (C \cup X)
                 PROVE  d \in C \cup X
      BY DEF ClosedUnderDependents
    <3>1. \A u \in C : state[u] = "Pending"
      BY CancelledWerePending DEF InState
    <3>2. state[e] # "Completed"
      BY <3>1 DEF InState
    <3>3. state[d] \in {"Pending", "Cancelled"}
      BY <1>1, <3>2 DEF Ordered, DependenciesCompleteFirst, TaskStates
    <3>4. CASE e \in X
      BY <3>4 DEF Ordered, CancelledExactlyDownstream, InState
    <3>5. CASE e \in {t} \cup C /\ state[d] = "Pending"
      <4>1. ClosedUnderDependents(C, {t}, P)
        BY ReachedClosed DEF CancelledBy
      <4>2. d \in P
        BY <3>5 DEF InState
      <4>3. QED
        BY <3>5, <4>1, <4>2 DEF ClosedUnderDependents
    <3>6. QED
      BY <3>3, <3>4, <3>5 DEF InState
  <2>3. QED
    BY <2>1, <2>2 DEF Downstream, ReachedFrom
<1>6. QED
  BY <1>4, <1>5

LEMMA FinishEnds ==
  ASSUME Typed, HeldOnce, Ordered, Accounted,
         NEW w \in Workers, CompleteTask(w) \/ RetryTask(w) \/ FailTask(w)
  PROVE  Run!RunNext
<1>1. PICK t \in Tasks : t = active[w].task_id /\ state[t] = "Running"
  BY FinisherHolds
<1>2. /\ exec[w] = "finish"
      /\ UNCHANGED <<fails, attempts_by_task>>
  BY DEF CompleteTask, RetryTask, FailTask, FinishTask, ExecGoto
<1>3. /\ active[w].attempt = attempts_by_task[t]
      /\ success[w] = (attempts_by_task[t] \notin fails[t])
  BY <1>1, <1>2 DEF HeldOnce, Executing, Current, Accounted, VerdictOf
<1>4. t \in Run!Tasks
  BY DEF Run!Tasks, Tasks
<1>5. CASE CompleteTask(w)
  <2>1. Run!Succeed(t)
    BY <1>1, <1>2, <1>3, <1>5 DEF CompleteTask, Run!Succeed
  <2>2. QED
    BY <1>4, <2>1 DEF Run!RunNext
<1>6. CASE RetryTask(w)
  <2>1. Run!Retry(t)
    BY <1>1, <1>2, <1>3, <1>6 DEF RetryTask, MayRetry, Run!Retry
  <2>2. QED
    BY <1>4, <2>1 DEF Run!RunNext
<1>7. CASE FailTask(w)
  <2>1. /\ ~success[w]
        /\ ~(attempts_by_task[t] <= RetryCount[t])
        /\ state' = [d \in Tasks |-> IF d = t THEN "Failed"
                                     ELSE IF d \in CancelledBy(t) THEN "Cancelled"
                                     ELSE state[d]]
    BY <1>1, <1>3, <1>7 DEF FailTask, MayRetry
  <2>2. attempts_by_task[t] > RetryCount[t]
    BY <2>1, SchedulerAssumption DEF Typed, Types
  <2>3. Run!Downstream(t) = Downstream(t)
    BY DEF Run!Downstream, Run!ReachedFrom, Run!ClosedUnderDependents, Run!Tasks,
       Downstream, ReachedFrom, ClosedUnderDependents, Tasks
  <2>4. state' = [u \in Run!Tasks |->
                    IF u = t THEN "Failed"
                    ELSE IF u \in Run!Downstream(t) THEN "Cancelled"
                    ELSE state[u]]
    <3>1. /\ CancelledBy(t) \subseteq Downstream(t)
          /\ Downstream(t) \subseteq CancelledBy(t) \cup InState("Cancelled")
      BY <1>1, DownstreamIsCancelled
    <3>2. Run!Tasks = Tasks
      BY DEF Run!Tasks, Tasks
    <3>3. \A u \in Tasks : u \in Downstream(t) /\ u \notin CancelledBy(t)
                           => state[u] = "Cancelled"
      BY <3>1 DEF InState
    <3>4. QED
      BY <2>1, <2>3, <3>1, <3>2, <3>3
  <2>5. Run!Fail(t)
    BY <1>1, <1>2, <1>3, <2>1, <2>2, <2>4 DEF Run!Fail
  <2>6. QED
    BY <1>4, <2>5 DEF Run!RunNext
<1>8. QED
  BY <1>5, <1>6, <1>7

\* The scheduler does what TaskRun allows and nothing else: launches by
\* priority within the capacity, retries within the budget, and the
\* cancellation of all that is downstream of a failure in one step.
THEOREM ImplementsTaskRunSafety == Spec => Run!RunSafety
<1>1. Init => Run!RunInit
  <2> SUFFICES ASSUME Init PROVE Run!RunInit
    OBVIOUS
  <2>1. fails \in [Tasks -> SUBSET (Nat \ {0})]
    BY InitTyped DEF Typed, Types
  <2>2. QED
    BY <2>1 DEF Init, Run!RunInit, Run!Tasks, Tasks
<1>2. /\ Typed /\ HeldOnce /\ Counted /\ Ordered /\ Accounted /\ QueuePriorities
      /\ [Next]_vars
      => [Run!RunNext]_(Run!runVars)
  <2> SUFFICES ASSUME Typed, HeldOnce, Counted, Ordered, Accounted,
                      QueuePriorities, [Next]_vars
               PROVE  [Run!RunNext]_(Run!runVars)
    OBVIOUS
  <2>1. CASE UNCHANGED coreVars
    BY <2>1 DEF coreVars, Run!runVars
  <2>2. QED
    BY <2>1, CoreSteps, DispatchLaunches, FinishEnds
<1>3. QED
  BY <1>1, <1>2, TypesHold, HeldOnceHolds, CountedHolds, OrderedHolds,
     AccountedHolds, QueuePrioritiesHold, PTL DEF Spec, Run!RunSafety
=============================================================================
