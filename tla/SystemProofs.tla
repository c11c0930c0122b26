---------------------------- MODULE SystemProofs ----------------------------
(***************************************************************************)
(* Proofs about module System: the scheduler on the real pool is the       *)
(* scheduler of module Scheduler, its pool is the pool of module           *)
(* WorkerPool, and so both keep what is proved of them.                    *)
(***************************************************************************)
EXTENDS System, TLAPS

\* The theorems about the two components, for the variables of the system.
SchedulerTheory == INSTANCE SchedulerProofs
                     WITH worker <- WorkerView, active <- ActiveView
PoolTheory == INSTANCE WorkerPoolProofs
                WITH Jobs <- Abstract!Jobs, ThreadsMayFail <- FALSE

-----------------------------------------------------------------------------
(***************************************************************************)
(* The scheduler and the pool of module System are those of the theorems:  *)
(* the definitions of two instances of one module are the same.            *)
(***************************************************************************)

LEMMA SameSchedulerAssumptions ==
  SchedulerTheory!SchedulerAssumption /\ SchedulerTheory!ValidatedAssumption
<1>1. SchedulerTheory!SchedulerAssumption
  BY SystemAssumption
  DEF Abstract!SchedulerAssumption, SchedulerTheory!SchedulerAssumption,
      Abstract!Tasks, SchedulerTheory!Tasks,
      Abstract!IsFiniteSet, SchedulerTheory!IsFiniteSet
<1>2. SchedulerTheory!ValidatedAssumption
  BY SystemAssumption
  DEF Abstract!ValidatedAssumption, SchedulerTheory!ValidatedAssumption,
      Abstract!Acyclic, SchedulerTheory!Acyclic,
      Abstract!Tasks, SchedulerTheory!Tasks
<1>3. QED
  BY <1>1, <1>2

LEMMA SameJobs == Abstract!Jobs = SchedulerTheory!Jobs
  BY DEF Abstract!Jobs, SchedulerTheory!Jobs, Abstract!Tasks,
     SchedulerTheory!Tasks

LEMMA PoolAssumptions == PoolTheory!WorkerPoolAssumption
<1>1. PoolTheory!IsFiniteSet(Workers) /\ Workers # {}
  BY SystemAssumption
  DEF Abstract!SchedulerAssumption, Abstract!IsFiniteSet, PoolTheory!IsFiniteSet
<1>2. NoJob \notin Abstract!Jobs
  BY DEF NoJob, Abstract!Jobs
<1>3. QED
  BY <1>1, <1>2, SystemAssumption DEF PoolTheory!WorkerPoolAssumption

LEMMA SameSchedulerVars ==
  /\ Abstract!vars = SchedulerTheory!vars
  /\ Abstract!vars' = SchedulerTheory!vars'
  BY DEF Abstract!vars, Abstract!sharedVars, Abstract!taskVars,
     Abstract!queueVars, Abstract!counters, Abstract!mainVars,
     Abstract!poolVars, SchedulerTheory!vars, SchedulerTheory!sharedVars,
     SchedulerTheory!taskVars, SchedulerTheory!queueVars,
     SchedulerTheory!counters, SchedulerTheory!mainVars,
     SchedulerTheory!poolVars

LEMMA SameInit == Abstract!Init <=> SchedulerTheory!Init
  BY DEF
     Abstract!Init, SchedulerTheory!Init, Abstract!Tasks,
     SchedulerTheory!Tasks, Abstract!Dependents, SchedulerTheory!Dependents,
     Abstract!Indegree, SchedulerTheory!Indegree, Abstract!Attempts,
     SchedulerTheory!Attempts, Abstract!NoJob, SchedulerTheory!NoJob,
     Abstract!FailureTables, SchedulerTheory!FailureTables, Abstract!ReadyTask,
     SchedulerTheory!ReadyTask, Abstract!ReadyTasks,
     SchedulerTheory!ReadyTasks, Abstract!Pool!PoolInit,
     SchedulerTheory!Pool!PoolInit, Abstract!Cardinality,
     SchedulerTheory!Cardinality, Abstract!IsFiniteSet,
     SchedulerTheory!IsFiniteSet

LEMMA SameMainStep ==
  Abstract!MainStep \/ Abstract!SpuriousWakeup <=>
    SchedulerTheory!MainStep \/ SchedulerTheory!SpuriousWakeup
  BY DEF Abstract!MainStep, SchedulerTheory!MainStep,
     Abstract!LockMutex, SchedulerTheory!LockMutex, Abstract!DispatchNext,
     SchedulerTheory!DispatchNext, Abstract!DispatchEnd,
     SchedulerTheory!DispatchEnd, Abstract!SubmitNext,
     SchedulerTheory!SubmitNext, Abstract!SubmitEnd, SchedulerTheory!SubmitEnd,
     Abstract!EnterLoop, SchedulerTheory!EnterLoop, Abstract!LeaveLoop,
     SchedulerTheory!LeaveLoop, Abstract!WaitTest, SchedulerTheory!WaitTest,
     Abstract!Block, SchedulerTheory!Block, Abstract!Relock,
     SchedulerTheory!Relock, Abstract!SpuriousWakeup,
     SchedulerTheory!SpuriousWakeup, Abstract!Shutdown,
     SchedulerTheory!Shutdown, Abstract!Join, SchedulerTheory!Join,
     Abstract!MainGoto, SchedulerTheory!MainGoto, Abstract!WaitPredicate,
     SchedulerTheory!WaitPredicate, Abstract!has_worker_capacity,
     SchedulerTheory!has_worker_capacity, Abstract!all_tasks_terminal,
     SchedulerTheory!all_tasks_terminal, Abstract!IsTop, SchedulerTheory!IsTop,
     Abstract!ReadyTaskCompare, SchedulerTheory!ReadyTaskCompare,
     Abstract!Pool!Submit, SchedulerTheory!Pool!Submit, Abstract!Pool!Stop,
     SchedulerTheory!Pool!Stop, Abstract!Pool!Joined,
     SchedulerTheory!Pool!Joined, Abstract!poolVars, SchedulerTheory!poolVars,
     Abstract!Cardinality, SchedulerTheory!Cardinality, Abstract!IsFiniteSet,
     SchedulerTheory!IsFiniteSet, Abstract!sharedVars,
     SchedulerTheory!sharedVars, Abstract!taskVars, SchedulerTheory!taskVars,
     Abstract!queueVars, SchedulerTheory!queueVars, Abstract!counters,
     SchedulerTheory!counters

LEMMA SameWorkerStep ==
  ASSUME NEW w \in Workers
  PROVE  Abstract!WorkerStep(w) <=> SchedulerTheory!WorkerStep(w)
  BY DEF
     Abstract!WorkerStep, SchedulerTheory!WorkerStep, Abstract!TakeJob,
     SchedulerTheory!TakeJob, Abstract!StartTask, SchedulerTheory!StartTask,
     Abstract!DecideTask, SchedulerTheory!DecideTask, Abstract!CompleteTask,
     SchedulerTheory!CompleteTask, Abstract!RetryTask,
     SchedulerTheory!RetryTask, Abstract!FailTask, SchedulerTheory!FailTask,
     Abstract!NotifyMain, SchedulerTheory!NotifyMain, Abstract!ExitWorker,
     SchedulerTheory!ExitWorker, Abstract!FinishTask,
     SchedulerTheory!FinishTask, Abstract!ExecGoto, SchedulerTheory!ExecGoto,
     Abstract!MainHoldsMutex, SchedulerTheory!MainHoldsMutex,
     Abstract!should_fail, SchedulerTheory!should_fail, Abstract!MayRetry,
     SchedulerTheory!MayRetry, Abstract!Notified, SchedulerTheory!Notified,
     Abstract!Released, SchedulerTheory!Released, Abstract!CancelledBy,
     SchedulerTheory!CancelledBy, Abstract!ReachedFrom,
     SchedulerTheory!ReachedFrom, Abstract!ClosedUnderDependents,
     SchedulerTheory!ClosedUnderDependents, Abstract!InState,
     SchedulerTheory!InState, Abstract!Dependents, SchedulerTheory!Dependents,
     Abstract!Tasks, SchedulerTheory!Tasks, Abstract!ReadyTask,
     SchedulerTheory!ReadyTask, Abstract!ReadyTasks,
     SchedulerTheory!ReadyTasks, Abstract!enqueue_ready_tasks,
     SchedulerTheory!enqueue_ready_tasks, Abstract!NoJob,
     SchedulerTheory!NoJob, Abstract!Pool!Take, SchedulerTheory!Pool!Take,
     Abstract!Pool!Popped, SchedulerTheory!Pool!Popped, Abstract!Pool!Return,
     SchedulerTheory!Pool!Return, Abstract!Pool!Exit,
     SchedulerTheory!Pool!Exit, Abstract!mainVars, SchedulerTheory!mainVars,
     Abstract!poolVars, SchedulerTheory!poolVars, Abstract!Cardinality,
     SchedulerTheory!Cardinality, Abstract!IsFiniteSet,
     SchedulerTheory!IsFiniteSet, Abstract!sharedVars,
     SchedulerTheory!sharedVars, Abstract!taskVars, SchedulerTheory!taskVars,
     Abstract!queueVars, SchedulerTheory!queueVars, Abstract!counters,
     SchedulerTheory!counters

LEMMA SameStep ==
  [Abstract!Next]_(Abstract!vars) <=>
    [SchedulerTheory!Next]_(SchedulerTheory!vars)
  BY SameMainStep, SameWorkerStep, SameSchedulerVars
  DEF Abstract!Next, SchedulerTheory!Next, Abstract!Finished,
      SchedulerTheory!Finished

LEMMA SameSpec == Abstract!Spec <=> SchedulerTheory!Spec
  BY SameInit, SameStep, PTL DEF Abstract!Spec, SchedulerTheory!Spec

LEMMA SamePoolInit == Pool!Init <=> PoolTheory!Init
  BY DEF Pool!Init, PoolTheory!Init

LEMMA SamePoolStep == [Pool!Next]_(Pool!vars) <=> [PoolTheory!Next]_(PoolTheory!vars)
  BY DEF
     Pool!Next, PoolTheory!Next, Pool!ClientCalls, PoolTheory!ClientCalls,
     Pool!ClientReturns, PoolTheory!ClientReturns, Pool!WorkerLoop,
     PoolTheory!WorkerLoop, Pool!Destroyed, PoolTheory!Destroyed, Pool!vars,
     PoolTheory!vars, Pool!SpawnThread, PoolTheory!SpawnThread,
     Pool!SpawnFails, PoolTheory!SpawnFails, Pool!UnwindConstructor,
     PoolTheory!UnwindConstructor, Pool!SubmitPush, PoolTheory!SubmitPush,
     Pool!SubmitThrow, PoolTheory!SubmitThrow, Pool!NotifyOne,
     PoolTheory!NotifyOne, Pool!ShutdownStop, PoolTheory!ShutdownStop,
     Pool!NotifyAll, PoolTheory!NotifyAll, Pool!JoinAll, PoolTheory!JoinAll,
     Pool!Destroy, PoolTheory!Destroy, Pool!Lock, PoolTheory!Lock, Pool!Take,
     PoolTheory!Take, Pool!Leave, PoolTheory!Leave, Pool!Refuse,
     PoolTheory!Refuse, Pool!Block, PoolTheory!Block, Pool!SpuriousWakeup,
     PoolTheory!SpuriousWakeup, Pool!RunJob, PoolTheory!RunJob, Pool!Enter,
     PoolTheory!Enter, Pool!MutexFree, PoolTheory!MutexFree, Pool!In,
     PoolTheory!In, Pool!Wake, PoolTheory!Wake, Pool!Popped, PoolTheory!Popped,
     Pool!MayLeave, PoolTheory!MayLeave, Pool!NoThreadYet,
     PoolTheory!NoThreadYet

-----------------------------------------------------------------------------
(***************************************************************************)
(* How the two sides are linked.                                           *)
(***************************************************************************)

\* A worker inside execute_task is inside a job of the pool, and the
\* constructor of the pool does not fail.
Linked ==
  /\ \A w \in Workers : exec[w] # "idle" => worker_pc[w] = "run"
  /\ client_pc \notin {"unwind", "threw", "terminated"}

\* The inductive invariant of the system: that of the scheduler, seen through
\* the view of the pool, and the types of the pool.
SystemInvariant ==
  /\ SchedulerTheory!Typed
  /\ SchedulerTheory!HeldOnce
  /\ SchedulerTheory!RemainingExact
  /\ PoolTheory!Typed
  /\ Linked

LEMMA NextLinked ==
  ASSUME SystemInvariant, [Next]_vars
  PROVE  Linked'
<1>types. /\ worker_pc \in [Workers -> {"none", "lock", "test", "block",
                                        "blocked", "run", "exited"}]
          /\ exec \in [Workers -> {"idle", "start", "sleep", "finish",
                                   "notify"}]
  BY DEF SystemInvariant, PoolTheory!Typed, PoolTheory!TypeOK,
     SchedulerTheory!Typed, SchedulerTheory!Types
<1> USE DEF SystemInvariant, Linked
<1>1. CASE RunStep
  BY <1>1, <1>types DEF RunStep, wholePool, Abstract!LockMutex,
     Abstract!DispatchNext, Abstract!DispatchEnd, Abstract!SubmitEnd,
     Abstract!EnterLoop, Abstract!LeaveLoop, Abstract!WaitTest, Abstract!Block,
     Abstract!Relock, Abstract!MainGoto
<1>2. CASE WakeUp
  BY <1>2 DEF WakeUp, wholePool, Abstract!SpuriousWakeup, Abstract!MainGoto
<1>3. CASE SubmitNext \/ Shutdown \/ Join \/ Return
  BY <1>3 DEF SubmitNext, Shutdown, Join, Return, Pool!SubmitPush,
     Pool!ShutdownStop, Pool!JoinAll, Pool!Destroy, Pool!Enter
<1>4. CASE InsidePool
  BY <1>4, <1>types DEF InsidePool, Pool!SpawnThread, Pool!NotifyOne,
     Pool!NotifyAll, Pool!In, Pool!Wake
<1>5. ASSUME NEW w \in Workers, TakeJob(w)
      PROVE  Linked'
  BY <1>5, <1>types DEF TakeJob, Pool!Take
<1>6. ASSUME NEW w \in Workers, ExecuteStep(w) \/ WakeFromSleep(w)
      PROVE  Linked'
  BY <1>6, <1>types DEF ExecuteStep, WakeFromSleep, wholePool,
     Abstract!StartTask, Abstract!DecideTask, Abstract!CompleteTask,
     Abstract!RetryTask, Abstract!FailTask, Abstract!FinishTask,
     Abstract!ExecGoto
<1>7. ASSUME NEW w \in Workers, NotifyMain(w)
      PROVE  Linked'
  BY <1>7, <1>types DEF NotifyMain, wholePool
<1>8. ASSUME NEW w \in Workers, ReturnToLoop(w)
      PROVE  Linked'
  BY <1>8, <1>types DEF ReturnToLoop, Pool!RunJob
<1>9. ASSUME NEW w \in Workers, LoopStep(w) \/ SpuriousPoolWakeup(w)
      PROVE  Linked'
  BY <1>9, <1>types DEF LoopStep, SpuriousPoolWakeup, Pool!Lock, Pool!Leave,
     Pool!Refuse, Pool!Block, Pool!SpuriousWakeup
<1>10. CASE UNCHANGED vars
  BY <1>10 DEF vars, wholePool
<1>11. QED
  BY <1>1, <1>2, <1>3, <1>4, <1>5, <1>6, <1>7, <1>8, <1>9, <1>10
  DEF Next, MainStep, WorkerStepsButSleep, Finished

\* Every step is a step of the pool, or leaves it alone.
LEMMA PoolSimulated ==
  ASSUME SystemInvariant, [Next]_vars
  PROVE  [Pool!Next]_(Pool!vars)
<1> USE DEF SystemInvariant, Linked, Pool!vars, wholePool
<1>1. CASE RunStep \/ WakeUp \/ UNCHANGED vars
  BY <1>1 DEF RunStep, WakeUp, vars
<1>2. CASE SubmitNext
  <2>1. Head(to_launch) \in Abstract!Jobs
    <3>1. to_launch \in Seq(Abstract!Jobs)
      BY SameJobs DEF SchedulerTheory!Typed, SchedulerTheory!Types
    <3>2. QED
      BY <3>1, <1>2 DEF SubmitNext
  <2>2. QED
    BY <1>2, <2>1 DEF SubmitNext, Pool!Next, Pool!ClientCalls
<1>3. CASE Shutdown \/ Join \/ Return \/ InsidePool
  BY <1>3 DEF Shutdown, Join, Return, InsidePool, Pool!Next,
     Pool!ClientCalls, Pool!ClientReturns
<1>4. ASSUME NEW w \in Workers, WorkerStepsButSleep(w) \/ WakeFromSleep(w)
      PROVE  [Pool!Next]_(Pool!vars)
  BY <1>4 DEF WorkerStepsButSleep, WakeFromSleep, TakeJob, ExecuteStep,
     NotifyMain, ReturnToLoop, LoopStep, Pool!Next, Pool!WorkerLoop
<1>5. ASSUME NEW w \in Workers, SpuriousPoolWakeup(w)
      PROVE  [Pool!Next]_(Pool!vars)
  BY <1>5 DEF SpuriousPoolWakeup, Pool!Next
<1>6. QED
  BY <1>1, <1>2, <1>3, <1>4, <1>5 DEF Next, MainStep, Finished

\* What the scheduler sees of the pool changes only if a thread enters or
\* leaves execute_task, or ends.
LEMMA ViewsKept ==
  ASSUME UNCHANGED exec,
         \A w \in Workers :
           /\ worker_pc'[w] = "exited" <=> worker_pc[w] = "exited"
           /\ exec[w] # "idle" => UNCHANGED <<worker_pc[w], active[w]>>
  PROVE  UNCHANGED <<WorkerView, ActiveView>>
<1>1. WorkerView' = WorkerView
  BY DEF WorkerView
<1>2. ActiveView' = ActiveView
  BY DEF ActiveView
<1>3. QED
  BY <1>1, <1>2

\* Every step is a step of the scheduler, or invisible to it.
LEMMA SchedulerSimulated ==
  ASSUME SystemInvariant, [Next]_vars
  PROVE  [Abstract!Next]_(Abstract!vars)
<1>types. /\ worker_pc \in [Workers -> {"none", "lock", "test", "block",
                                        "blocked", "run", "exited"}]
          /\ exec \in [Workers -> {"idle", "start", "sleep", "finish",
                                   "notify"}]
          /\ DOMAIN active = Workers
  BY DEF SystemInvariant, PoolTheory!Typed, PoolTheory!TypeOK,
     SchedulerTheory!Typed, SchedulerTheory!Types
<1>linked. \A w \in Workers : exec[w] # "idle" => worker_pc[w] = "run"
  BY DEF SystemInvariant, Linked
<1>alive. ~terminated
  BY DEF SystemInvariant, SchedulerTheory!RemainingExact
<1> DEFINE Invisible == UNCHANGED <<schedulerVars, main_pc, to_launch, exec,
                                    jobs, stopping, WorkerView, ActiveView>>
<1>invisible. Invisible => UNCHANGED Abstract!vars
  BY DEF schedulerVars, Abstract!vars, Abstract!sharedVars, Abstract!taskVars,
     Abstract!queueVars, Abstract!counters, Abstract!mainVars,
     Abstract!poolVars
<1> DEFINE PoolStep == UNCHANGED <<schedulerVars, exec, WorkerView, ActiveView>>
<1>poolstep. PoolStep =>
       UNCHANGED <<fails, Abstract!sharedVars, exec, success, terminated,
                   WorkerView, ActiveView>>
  BY DEF schedulerVars, Abstract!sharedVars, Abstract!taskVars,
     Abstract!queueVars, Abstract!counters
<1> HIDE DEF Invisible, PoolStep
<1>1. CASE RunStep \/ WakeUp
  BY <1>1 DEF RunStep, WakeUp, Abstract!Next, Abstract!MainStep
<1>2. CASE SubmitNext
  <2>1. UNCHANGED <<WorkerView, ActiveView>>
    BY <1>2, ViewsKept DEF SubmitNext, Pool!SubmitPush, Pool!Enter
  <2>2. Abstract!SubmitNext
    BY <1>2, <2>1, <1>alive, <1>poolstep
    DEF SubmitNext, Pool!SubmitPush, Pool!Enter, Abstract!SubmitNext,
        Abstract!Pool!Submit, PoolStep
  <2>3. QED
    BY <2>2 DEF Abstract!Next, Abstract!MainStep
<1>3. CASE Shutdown
  <2>1. UNCHANGED <<WorkerView, ActiveView>>
    BY <1>3, ViewsKept DEF Shutdown, Pool!ShutdownStop, Pool!Enter
  <2>2. Abstract!Shutdown
    BY <1>3, <2>1, <1>alive, <1>poolstep
    DEF Shutdown, Pool!ShutdownStop, Pool!Enter, Abstract!Shutdown,
        Abstract!Pool!Stop, Abstract!MainGoto, PoolStep
  <2>3. QED
    BY <2>2 DEF Abstract!Next, Abstract!MainStep
<1>4. CASE Join
  <2>1. UNCHANGED <<WorkerView, ActiveView, jobs, stopping>>
    BY <1>4, ViewsKept DEF Join, Pool!JoinAll
  <2>2. Abstract!Pool!Joined
    <3>1. \A w \in Workers : worker_pc[w] = "exited"
      BY <1>4 DEF Join, Pool!JoinAll, Pool!In
    <3>2. QED
      BY <3>1 DEF Abstract!Pool!Joined, WorkerView
  <2>3. Abstract!Join
    BY <1>4, <2>1, <2>2, <1>alive, <1>poolstep
    DEF Join, Pool!JoinAll, Abstract!Join, Abstract!MainGoto,
        Abstract!poolVars, PoolStep
  <2>4. QED
    BY <2>3 DEF Abstract!Next, Abstract!MainStep
<1>5. CASE Return
  <2>1. UNCHANGED <<WorkerView, ActiveView>>
    BY <1>5, ViewsKept DEF Return, Pool!Destroy, Pool!Enter
  <2>2. QED
    BY <1>5, <2>1, <1>invisible
    DEF Return, Pool!Destroy, Pool!Enter, Invisible
<1>6. CASE InsidePool
  <2>1. \A w \in Workers :
          /\ worker_pc'[w] = "exited" <=> worker_pc[w] = "exited"
          /\ exec[w] # "idle" => worker_pc'[w] = worker_pc[w]
    BY <1>6, <1>types, <1>linked
    DEF InsidePool, Pool!SpawnThread, Pool!NotifyOne, Pool!NotifyAll, Pool!In,
        Pool!Wake
  <2>2. UNCHANGED <<active, exec>>
    BY <1>6 DEF InsidePool, Pool!SpawnThread, Pool!NotifyOne, Pool!NotifyAll
  <2>3. UNCHANGED <<WorkerView, ActiveView>>
    BY <2>1, <2>2, ViewsKept
  <2>4. QED
    BY <1>6, <2>3, <1>invisible
    DEF InsidePool, Pool!SpawnThread, Pool!NotifyOne, Pool!NotifyAll, Invisible
<1>7. ASSUME NEW w \in Workers, TakeJob(w)
      PROVE  Abstract!TakeJob(w)
  <2>1. worker_pc[w] = "test" /\ exec[w] = "idle"
    BY <1>7, <1>linked DEF TakeJob, Pool!Take
  <2>2. WorkerView[w] = "idle" /\ WorkerView' = [WorkerView EXCEPT ![w] = "busy"]
    BY <1>7, <2>1, <1>types DEF TakeJob, Pool!Take, WorkerView
  <2>3. ActiveView' = [ActiveView EXCEPT ![w] = Head(jobs)]
    BY <1>7, <2>1, <1>types DEF TakeJob, Pool!Take, ActiveView
  <2>4. Abstract!Pool!Take(w)
    BY <1>7, <2>2, <2>3
    DEF TakeJob, Pool!Take, Pool!Popped, Abstract!Pool!Take,
        Abstract!Pool!Popped
  <2>5. QED
    BY <1>7, <2>1, <2>4, <1>alive
    DEF TakeJob, schedulerVars, Abstract!TakeJob, Abstract!ExecGoto,
        Abstract!sharedVars, Abstract!taskVars, Abstract!queueVars,
        Abstract!counters, Abstract!mainVars
<1>8. ASSUME NEW w \in Workers, NotifyMain(w)
      PROVE  Abstract!NotifyMain(w)
  <2>1. worker_pc[w] = "run"
    BY <1>8, <1>linked DEF NotifyMain
  <2>2. WorkerView[w] = "busy" /\ WorkerView' = [WorkerView EXCEPT ![w] = "idle"]
    BY <1>8, <2>1, <1>types DEF NotifyMain, wholePool, WorkerView
  <2>3. ActiveView' = [ActiveView EXCEPT ![w] = Abstract!NoJob]
    BY <1>8, <2>1, <1>types
    DEF NotifyMain, wholePool, ActiveView, NoJob, Abstract!NoJob
  <2>4. Abstract!Pool!Return(w)
    BY <1>8, <2>2, <2>3 DEF NotifyMain, wholePool, Abstract!Pool!Return
  <2>5. QED
    BY <1>8, <2>4, <1>alive
    DEF NotifyMain, schedulerVars, Abstract!NotifyMain, Abstract!ExecGoto,
        Abstract!sharedVars, Abstract!taskVars, Abstract!queueVars,
        Abstract!counters
<1>9. ASSUME NEW w \in Workers, LoopStep(w), Pool!Leave(w)
      PROVE  Abstract!ExitWorker(w)
  <2>1. worker_pc[w] = "test" /\ exec[w] = "idle"
    BY <1>9, <1>linked DEF Pool!Leave
  <2>2. UNCHANGED <<exec, active>>
    BY <1>9 DEF LoopStep, Pool!Leave
  <2>3. WorkerView[w] = "idle" /\ WorkerView' = [WorkerView EXCEPT ![w] = "exited"]
    BY <1>9, <2>1, <2>2, <1>types DEF Pool!Leave, WorkerView
  <2>4. UNCHANGED ActiveView
    BY <2>2 DEF ActiveView
  <2>5. Abstract!Pool!Exit(w)
    BY <1>9, <2>3, <2>4 DEF Pool!Leave, Pool!MayLeave, Abstract!Pool!Exit
  <2>6. QED
    BY <1>9, <2>5, <1>alive
    DEF LoopStep, schedulerVars, Abstract!ExitWorker, Abstract!sharedVars,
        Abstract!taskVars, Abstract!queueVars, Abstract!counters,
        Abstract!mainVars
<1>10. ASSUME NEW w \in Workers,
              LoopStep(w) \/ SpuriousPoolWakeup(w) \/ ReturnToLoop(w),
              ~Pool!Leave(w)
       PROVE  UNCHANGED Abstract!vars
  <2>1. UNCHANGED <<schedulerVars, main_pc, to_launch, exec, jobs, stopping>>
    BY <1>10 DEF LoopStep, SpuriousPoolWakeup, ReturnToLoop, Pool!Lock,
       Pool!Refuse, Pool!Block, Pool!SpuriousWakeup, Pool!RunJob
  <2>2. \A v \in Workers :
          /\ worker_pc'[v] = "exited" <=> worker_pc[v] = "exited"
          /\ exec[v] # "idle" => UNCHANGED <<worker_pc[v], active[v]>>
    BY <1>10, <1>types, <1>linked
    DEF LoopStep, SpuriousPoolWakeup, ReturnToLoop, Pool!Lock, Pool!Refuse,
        Pool!Block, Pool!SpuriousWakeup, Pool!RunJob
  <2>3. UNCHANGED <<WorkerView, ActiveView>>
    BY <2>1, <2>2, ViewsKept
  <2>4. QED
    BY <2>1, <2>3, <1>invisible DEF Invisible
<1>11. ASSUME NEW w \in Workers, ExecuteStep(w) \/ WakeFromSleep(w)
       PROVE  Abstract!WorkerStep(w)
  BY <1>11 DEF ExecuteStep, WakeFromSleep, Abstract!WorkerStep
<1>12. CASE UNCHANGED vars
  <2>1. UNCHANGED <<WorkerView, ActiveView>>
    BY <1>12, ViewsKept DEF vars, wholePool
  <2>2. QED
    BY <1>12, <2>1, <1>invisible DEF vars, wholePool, Invisible
<1>13. QED
  <2>1. ASSUME NEW w \in Workers, WorkerStepsButSleep(w) \/ WakeFromSleep(w)
                                  \/ SpuriousPoolWakeup(w)
        PROVE  [Abstract!Next]_(Abstract!vars)
    <3>1. CASE TakeJob(w) \/ NotifyMain(w) \/ ExecuteStep(w)
               \/ WakeFromSleep(w) \/ (LoopStep(w) /\ Pool!Leave(w))
      BY <3>1, <1>7, <1>8, <1>9, <1>11 DEF Abstract!Next, Abstract!WorkerStep
    <3>2. CASE /\ LoopStep(w) \/ SpuriousPoolWakeup(w) \/ ReturnToLoop(w)
               /\ ~(LoopStep(w) /\ Pool!Leave(w))
      <4>1. CASE Pool!Leave(w)
        BY <4>1, <3>2 DEF Pool!Leave, SpuriousPoolWakeup, ReturnToLoop,
           Pool!SpuriousWakeup, Pool!RunJob
      <4>2. CASE ~Pool!Leave(w)
        BY <4>2, <3>2, <1>10
      <4>3. QED
        BY <4>1, <4>2
    <3>3. QED
      BY <2>1, <3>1, <3>2 DEF WorkerStepsButSleep
  <2>2. QED
    BY <1>1, <1>2, <1>3, <1>4, <1>5, <1>6, <1>12, <2>1
    DEF Next, MainStep, Finished

-----------------------------------------------------------------------------
(***************************************************************************)
(* The two implementations.                                                *)
(***************************************************************************)

LEMMA InitSystemInvariant == Init => SystemInvariant
<1> SUFFICES ASSUME Init PROVE SystemInvariant
  OBVIOUS
<1>1. SchedulerTheory!Init /\ PoolTheory!Init
  BY SameInit, SamePoolInit DEF Init
<1>2. /\ SchedulerTheory!Typed
      /\ SchedulerTheory!HeldOnce
      /\ SchedulerTheory!RemainingExact
  BY <1>1, SchedulerTheory!InitTyped, SchedulerTheory!InitHeldOnce,
     SchedulerTheory!InitRemainingExact, SameSchedulerAssumptions
<1>3. PoolTheory!Typed
  BY <1>1, PoolTheory!InitTyped, PoolAssumptions
<1>4. Linked
  BY DEF Init, Pool!Init, Abstract!Init, Linked
<1>5. QED
  BY <1>2, <1>3, <1>4 DEF SystemInvariant

LEMMA NextSystemInvariant ==
  SystemInvariant /\ [Next]_vars => SystemInvariant'
<1> SUFFICES ASSUME SystemInvariant, [Next]_vars
             PROVE  SystemInvariant'
  OBVIOUS
<1>1. [SchedulerTheory!Next]_(SchedulerTheory!vars)
  BY SchedulerSimulated, SameStep
<1>2. [PoolTheory!Next]_(PoolTheory!vars)
  BY PoolSimulated, SamePoolStep
<1>3. SchedulerTheory!Typed'
  BY <1>1, SchedulerTheory!NextTyped, SameSchedulerAssumptions
  DEF SystemInvariant
<1>4. SchedulerTheory!HeldOnce'
  BY <1>1, SchedulerTheory!NextHeldOnce, SameSchedulerAssumptions
  DEF SystemInvariant
<1>5. SchedulerTheory!RemainingExact'
  BY <1>1, SchedulerTheory!NextRemainingExact, SameSchedulerAssumptions
  DEF SystemInvariant
<1>6. PoolTheory!Typed'
  BY <1>2, PoolTheory!NextTyped, PoolAssumptions DEF SystemInvariant
<1>7. QED
  BY <1>3, <1>4, <1>5, <1>6, NextLinked DEF SystemInvariant

\* A thread is inside execute_task only while worker_loop runs a job, and each
\* component keeps its own invariant, with the other as its environment.
THEOREM SystemInvariantHolds == Spec => []SystemInvariant
  BY InitSystemInvariant, NextSystemInvariant, PTL DEF Spec

\* run() on the real pool, with its second mutex and condition variable, is
\* the scheduler of module Scheduler: whatever that one promises of every
\* schedule, this one keeps.
THEOREM ImplementsSchedulerHolds == Spec => ImplementsScheduler
<1>1. Init => Abstract!Init
  BY DEF Init
<1>2. SystemInvariant /\ [Next]_vars => [Abstract!Next]_(Abstract!vars)
  BY SchedulerSimulated
<1>3. QED
  BY <1>1, <1>2, SystemInvariantHolds, PTL
  DEF Spec, ImplementsScheduler, Abstract!Spec

\* What run() and its workers do to the pool, the pool of module WorkerPool
\* allows: the scheduler is one of the clients that module has.
THEOREM ImplementsPool == Spec => Pool!Spec
<1>1. Init => Pool!Init
  BY DEF Init
<1>2. SystemInvariant /\ [Next]_vars => [Pool!Next]_(Pool!vars)
  BY PoolSimulated
<1>3. QED
  BY <1>1, <1>2, SystemInvariantHolds, PTL DEF Spec, Pool!Spec

-----------------------------------------------------------------------------
(***************************************************************************)
(* What the system inherits.                                               *)
(***************************************************************************)

LEMMA SameClaims ==
  /\ Abstract!NoLostWakeup <=> SchedulerTheory!NoLostWakeup
  /\ Abstract!RunningHasOneHolder <=> SchedulerTheory!RunningHasOneHolder
  /\ Abstract!ReportIsTrue <=> SchedulerTheory!ReportIsTrue
  /\ Abstract!OutcomeIsDeterministic <=> SchedulerTheory!OutcomeIsDeterministic
  /\ Abstract!QuietAfterLoop <=> SchedulerTheory!QuietAfterLoop
<1>1. Abstract!NoLostWakeup <=> SchedulerTheory!NoLostWakeup
  BY DEF
     Abstract!NoLostWakeup, SchedulerTheory!NoLostWakeup,
     Abstract!WaitPredicate, SchedulerTheory!WaitPredicate,
     Abstract!all_tasks_terminal, SchedulerTheory!all_tasks_terminal,
     Abstract!has_worker_capacity, SchedulerTheory!has_worker_capacity,
     Abstract!Cardinality, SchedulerTheory!Cardinality
<1>2. Abstract!RunningHasOneHolder <=> SchedulerTheory!RunningHasOneHolder
  BY DEF
     Abstract!RunningHasOneHolder, SchedulerTheory!RunningHasOneHolder,
     Abstract!HoldersOf, SchedulerTheory!HoldersOf, Abstract!Executing,
     SchedulerTheory!Executing, Abstract!Tasks, SchedulerTheory!Tasks,
     Abstract!Cardinality, SchedulerTheory!Cardinality
<1>3. Abstract!ReportIsTrue <=> SchedulerTheory!ReportIsTrue
  BY DEF
     Abstract!ReportIsTrue, SchedulerTheory!ReportIsTrue,
     Abstract!AttemptsWithinBudget, SchedulerTheory!AttemptsWithinBudget,
     Abstract!SummaryTimings, SchedulerTheory!SummaryTimings,
     Abstract!ExitCodeTellsSuccess, SchedulerTheory!ExitCodeTellsSuccess,
     Abstract!ExitCode, SchedulerTheory!ExitCode, Abstract!Attempts,
     SchedulerTheory!Attempts, Abstract!Terminal, SchedulerTheory!Terminal,
     Abstract!Tasks, SchedulerTheory!Tasks
<1>4. Abstract!OutcomeIsDeterministic <=> SchedulerTheory!OutcomeIsDeterministic
  BY DEF
     Abstract!OutcomeIsDeterministic, SchedulerTheory!OutcomeIsDeterministic,
     Abstract!IsOutcome, SchedulerTheory!IsOutcome, Abstract!AfterLoop,
     SchedulerTheory!AfterLoop, Abstract!Attempts, SchedulerTheory!Attempts,
     Abstract!Terminal, SchedulerTheory!Terminal, Abstract!Tasks,
     SchedulerTheory!Tasks
<1>5. Abstract!QuietAfterLoop <=> SchedulerTheory!QuietAfterLoop
  BY DEF
     Abstract!QuietAfterLoop, SchedulerTheory!QuietAfterLoop,
     Abstract!AfterLoop, SchedulerTheory!AfterLoop, Abstract!Executing,
     SchedulerTheory!Executing, Abstract!Terminal, SchedulerTheory!Terminal,
     Abstract!Tasks, SchedulerTheory!Tasks
<1>6. QED
  BY <1>1, <1>2, <1>3, <1>4, <1>5

\* The promises of the scheduler hold with the real pool underneath: it never
\* sleeps through work, a running task is in one place, the report is true,
\* the outcome does not depend on the schedule, and nothing runs after the
\* loop.
THEOREM SchedulerKept ==
  Spec => [](/\ Abstract!NoLostWakeup
             /\ Abstract!RunningHasOneHolder
             /\ Abstract!ReportIsTrue
             /\ Abstract!OutcomeIsDeterministic
             /\ Abstract!QuietAfterLoop)
<1>1. Spec => SchedulerTheory!Spec
  BY ImplementsSchedulerHolds, SameSpec DEF ImplementsScheduler
<1>2. SchedulerTheory!Spec =>
        /\ []SchedulerTheory!NoLostWakeup
        /\ []SchedulerTheory!RunningHasOneHolder
        /\ []SchedulerTheory!ReportIsTrue
        /\ []SchedulerTheory!OutcomeIsDeterministic
        /\ []SchedulerTheory!QuietAfterLoop
  BY SameSchedulerAssumptions, SchedulerTheory!NoLostWakeupHolds,
     SchedulerTheory!RunningHasOneHolderHolds,
     SchedulerTheory!ReportIsTrueHolds,
     SchedulerTheory!OutcomeIsDeterministicHolds,
     SchedulerTheory!QuietAfterLoopHolds
<1>3. QED
  BY <1>1, <1>2, SameClaims, PTL

LEMMA SamePoolClaims ==
  /\ Pool!NoNotificationIsLost <=> PoolTheory!NoNotificationIsLost
  /\ Pool!ShutdownDrains <=> PoolTheory!ShutdownDrains
  BY DEF
     Pool!NoNotificationIsLost, PoolTheory!NoNotificationIsLost,
     Pool!NoJobWaitsForSleeper, PoolTheory!NoJobWaitsForSleeper,
     Pool!NoSleeperAfterStop, PoolTheory!NoSleeperAfterStop,
     Pool!ShutdownDrains, PoolTheory!ShutdownDrains, Pool!In, PoolTheory!In,
     Pool!Cardinality, PoolTheory!Cardinality

\* The promises of the pool hold with the scheduler as its client: every
\* notification of the pool does its work, and when shutdown returns every job
\* that dispatch submitted has run.
THEOREM PoolKept ==
  Spec => [](Pool!NoNotificationIsLost /\ Pool!ShutdownDrains)
<1>1. Spec => PoolTheory!Spec
  BY ImplementsPool, SamePoolInit, SamePoolStep, PTL
  DEF Pool!Spec, PoolTheory!Spec
<1>2. PoolTheory!Spec =>
        []PoolTheory!NoNotificationIsLost /\ []PoolTheory!ShutdownDrains
  BY PoolAssumptions, PoolTheory!NoNotificationIsLostHolds,
     PoolTheory!ShutdownDrainsHolds
<1>3. QED
  BY <1>1, <1>2, SamePoolClaims, PTL
=============================================================================
