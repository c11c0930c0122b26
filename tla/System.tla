------------------------------- MODULE System -------------------------------
(***************************************************************************)
(* The scheduler on the real pool: run() of src/src/scheduler.cpp with the *)
(* WorkerPool of src/src/worker_pool.cpp, two mutexes and two condition    *)
(* variables.  The steps that leave the pool alone are those of module     *)
(* Scheduler, the steps of the pool are those of module WorkerPool; this   *)
(* module says how a thread goes from one into the other, and that the     *)
(* whole is a Scheduler on the JobQueue that Scheduler assumes.            *)
(***************************************************************************)
EXTENDS Integers, Sequences, FiniteSets

CONSTANTS TaskCount, Dependencies, Priority, RetryCount, FailProbability,
          Workers, Nobody

VARIABLES
  fails, state, has_started, has_finished, remaining_dependencies,
  attempts_by_task, ready_queue, enqueue_sequence, running_tasks,
  completed_tasks, failed_tasks, cancelled_tasks, main_pc, to_launch, exec,
  success, terminated,                              \* as in Scheduler
  jobs, stopping, mutex, worker_pc, active, client_pc, accepted, rejected,
  finished                         \* as in WorkerPool: mutex is the pool's

schedulerVars ==
  <<fails, state, has_started, has_finished, remaining_dependencies,
    attempts_by_task, ready_queue, enqueue_sequence, running_tasks,
    completed_tasks, failed_tasks, cancelled_tasks, success, terminated>>
wholePool == <<jobs, stopping, mutex, worker_pc, active, client_pc, accepted,
               rejected, finished>>
vars == <<schedulerVars, main_pc, to_launch, exec, wholePool>>

NoJob == [task_id |-> 0, attempt |-> 0]

\* A worker that has left execute_task is idle as far as the scheduler can
\* tell, although its job() has yet to return to worker_loop.
WorkerView ==
  [w \in Workers |->
     CASE worker_pc[w] = "exited" -> "exited"
       [] worker_pc[w] = "run" /\ exec[w] # "idle" -> "busy"
       [] OTHER -> "idle"]
ActiveView ==
  [w \in Workers |-> IF exec[w] = "idle" THEN NoJob ELSE active[w]]

Abstract == INSTANCE SchedulerProperties WITH worker <- WorkerView,
                                              active <- ActiveView

Pool == INSTANCE WorkerPool WITH Jobs <- Abstract!Jobs,
                                 ThreadsMayFail <- FALSE

\* The scheduler's assumptions, and the pool's.
ASSUME SystemAssumption ==
  /\ Abstract!SchedulerAssumption
  /\ Abstract!ValidatedAssumption
  /\ Nobody \notin Workers

Init == Pool!Init /\ Abstract!Init

-----------------------------------------------------------------------------
\* The main thread.

\* The main thread is in run() and not inside a function of the pool.
OutsidePool == client_pc = "idle"

\* The steps of run() that do not involve the pool.
RunStep ==
  /\ OutsidePool
  /\ UNCHANGED wholePool
  /\ \/ Abstract!LockMutex
     \/ \E r \in ready_queue : Abstract!DispatchNext(r)
     \/ Abstract!DispatchEnd
     \/ Abstract!SubmitEnd
     \/ Abstract!EnterLoop
     \/ Abstract!LeaveLoop
     \/ Abstract!WaitTest
     \/ Abstract!Block
     \/ Abstract!Relock

WakeUp == UNCHANGED wholePool /\ Abstract!SpuriousWakeup

\* pool.submit, in two steps, with the mutex of the scheduler held.
SubmitNext ==
  /\ main_pc = "submit"
  /\ to_launch # <<>>
  /\ Pool!SubmitPush(Head(to_launch))
  /\ to_launch' = Tail(to_launch)
  /\ UNCHANGED <<schedulerVars, main_pc, exec>>

\* pool.shutdown and, when run() returns, the destructor of the pool.
Shutdown ==
  /\ main_pc = "shutdown"
  /\ Pool!ShutdownStop
  /\ main_pc' = "join"
  /\ UNCHANGED <<schedulerVars, to_launch, exec>>

Join ==
  /\ main_pc = "join"
  /\ Pool!JoinAll
  /\ main_pc' = "done"
  /\ UNCHANGED <<schedulerVars, to_launch, exec>>

Return ==
  /\ main_pc = "done"
  /\ Pool!Destroy
  /\ UNCHANGED <<schedulerVars, main_pc, to_launch, exec>>

\* The constructor, and the notifications of submit and shutdown.
InsidePool ==
  /\ \/ \E w \in Workers : Pool!SpawnThread(w)
     \/ Pool!NotifyOne
     \/ Pool!NotifyAll
  /\ UNCHANGED <<schedulerVars, main_pc, to_launch, exec>>

MainStep ==
  RunStep \/ SubmitNext \/ Shutdown \/ Join \/ Return \/ InsidePool

-----------------------------------------------------------------------------
\* The workers.

\* worker_loop takes a job and calls it.
TakeJob(w) ==
  /\ Pool!Take(w)
  /\ exec' = [exec EXCEPT ![w] = "start"]
  /\ UNCHANGED <<schedulerVars, main_pc, to_launch>>

\* The critical sections of execute_task.
ExecuteStep(w) ==
  /\ UNCHANGED wholePool
  /\ \/ Abstract!StartTask(w)
     \/ Abstract!CompleteTask(w)
     \/ Abstract!RetryTask(w)
     \/ Abstract!FailTask(w)

\* sleep_for returns.
WakeFromSleep(w) ==
  /\ UNCHANGED wholePool
  /\ Abstract!DecideTask(w)

\* state_changed_.notify_all, the last thing execute_task does.
NotifyMain(w) ==
  /\ exec[w] = "notify"
  /\ exec' = [exec EXCEPT ![w] = "idle"]
  /\ main_pc' = Abstract!Notified(main_pc)
  /\ UNCHANGED <<schedulerVars, to_launch, wholePool>>

\* job() returns to worker_loop.
ReturnToLoop(w) ==
  /\ exec[w] = "idle"
  /\ Pool!RunJob(w)
  /\ UNCHANGED <<schedulerVars, main_pc, to_launch, exec>>

\* What else worker_loop does.
LoopStep(w) ==
  /\ Pool!Lock(w) \/ Pool!Leave(w) \/ Pool!Refuse(w) \/ Pool!Block(w)
  /\ UNCHANGED <<schedulerVars, main_pc, to_launch, exec>>

SpuriousPoolWakeup(w) ==
  /\ Pool!SpuriousWakeup(w)
  /\ UNCHANGED <<schedulerVars, main_pc, to_launch, exec>>

WorkerStepsButSleep(w) ==
  \/ TakeJob(w)
  \/ ExecuteStep(w)
  \/ NotifyMain(w)
  \/ ReturnToLoop(w)
  \/ LoopStep(w)

-----------------------------------------------------------------------------
Finished ==
  /\ client_pc = "destroyed"
  /\ UNCHANGED vars

Next ==
  \/ MainStep
  \/ WakeUp
  \/ \E w \in Workers : \/ WorkerStepsButSleep(w)
                        \/ WakeFromSleep(w)
                        \/ SpuriousPoolWakeup(w)
  \/ Finished

Spec == Init /\ [][Next]_vars

\* Threads keep running, and spurious wake-ups stop.  Whether a task ever
\* finishes is left open.
FairSpec ==
  /\ Spec
  /\ WF_vars(MainStep)
  /\ \A w \in Workers : WF_vars(WorkerStepsButSleep(w))
  /\ <>[][~WakeUp /\ \A w \in Workers : ~SpuriousPoolWakeup(w)]_vars

-----------------------------------------------------------------------------
\* The scheduler on the real pool is the scheduler of module Scheduler.
ImplementsScheduler == Abstract!Spec

\* If every task finishes, then run() returns and the pool is destroyed, with
\* both mutexes and both condition variables in play.
RunReturns ==
  (\A w \in Workers : WF_vars(WakeFromSleep(w))) => <>(client_pc = "destroyed")

\* A dispatched attempt starts even if no other task ever finishes: the
\* capacity test of dispatch never hands the pool a job that has to wait for a
\* sleeping task, and the notification of submit reaches a free worker.
DispatchedTasksStart ==
  \A t \in 1 .. TaskCount :
    state[t] = "Running" ~>
      \/ state[t] # "Running"
      \/ \E w \in Workers : exec[w] \in {"sleep", "finish"}
                           /\ active[w].task_id = t

\* No slot stays empty while a task could run, even if no other task ever
\* finishes: whoever frees a slot or releases a task makes run() notice.  A dispatch
\* that is missed would only make the run slower.
FreeSlotsAreFilled ==
  LET SlotIsFree ==
        /\ Cardinality(Abstract!InState("Running")) < Cardinality(Workers)
        /\ \E t \in 1 .. TaskCount : Abstract!Runnable(t)
  IN SlotIsFree ~> ~SlotIsFree
=============================================================================
