----------------------------- MODULE Scheduler -----------------------------
(***************************************************************************)
(* Scheduler::run from the point where the configuration is loaded and     *)
(* validated (src/src/scheduler.cpp): the main thread that dispatches      *)
(* ready tasks and sleeps on state_changed_, and the pool's workers that   *)
(* run execute_task.                                                       *)
(*                                                                         *)
(* mutex_ is held by the main thread exactly while main_pc is in           *)
(* MainHoldsMutex.  A worker's critical section is one action, taken only  *)
(* when the main thread does not hold the mutex: nothing inside it blocks  *)
(* or reads unprotected state.  The pool is the one JobQueue promises.     *)
(***************************************************************************)
EXTENDS Integers, Sequences, FiniteSets, TaskGraph

CONSTANTS Workers,          \* the threads of the pool; worker_count of them
          Priority,         \* Task::priority
          RetryCount,       \* Task::retry_count
          FailProbability   \* Task::fail_probability: "zero", "some" or "one"

ASSUME SchedulerAssumption ==
  /\ TaskCount \in Nat
  /\ Dependencies \in [Tasks -> SUBSET Tasks]
  /\ IsFiniteSet(Workers)
  /\ Workers # {}
  /\ Priority \in [Tasks -> Int]
  /\ RetryCount \in [Tasks -> Nat]
  /\ FailProbability \in [Tasks -> {"zero", "some", "one"}]

\* validate_acyclic throws before the scheduler state is built.
ASSUME ValidatedAssumption == Acyclic

VARIABLES
  fails,                   \* task -> the attempts should_fail says yes to
  state, has_started, has_finished,                    \* the Task fields
  remaining_dependencies, attempts_by_task,
  ready_queue, enqueue_sequence,
  running_tasks, completed_tasks, failed_tasks, cancelled_tasks,
  main_pc,                 \* where the main thread is in run()
  to_launch,               \* the local of dispatch_ready_tasks
  exec,                    \* worker -> where it is in execute_task
  success,                 \* worker -> the local of execute_task
  terminated,              \* std::terminate was called
  jobs, stopping, worker, active                       \* the pool

Attempts(t) == 1 .. RetryCount[t] + 1
NoJob == [task_id |-> 0, attempt |-> 0]
Jobs == [task_id : Tasks, attempt : Nat \ {0}]

Pool == INSTANCE JobQueue

counters == <<running_tasks, completed_tasks, failed_tasks, cancelled_tasks>>
taskVars == <<state, has_started, has_finished>>
queueVars == <<ready_queue, enqueue_sequence>>
mainVars == <<main_pc, to_launch>>
poolVars == <<jobs, stopping, worker, active>>
sharedVars == <<taskVars, remaining_dependencies, attempts_by_task, queueVars,
                counters>>
vars == <<fails, sharedVars, mainVars, exec, success, terminated, poolVars>>

-----------------------------------------------------------------------------
TaskStates == {"Pending", "Running", "Completed", "Failed", "Cancelled"}

InState(s) == {t \in Tasks : state[t] = s}

\* A mistake to detect: the sleeper gives the mutex up before it is enqueued.
MutexReleasedEarly == main_pc \in {"dispatch", "submit", "while", "wait"}

\* The dispatch thread is inside the unique_lock of run() and not asleep.
MainHoldsMutex == main_pc \in {"dispatch", "submit", "while", "wait", "block"}

\* should_fail compares a hash of (id, attempt) with fail_probability.  Which
\* attempts a hash picks is fixed for a build, and any set is possible for a
\* probability strictly between 0 and 1.
FailureTables ==
  {f \in [Tasks -> SUBSET UNION {Attempts(t) : t \in Tasks}] :
     \A t \in Tasks :
       CASE FailProbability[t] = "zero" -> f[t] = {}
         [] FailProbability[t] = "some" -> f[t] \subseteq Attempts(t)
         [] FailProbability[t] = "one"  -> f[t] = Attempts(t)}

should_fail(t, attempt_number) == attempt_number \in fails[t]

\* A mistake to detect: the tasks still running are counted as done.
AllTasksLaunched ==
  completed_tasks + failed_tasks + cancelled_tasks + running_tasks = TaskCount

all_tasks_terminal ==
  /\ completed_tasks + failed_tasks + cancelled_tasks = TaskCount
  /\ running_tasks = 0

\* A mistake to detect: one running task too many.
CapacityOffByOne == running_tasks <= Cardinality(Workers)

has_worker_capacity == running_tasks < Cardinality(Workers)

\* A mistake to detect: lower values first.
LowerPriorityFirst(lhs, rhs) == lhs.priority > rhs.priority

\* lhs orders below rhs: rhs is dispatched first.
ReadyTaskCompare(lhs, rhs) ==
  \/ lhs.priority < rhs.priority
  \/ /\ lhs.priority = rhs.priority
     /\ \/ lhs.insertion_order > rhs.insertion_order
        \/ /\ lhs.insertion_order = rhs.insertion_order
           /\ lhs.task_id > rhs.task_id

\* r is what ready_queue_.top() may return.
IsTop(r) == \A q \in ready_queue : ~ReadyTaskCompare(r, q)

ReadyTask(t, order) ==
  [priority |-> Priority[t], insertion_order |-> order, task_id |-> t]

\* The entries enqueue_ready_task pushes when it is called for the members of
\* S in file order, first being the next insertion order.
ReadyTasks(S, first) ==
  {ReadyTask(t, first + Cardinality({u \in S : u < t})) : t \in S}

enqueue_ready_tasks(S) ==
  /\ ready_queue' = ready_queue \cup ReadyTasks(S, enqueue_sequence)
  /\ enqueue_sequence' = enqueue_sequence + Cardinality(S)

\* A mistake to detect: released with one dependency missing.
ReleasedEarly(t) == {d \in Dependents(t) : remaining_dependencies[d] <= 2}

\* The dependents of t whose count the completion of t brings to zero.
Released(t) == {d \in Dependents(t) : remaining_dependencies[d] = 1}

\* A mistake to detect: retry_count taken for the number of attempts.
RetryBelowBudget(w) == active[w].attempt < RetryCount[active[w].task_id]

\* The retry budget still covers another attempt of the job of w.
MayRetry(w) == active[w].attempt <= RetryCount[active[w].task_id]

\* Mistakes to detect: cancelling regardless of the state, cancelling only the
\* direct dependents.
CancelledInAnyState(t) == Downstream(t)
CancelledDirectly(t) == Dependents(t) \cap InState("Pending")

\* The pending tasks cancel_dependents(t) visits: its recursion stops at a
\* task in any other state.
CancelledBy(t) == ReachedFrom({t}, InState("Pending"))

-----------------------------------------------------------------------------
\* initialize_scheduler_state, then the construction of the pool.
Init ==
  /\ fails \in FailureTables
  /\ state = [t \in Tasks |-> "Pending"]
  /\ has_started = [t \in Tasks |-> FALSE]
  /\ has_finished = [t \in Tasks |-> FALSE]
  /\ remaining_dependencies = [t \in Tasks |-> Indegree(t)]
  /\ attempts_by_task = [t \in Tasks |-> 0]
  /\ ready_queue = ReadyTasks({t \in Tasks : Indegree(t) = 0}, 0)
  /\ enqueue_sequence = Cardinality({t \in Tasks : Indegree(t) = 0})
  /\ running_tasks = 0
  /\ completed_tasks = 0
  /\ failed_tasks = 0
  /\ cancelled_tasks = 0
  /\ main_pc = "lock"
  /\ to_launch = <<>>
  /\ exec = [w \in Workers |-> "idle"]
  /\ success = [w \in Workers |-> FALSE]
  /\ terminated = FALSE
  /\ Pool!PoolInit

-----------------------------------------------------------------------------
\* The main thread.

MainGoto(from, to) ==
  /\ ~terminated
  /\ main_pc = from
  /\ main_pc' = to
  /\ UNCHANGED <<fails, sharedVars, to_launch, exec, success, terminated>>

LockMutex ==
  /\ MainGoto("lock", "dispatch")
  /\ UNCHANGED poolVars

\* One turn of the loop of dispatch_ready_tasks.  An entry whose task is no
\* longer pending is dropped.
DispatchNext(r) ==
  /\ ~terminated
  /\ main_pc = "dispatch"
  /\ has_worker_capacity
  /\ IsTop(r)
  /\ ready_queue' = ready_queue \ {r}
  /\ IF state[r.task_id] = "Pending"
     THEN LET t == r.task_id
              attempt_number == attempts_by_task[t] + 1
          IN /\ attempts_by_task' =
                  [attempts_by_task EXCEPT ![t] = attempt_number]
             /\ state' = [state EXCEPT ![t] = "Running"]
             /\ running_tasks' = running_tasks + 1
             /\ to_launch' =
                  Append(to_launch, [task_id |-> t, attempt |-> attempt_number])
     ELSE UNCHANGED <<attempts_by_task, state, running_tasks, to_launch>>
  /\ UNCHANGED <<fails, has_started, has_finished, remaining_dependencies,
                 enqueue_sequence, completed_tasks, failed_tasks,
                 cancelled_tasks, main_pc, exec, success, terminated>>
  /\ UNCHANGED poolVars

DispatchEnd ==
  /\ ready_queue = {} \/ ~has_worker_capacity
  /\ MainGoto("dispatch", "submit")
  /\ UNCHANGED poolVars

\* pool.submit, with mutex_ still held.
SubmitNext ==
  /\ ~terminated
  /\ main_pc = "submit"
  /\ to_launch # <<>>
  /\ Pool!Submit(Head(to_launch))
  /\ to_launch' = Tail(to_launch)
  /\ UNCHANGED <<fails, sharedVars, main_pc, exec, success, terminated>>

SubmitEnd ==
  /\ to_launch = <<>>
  /\ MainGoto("submit", "while")
  /\ UNCHANGED poolVars

EnterLoop ==
  /\ ~all_tasks_terminal
  /\ MainGoto("while", "wait")
  /\ UNCHANGED poolVars

LeaveLoop ==
  /\ all_tasks_terminal
  /\ MainGoto("while", "shutdown")
  /\ UNCHANGED poolVars

\* The predicate of state_changed_.wait.
WaitPredicate == all_tasks_terminal \/ (ready_queue # {} /\ has_worker_capacity)

WaitTest ==
  /\ MainGoto("wait", IF WaitPredicate THEN "dispatch" ELSE "block")
  /\ UNCHANGED poolVars

\* The condition variable releases mutex_ and enqueues the thread as one step.
Block ==
  /\ MainGoto("block", "blocked")
  /\ UNCHANGED poolVars

SpuriousWakeup ==
  /\ MainGoto("blocked", "woken")
  /\ UNCHANGED poolVars

Relock ==
  /\ MainGoto("woken", "wait")
  /\ UNCHANGED poolVars

Shutdown ==
  /\ MainGoto("shutdown", "join")
  /\ Pool!Stop

\* A mistake to detect: a failure is noticed only if it cancelled something.
ExitCodeOfCancellations == IF cancelled_tasks = 0 THEN 0 ELSE 1

\* What run() returns.
ExitCode == IF failed_tasks = 0 THEN 0 ELSE 1

\* The joins return; the summary is printed and run() returns.
Join ==
  /\ Pool!Joined
  /\ MainGoto("join", "done")
  /\ UNCHANGED poolVars

-----------------------------------------------------------------------------
\* The workers.

ExecGoto(w, from, to) ==
  /\ ~terminated
  /\ exec[w] = from
  /\ exec' = [exec EXCEPT ![w] = to]

TakeJob(w) ==
  /\ Pool!Take(w)
  /\ ExecGoto(w, "idle", "start")
  /\ UNCHANGED <<fails, sharedVars, mainVars, success, terminated>>

\* The first critical section of execute_task.
StartTask(w) ==
  /\ ~MainHoldsMutex
  /\ ExecGoto(w, "start", "sleep")
  /\ has_started' = [has_started EXCEPT ![active[w].task_id] = TRUE]
  /\ UNCHANGED <<fails, state, has_finished, remaining_dependencies,
                 attempts_by_task, queueVars, counters, mainVars, success,
                 terminated, poolVars>>

\* sleep_for ends; the second critical section decides the attempt.
DecideTask(w) ==
  /\ ~MainHoldsMutex
  /\ ExecGoto(w, "sleep", "finish")
  /\ success' = [success EXCEPT
                   ![w] = ~should_fail(active[w].task_id, active[w].attempt)]
  /\ UNCHANGED <<fails, sharedVars, mainVars, terminated, poolVars>>

\* What the three outcomes of the last critical section share.
FinishTask(w) ==
  /\ ~MainHoldsMutex
  /\ ExecGoto(w, "finish", "notify")
  /\ running_tasks' = running_tasks - 1
  /\ UNCHANGED <<fails, has_started, attempts_by_task, mainVars, success,
                 poolVars>>

\* mark_task_completed.  A dependency count that is already zero makes it
\* throw; nothing in a worker catches, so the process terminates.
CompleteTask(w) ==
  LET t == active[w].task_id
  IN /\ FinishTask(w)
     /\ success[w]
     /\ state' = [state EXCEPT ![t] = "Completed"]
     /\ has_finished' = [has_finished EXCEPT ![t] = TRUE]
     /\ completed_tasks' = completed_tasks + 1
     /\ remaining_dependencies' =
          [d \in Tasks |-> IF d \in Dependents(t)
                           THEN remaining_dependencies[d] - 1
                           ELSE remaining_dependencies[d]]
     /\ enqueue_ready_tasks(Released(t))
     /\ terminated' = (\E d \in Dependents(t) : remaining_dependencies[d] = 0)
     /\ UNCHANGED <<failed_tasks, cancelled_tasks>>

RetryTask(w) ==
  LET t == active[w].task_id
  IN /\ FinishTask(w)
     /\ ~success[w]
     /\ MayRetry(w)
     /\ state' = [state EXCEPT ![t] = "Pending"]
     /\ has_finished' = [has_finished EXCEPT ![t] = FALSE]
     /\ enqueue_ready_tasks({t})
     /\ UNCHANGED <<remaining_dependencies, completed_tasks, failed_tasks,
                    cancelled_tasks, terminated>>

FailTask(w) ==
  LET t == active[w].task_id
      cancelled == CancelledBy(t)
  IN /\ FinishTask(w)
     /\ ~success[w]
     /\ ~MayRetry(w)
     /\ state' = [d \in Tasks |-> IF d = t THEN "Failed"
                                  ELSE IF d \in cancelled THEN "Cancelled"
                                  ELSE state[d]]
     /\ has_finished' = [d \in Tasks |-> d \in cancelled \cup {t}
                                         \/ has_finished[d]]
     /\ failed_tasks' = failed_tasks + 1
     /\ cancelled_tasks' = cancelled_tasks + Cardinality(cancelled)
     /\ UNCHANGED <<remaining_dependencies, queueVars, completed_tasks,
                    terminated>>

\* A mistake to detect: nobody is notified.
NotNotified(pc) == pc

\* Where notify_all leaves the main thread.
Notified(pc) == IF pc = "blocked" THEN "woken" ELSE pc

\* state_changed_.notify_all, after the mutex is released; then the job
\* returns to worker_loop.
NotifyMain(w) ==
  /\ ExecGoto(w, "notify", "idle")
  /\ main_pc' = Notified(main_pc)
  /\ Pool!Return(w)
  /\ UNCHANGED <<fails, sharedVars, to_launch, success, terminated>>

ExitWorker(w) ==
  /\ ~terminated
  /\ Pool!Exit(w)
  /\ UNCHANGED <<fails, sharedVars, mainVars, exec, success, terminated>>

-----------------------------------------------------------------------------
MainStep ==
  \/ LockMutex
  \/ \E r \in ready_queue : DispatchNext(r)
  \/ DispatchEnd
  \/ SubmitNext
  \/ SubmitEnd
  \/ EnterLoop
  \/ LeaveLoop
  \/ WaitTest
  \/ Block
  \/ Relock
  \/ Shutdown
  \/ Join

WorkerStep(w) ==
  \/ TakeJob(w)
  \/ StartTask(w)
  \/ DecideTask(w)
  \/ CompleteTask(w)
  \/ RetryTask(w)
  \/ FailTask(w)
  \/ NotifyMain(w)
  \/ ExitWorker(w)

\* run() has returned.
Finished ==
  /\ main_pc = "done"
  /\ UNCHANGED vars

Next ==
  \/ MainStep
  \/ SpuriousWakeup
  \/ \E w \in Workers : WorkerStep(w)
  \/ Finished

Spec == Init /\ [][Next]_vars

\* Every thread that can run keeps running, and the standard library wakes a
\* sleeping thread for no reason only finitely often.
FairSpec ==
  /\ Spec
  /\ WF_vars(MainStep)
  /\ \A w \in Workers : WF_vars(WorkerStep(w))
  /\ <>[][~SpuriousWakeup]_vars
=============================================================================
