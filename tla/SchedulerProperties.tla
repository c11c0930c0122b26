------------------------ MODULE SchedulerProperties ------------------------
(***************************************************************************)
(* What is claimed of module Scheduler.                                    *)
(***************************************************************************)
EXTENDS Scheduler

Terminal == {"Completed", "Failed", "Cancelled"}

\* Worker w is between the dispatch and the last critical section of its job.
Executing == {w \in Workers : exec[w] \in {"start", "sleep", "finish"}}

\* The main thread has left the loop of run().
AfterLoop == main_pc \in {"shutdown", "join", "done"}

\* All dependencies of t have completed and t waits for a worker.
Runnable(t) ==
  /\ state[t] = "Pending"
  /\ \A d \in Dependencies[t] : state[d] = "Completed"

-----------------------------------------------------------------------------
\* The types, but for the two counters that are counted down.
Types ==
  /\ fails \in [Tasks -> SUBSET (Nat \ {0})]
  /\ state \in [Tasks -> TaskStates]
  /\ has_started \in [Tasks -> BOOLEAN]
  /\ has_finished \in [Tasks -> BOOLEAN]
  /\ remaining_dependencies \in [Tasks -> Int]
  /\ attempts_by_task \in [Tasks -> Nat]
  /\ ready_queue \subseteq [priority : Int, insertion_order : Nat,
                            task_id : Tasks]
  /\ enqueue_sequence \in Nat
  /\ running_tasks \in Int
  /\ completed_tasks \in Nat
  /\ failed_tasks \in Nat
  /\ cancelled_tasks \in Nat
  /\ main_pc \in {"lock", "dispatch", "submit", "while", "wait", "block",
                  "blocked", "woken", "shutdown", "join", "done"}
  /\ to_launch \in Seq(Jobs)
  /\ exec \in [Workers -> {"idle", "start", "sleep", "finish", "notify"}]
  /\ success \in [Workers -> BOOLEAN]
  /\ terminated \in BOOLEAN
  /\ jobs \in Seq(Jobs)
  /\ stopping \in BOOLEAN
  /\ worker \in [Workers -> {"idle", "busy", "exited"}]
  /\ active \in [Workers -> Jobs \cup {NoJob}]

\* The type invariant.  The unsigned counters of the code never wrap:
\* running_tasks stays between zero and the worker count, and no dependency
\* count goes below zero.
TypeOK ==
  /\ Types
  /\ running_tasks \in 0 .. Cardinality(Workers)
  /\ \A t \in Tasks : remaining_dependencies[t] \in Nat

\* The four counters that end the loop of run() count the tasks in each state:
\* no task is counted twice, whichever parent fails first or however many
\* failures reach it.
CountersMatchStates ==
  /\ running_tasks = Cardinality(InState("Running"))
  /\ completed_tasks = Cardinality(InState("Completed"))
  /\ failed_tasks = Cardinality(InState("Failed"))
  /\ cancelled_tasks = Cardinality(InState("Cancelled"))

\* "Dependency count underflow" is never thrown, so no worker brings the
\* process down through std::terminate.
NeverTerminates == ~terminated

\* The ready queue holds exactly one entry for every runnable task and nothing
\* else (no cancelled, running or forgotten task), and insertion orders are
\* distinct, so that the tie on task ids is never consulted.
ReadyQueueExact ==
  /\ {r.task_id : r \in ready_queue} = {t \in Tasks : Runnable(t)}
  /\ \A q, r \in ready_queue :
       q.task_id = r.task_id \/ q.insertion_order = r.insertion_order => q = r

\* No task is dispatched before everything it depends on has completed.
DependenciesCompleteFirst ==
  \A t \in Tasks : state[t] \in {"Running", "Completed", "Failed"} =>
    \A d \in Dependencies[t] : state[d] = "Completed"

\* Cancellation is complete and exact at every moment at which mutex_ is free:
\* a task is cancelled if and only if one of its dependencies failed or was
\* cancelled.
CancelledExactlyDownstream ==
  \A t \in Tasks : state[t] = "Cancelled" <=>
    \E d \in Dependencies[t] : state[d] \in {"Failed", "Cancelled"}

\* The main thread never sleeps through work: whenever its wait predicate
\* holds while it sleeps, some worker has yet to call notify_all.
NoLostWakeup ==
  main_pc = "blocked" /\ WaitPredicate => \E w \in Workers : exec[w] = "notify"

HoldersOf(t) ==
  LET Positions(s) == Cardinality({i \in DOMAIN s : s[i].task_id = t})
  IN Positions(to_launch) + Positions(jobs)
     + Cardinality({w \in Executing : active[w].task_id = t})

\* A running task is in exactly one place, about to be submitted, queued in the
\* pool or on one worker, and a task that is not running is in none; a worker
\* never executes an attempt other than the current one.
RunningHasOneHolder ==
  /\ \A t \in Tasks : HoldersOf(t) = IF state[t] = "Running" THEN 1 ELSE 0
  /\ \A w \in Executing :
       active[w].attempt = attempts_by_task[active[w].task_id]

\* o is what the tasks come to: a task is cancelled unless everything it
\* depends on completes, and otherwise fails if should_fail rejects every
\* attempt of its budget.
IsOutcome(o) ==
  \A t \in Tasks :
    o[t] = IF \E d \in Dependencies[t] : o[d] # "Completed" THEN "Cancelled"
           ELSE IF Attempts(t) \subseteq fails[t] THEN "Failed"
           ELSE "Completed"

\* The summary does not depend on the schedule: when the loop ends the states
\* are the one outcome the graph and the failure table allow.
OutcomeIsDeterministic ==
  AfterLoop => /\ IsOutcome(state)
               /\ \A o \in [Tasks -> Terminal] : IsOutcome(o) => o = state

\* A task that ran was attempted until the first success or the end of its
\* budget, never beyond, and a cancelled one was not attempted at all.
AttemptsWithinBudget ==
  \A t \in Tasks :
    /\ state[t] = "Completed" =>
         /\ attempts_by_task[t] \in Attempts(t) \ fails[t]
         /\ 1 .. attempts_by_task[t] - 1 \subseteq fails[t]
    /\ state[t] = "Failed" =>
         /\ attempts_by_task[t] = RetryCount[t] + 1
         /\ Attempts(t) \subseteq fails[t]

\* The summary prints a duration for exactly the tasks that were executed, and
\* "n/a" for the cancelled ones: a cancelled task never started, not even in
\* an attempt that was to be retried.
SummaryTimings ==
  \A t \in Tasks :
    /\ has_finished[t] <=> state[t] \in Terminal
    /\ state[t] \in {"Completed", "Failed"} => has_started[t]
    /\ state[t] = "Cancelled" => ~has_started[t] /\ attempts_by_task[t] = 0

\* run() returns 0 exactly when every task completed.
ExitCodeTellsSuccess ==
  main_pc = "done" =>
    (ExitCode = 0 <=> \A t \in Tasks : state[t] = "Completed")

\* What a run reports is what happened in it: the attempts and durations of the
\* summary, and the exit code, belong to the states the tasks came to.
ReportIsTrue == AttemptsWithinBudget /\ SummaryTimings /\ ExitCodeTellsSuccess

\* After the loop nothing is left to do and no worker touches a task again, so
\* that print_summary reads the tasks without the mutex; when run() returns
\* every worker has ended.
QuietAfterLoop ==
  AfterLoop =>
    /\ \A t \in Tasks : state[t] \in Terminal
    /\ ready_queue = {} /\ to_launch = <<>> /\ jobs = <<>>
    /\ Executing = {}
    /\ main_pc = "done" => \A w \in Workers : worker[w] = "exited"

-----------------------------------------------------------------------------
\* The scheduler, with its locks, queue, counters and pool, is a TaskRun.
Run == INSTANCE TaskRun WITH WorkerCount <- Cardinality(Workers),
                             attempts <- attempts_by_task

ImplementsTaskRun == Run!RunSpec

\* run() returns: no lost wake-up, no forgotten task, no worker left behind.
RunReturns == <>(main_pc = "done")

\* README: "higher values run first when dependencies are satisfied".  When a
\* task starts, no task of higher priority that was runnable or dispatched
\* earlier is still waiting to start.
Unstarted(t) ==
  \/ Runnable(t)
  \/ state[t] = "Running" /\ \A w \in Workers :
       active[w].task_id = t => exec[w] = "start"

HigherPriorityStartsFirst ==
  [][\A w \in Workers : exec[w] = "start" /\ exec'[w] = "sleep" =>
       \A t \in Tasks :
         Unstarted(t) => Priority[t] <= Priority[active[w].task_id]]_vars
=============================================================================
