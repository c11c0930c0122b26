------------------------------ MODULE TimedRun ------------------------------
(***************************************************************************)
(* TaskRun with a clock: execute_task sleeps for at least the duration of  *)
(* its task (src/src/scheduler.cpp), and print_summary compares the time   *)
(* the run took with the length of the critical path.                      *)
(*                                                                         *)
(* Any amount of time may pass anywhere.  A tick of the clock that is      *)
(* spent on nothing but sleep is told apart from a delay.                  *)
(***************************************************************************)
EXTENDS TaskRun, FiniteSetsExt

CONSTANTS Durations,   \* the durations a task may have
          MaxTime     \* bound: the clock stops there

\* The configuration has been loaded and validated.
ASSUME TimedRunAssumption ==
  /\ TaskCount \in Nat
  /\ Dependencies \in [Tasks -> SUBSET Tasks]
  /\ Acyclic
  /\ WorkerCount \in Nat \ {0}
  /\ Durations \subseteq Nat
  /\ MaxTime \in Nat

VARIABLES duration,  \* Task::duration
          due,       \* when the sleep of a running task is over
          now,       \* steady_clock, less run_started_at_
          delayed    \* how much of that was neither work nor waiting for it

vars == <<runVars, duration, due, now, delayed>>

\* The attempts a run may make.
Attempts == UNION {{t} \X (1 .. RetryCount[t] + 1) : t \in Tasks}

Init ==
  /\ duration \in [Tasks -> Durations]
  /\ \E F \in SUBSET Attempts :
       fails = [t \in Tasks |-> {a \in 1 .. RetryCount[t] + 1 : <<t, a>> \in F}]
  /\ state = [t \in Tasks |-> "Pending"]
  /\ attempts = [t \in Tasks |-> 0]
  /\ due = [t \in Tasks |-> 0]
  /\ now = 0
  /\ delayed = 0

-----------------------------------------------------------------------------
\* sleep_for(task.duration), from the earliest moment the worker may start.
SleepUntil(t) == now + duration[t]

LaunchTimed(t) ==
  /\ Launch(t)
  /\ due' = [due EXCEPT ![t] = SleepUntil(t)]
  /\ UNCHANGED <<duration, now, delayed>>

Finish(t) ==
  /\ now >= due[t]
  /\ Succeed(t) \/ Retry(t) \/ Fail(t)
  /\ UNCHANGED <<duration, due, now, delayed>>

\* Nothing but a sleep stands in the way of the next step.
Asleep ==
  /\ ~(\E t \in Tasks : Runnable(t) /\ HasCapacity)
  /\ \A t \in Tasks : state[t] = "Running" => now < due[t]

Tick ==
  /\ ~Over
  /\ now < MaxTime
  /\ now' = now + 1
  /\ delayed' = IF Asleep THEN delayed ELSE delayed + 1
  /\ UNCHANGED <<runVars, duration, due>>

\* The run is over, or the clock is at its bound.
Ended ==
  /\ Over \/ now = MaxTime
  /\ UNCHANGED vars

Next == (\E t \in Tasks : LaunchTimed(t) \/ Finish(t)) \/ Tick \/ Ended

Spec == Init /\ [][Next]_vars

-----------------------------------------------------------------------------
\* How long t takes, every attempt counted.
Work(t) == attempts[t] * duration[t]
TotalWork == Cardinality(UNION {{t} \X (1 .. Work(t)) : t \in Tasks})

\* The longest chain of tasks that wait for each other and end with t.
ChainTo[t \in Tasks] ==
  Work(t) + Max({0} \cup {ChainTo[d] : d \in Dependencies[t]})

LongestChain == Max({0} \cup {ChainTo[t] : t \in Tasks})

\* The longest chain of what has completed is a lower bound of the time that
\* has passed, whatever the number of workers; when everything has completed at
\* the first attempt this is "Total execution time" against "Critical path
\* length".
NoFasterThanCriticalPath ==
  \A t \in Tasks : state[t] = "Completed" => ChainTo[t] <= now

\* The bound of list scheduling: less the ticks that were delays, WorkerCount
\* workers share the work except for what the longest chain serialises.  Every
\* tick that goes by while a worker has no task it could have is a delay here,
\* so this says what the order of dispatch may cost and nothing of how late a
\* dispatch is: that free workers get tasks is System, FreeSlotsAreFilled.
\* Retries count on both sides, and a failure stops what is downstream of it.
ListSchedulingBound ==
  Over => WorkerCount * (now - delayed)
            <= TotalWork + (WorkerCount - 1) * LongestChain

\* "Total execution time" of the summary, from below and from above.
RunTimeIsBounded == NoFasterThanCriticalPath /\ ListSchedulingBound
=============================================================================
