------------------------------ MODULE TaskRun ------------------------------
(***************************************************************************)
(* What a run of the scheduler is, without threads, locks, queues or       *)
(* counters: tasks are launched when everything they depend on has         *)
(* completed, highest priority first and never more than WorkerCount at a  *)
(* time; a failed attempt is retried while the budget lasts; a task that   *)
(* fails for good cancels everything downstream of it in the same instant. *)
(***************************************************************************)
EXTENDS TaskGraph

CONSTANTS WorkerCount, Priority, RetryCount

VARIABLES fails, state, attempts

runVars == <<fails, state, attempts>>

Runnable(t) ==
  /\ state[t] = "Pending"
  /\ \A d \in Dependencies[t] : state[d] = "Completed"

\* A mistake to detect: one task at a time.
OneAtATime == \A u \in Tasks : state[u] # "Running"

HasCapacity == Cardinality({u \in Tasks : state[u] = "Running"}) < WorkerCount

RunInit ==
  /\ fails \in [Tasks -> SUBSET (Nat \ {0})]
  /\ state = [t \in Tasks |-> "Pending"]
  /\ attempts = [t \in Tasks |-> 0]

Launch(t) ==
  /\ Runnable(t)
  /\ \A u \in Tasks : Runnable(u) => Priority[u] <= Priority[t]
  /\ HasCapacity
  /\ state' = [state EXCEPT ![t] = "Running"]
  /\ attempts' = [attempts EXCEPT ![t] = @ + 1]
  /\ UNCHANGED fails

Succeed(t) ==
  /\ state[t] = "Running"
  /\ attempts[t] \notin fails[t]
  /\ state' = [state EXCEPT ![t] = "Completed"]
  /\ UNCHANGED <<fails, attempts>>

Retry(t) ==
  /\ state[t] = "Running"
  /\ attempts[t] \in fails[t]
  /\ attempts[t] <= RetryCount[t]
  /\ state' = [state EXCEPT ![t] = "Pending"]
  /\ UNCHANGED <<fails, attempts>>

Fail(t) ==
  /\ state[t] = "Running"
  /\ attempts[t] \in fails[t]
  /\ attempts[t] > RetryCount[t]
  /\ LET cancelled == Downstream(t)
     IN state' = [u \in Tasks |-> IF u = t THEN "Failed"
                                  ELSE IF u \in cancelled THEN "Cancelled"
                                  ELSE state[u]]
  /\ UNCHANGED <<fails, attempts>>

RunNext ==
  \E t \in Tasks : Launch(t) \/ Succeed(t) \/ Retry(t) \/ Fail(t)

\* Every task has come to its end.
Over == \A t \in Tasks : state[t] \notin {"Pending", "Running"}

\* What may happen in a run.
RunSafety == RunInit /\ [][RunNext]_runVars

\* A run does not stop before it is over.
RunSpec == RunSafety /\ <>Over
=============================================================================
