---------------------------- MODULE Cancellation ----------------------------
(***************************************************************************)
(* Scheduler::cancel_dependents (src/src/scheduler.cpp) as the recursion   *)
(* it is: one call for the task that failed, and one nested call for each  *)
(* task it cancels.  It runs with mutex_ held, so nothing else moves.      *)
(* Module Scheduler takes its result for granted (CancelledBy).            *)
(*                                                                         *)
(* The graph is a variable that never changes, so that one run covers all  *)
(* graphs; the other tasks are in any states the scheduler can leave them  *)
(* in (DependenciesCompleteFirst, CancelledExactlyDownstream).             *)
(***************************************************************************)
EXTENDS Integers, Sequences, FiniteSets

CONSTANT TaskCount

ASSUME CancellationAssumption == TaskCount \in Nat

VARIABLES deps,      \* task -> its dependencies
          failed,    \* the task that has just failed
          pending,   \* the tasks that were pending when it did
          state,     \* Task::state
          cancelled_tasks,  \* how much cancelled_tasks_ has grown
          stack      \* the calls: the task, and the dependents still to visit

vars == <<deps, failed, pending, state, cancelled_tasks, stack>>

GraphOf(d) == INSTANCE TaskGraph WITH Dependencies <- d
Graph == INSTANCE TaskGraph WITH Dependencies <- deps

Tasks == 1 .. TaskCount

\* A call of cancel_dependents(t).
Call(t) == [task |-> t, left |-> Graph!Dependents(t)]

\* The graphs that have passed validate_acyclic.
ValidGraphs == {d \in [Tasks -> SUBSET Tasks] : GraphOf(d)!Acyclic}

\* The states in which a worker can find the tasks while it runs t itself.
StatesWhileRunning(t) ==
  {s \in [Tasks -> {"Pending", "Running", "Completed", "Failed", "Cancelled"}] :
     /\ s[t] = "Running"
     /\ \A u \in Tasks :
          /\ s[u] \in {"Running", "Completed", "Failed"} =>
               \A d \in deps[u] : s[d] = "Completed"
          /\ s[u] = "Cancelled" <=>
               \E d \in deps[u] : s[d] \in {"Failed", "Cancelled"}}

Init ==
  /\ deps \in ValidGraphs
  /\ failed \in Tasks
  /\ \E s \in StatesWhileRunning(failed) :
       state = [s EXCEPT ![failed] = "Failed"]
  /\ pending = {t \in Tasks : state[t] = "Pending"}
  /\ cancelled_tasks = 0
  /\ stack = <<Call(failed)>>

-----------------------------------------------------------------------------
Top == stack[Len(stack)]
Callers == SubSeq(stack, 1, Len(stack) - 1)

\* The dependents are visited in file order.
IsNext(d) == d \in Top.left /\ \A e \in Top.left : d <= e

\* The innermost call has dealt with d.
Advanced(d) == Append(Callers, [Top EXCEPT !.left = @ \ {d}])

\* A mistake to detect: a task that is cancelled already is cancelled again.
NotCompleted(d) == state[d] \in {"Pending", "Cancelled"}

\* Only a pending task is cancelled.
MayCancel(d) == state[d] = "Pending"

\* The loop passes over a task in another state.
Skip(d) ==
  /\ stack # <<>>
  /\ IsNext(d)
  /\ ~MayCancel(d)
  /\ stack' = Advanced(d)
  /\ UNCHANGED <<deps, failed, pending, state, cancelled_tasks>>

\* A mistake to detect: the task is cancelled, but not what depends on it.
NotNested(d) == Advanced(d)

\* A mistake to detect: the nested call is given the caller's task.
NestedForCaller(d) == Append(Advanced(d), Call(Top.task))

\* The nested call for d.
Nested(d) == Append(Advanced(d), Call(d))

Cancel(d) ==
  /\ stack # <<>>
  /\ IsNext(d)
  /\ MayCancel(d)
  /\ state' = [state EXCEPT ![d] = "Cancelled"]
  /\ cancelled_tasks' = cancelled_tasks + 1
  /\ stack' = Nested(d)
  /\ UNCHANGED <<deps, failed, pending>>

ReturnCall ==
  /\ stack # <<>>
  /\ Top.left = {}
  /\ stack' = Callers
  /\ UNCHANGED <<deps, failed, pending, state, cancelled_tasks>>

\* The outermost call has returned to execute_task.
Returned ==
  /\ stack = <<>>
  /\ UNCHANGED vars

Next ==
  \/ \E d \in Tasks : Skip(d) \/ Cancel(d)
  \/ ReturnCall
  \/ Returned

Spec == Init /\ [][Next]_vars

-----------------------------------------------------------------------------
Cancelled == {t \in pending : state[t] = "Cancelled"}

\* When the recursion ends it has cancelled exactly the tasks that module
\* Scheduler says it cancels, those reached from the failed task through
\* pending tasks, and however many paths lead to a task it is counted once.
CancelsExactlyReached ==
  stack = <<>> =>
    /\ Cancelled = Graph!ReachedFrom({failed}, pending)
    /\ cancelled_tasks = Cardinality(Cancelled)

\* While the recursion is under way nothing is out of its reach: a pending task
\* below a task that failed or was cancelled is still to be visited by the call
\* for that task.
NothingOverlooked ==
  \A t \in Cancelled \cup {failed} :
    \A d \in Graph!Dependents(t) : state[d] = "Pending" =>
      \E i \in DOMAIN stack : stack[i].task = t /\ d \in stack[i].left

\* The nested calls follow a dependency path of distinct tasks from the failed
\* one, so that the recursion ends and its depth is bounded by the length of
\* the longest chain.
StackIsAPath ==
  \A i, j \in DOMAIN stack :
    /\ i = 1 => stack[i].task = failed
    /\ j = i + 1 => stack[i].task \in deps[stack[j].task]
    /\ stack[i].task = stack[j].task => i = j
=============================================================================
