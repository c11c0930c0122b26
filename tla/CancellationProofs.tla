------------------------- MODULE CancellationProofs -------------------------
(***************************************************************************)
(* Proofs about module Cancellation, for every number of tasks.            *)
(***************************************************************************)
EXTENDS Cancellation, FiniteSetTheorems, TLAPS

States == {"Pending", "Running", "Completed", "Failed", "Cancelled"}

Calls == [task : Tasks, left : SUBSET Tasks]

Types ==
  /\ deps \in [Tasks -> SUBSET Tasks]
  /\ failed \in Tasks
  /\ pending \in SUBSET Tasks
  /\ state \in [Tasks -> States]
  /\ cancelled_tasks \in Nat
  /\ stack \in Seq(Calls)

\* The failed task stays failed, and a task that was pending when it failed is
\* pending or cancelled, as is no other one pending.
Settled ==
  /\ state[failed] = "Failed"
  /\ failed \notin pending
  /\ \A t \in Tasks : state[t] = "Pending" => t \in pending
  /\ \A t \in pending : state[t] \in {"Pending", "Cancelled"}

\* Every call is for a task that failed or that this recursion cancelled, and
\* visits dependents of that task only.
CallsJustified ==
  \A i \in DOMAIN stack :
    /\ stack[i].task \in Cancelled \cup {failed}
    /\ \A d \in stack[i].left : stack[i].task \in deps[d]

\* What has been cancelled so far is reached from the failed task, and each
\* task is counted once.
CancelledSoFar ==
  /\ Cancelled \subseteq Graph!ReachedFrom({failed}, pending)
  /\ cancelled_tasks = Cardinality(Cancelled)

\* The inductive invariant.
RecursionInvariant ==
  /\ Types
  /\ Settled
  /\ CallsJustified
  /\ CancelledSoFar
  /\ NothingOverlooked
  /\ StackIsAPath

LEMMA DependentsOf ==
  ASSUME NEW t \in Tasks
  PROVE  Graph!Dependents(t) = {d \in Tasks : t \in deps[d]}
  BY DEF Graph!Dependents, Graph!Tasks, Tasks

LEMMA CallTyped ==
  ASSUME NEW t \in Tasks
  PROVE  Call(t) \in Calls
  BY DependentsOf DEF Call, Calls

-----------------------------------------------------------------------------
(***************************************************************************)
(* The stack of calls.                                                     *)
(***************************************************************************)

LEMMA CallersStack ==
  ASSUME stack \in Seq(Calls), stack # <<>>
  PROVE  /\ Len(stack) \in Nat \ {0}
         /\ Top = stack[Len(stack)]
         /\ Top \in Calls
         /\ Callers \in Seq(Calls)
         /\ Len(Callers) = Len(stack) - 1
         /\ \A i \in 1 .. Len(stack) - 1 : Callers[i] = stack[i]
<1>1. Len(stack) \in Nat \ {0}
  OBVIOUS
<1>2. Top = stack[Len(stack)] /\ Top \in Calls
  BY <1>1 DEF Top
<1>3. Callers = [i \in 1 .. Len(stack) - 1 |-> stack[i]]
  BY <1>1 DEF Callers
<1>4. /\ Callers \in Seq(Calls)
      /\ Len(Callers) = Len(stack) - 1
  BY <1>1, <1>3
<1>5. QED
  BY <1>1, <1>2, <1>3, <1>4

\* The stack is the same but for the dependent the innermost call is done with.
LEMMA AdvancedStack ==
  ASSUME stack \in Seq(Calls), stack # <<>>, NEW d \in Tasks
  PROVE  /\ Advanced(d) \in Seq(Calls)
         /\ Len(Advanced(d)) = Len(stack)
         /\ \A i \in 1 .. Len(stack) :
              /\ Advanced(d)[i].task = stack[i].task
              /\ Advanced(d)[i].left = IF i = Len(stack)
                                       THEN stack[i].left \ {d}
                                       ELSE stack[i].left
<1> DEFINE call == [Top EXCEPT !.left = @ \ {d}]
<1>1. call \in Calls /\ call.task = Top.task /\ call.left = Top.left \ {d}
  BY CallersStack DEF Calls
<1>2. Advanced(d) = Append(Callers, call)
  BY DEF Advanced
<1> HIDE DEF call
<1>3. /\ Advanced(d) \in Seq(Calls)
      /\ Len(Advanced(d)) = Len(stack)
      /\ Advanced(d)[Len(stack)] = call
      /\ \A i \in 1 .. Len(stack) - 1 : Advanced(d)[i] = Callers[i]
  BY <1>1, <1>2, CallersStack
<1>4. ASSUME NEW i \in 1 .. Len(stack)
      PROVE  /\ Advanced(d)[i].task = stack[i].task
             /\ Advanced(d)[i].left = IF i = Len(stack)
                                      THEN stack[i].left \ {d}
                                      ELSE stack[i].left
  <2>1. /\ Len(stack) \in Nat \ {0}
        /\ Top = stack[Len(stack)]
        /\ \A k \in 1 .. Len(stack) - 1 : Callers[k] = stack[k]
    BY CallersStack
  <2>2. CASE i = Len(stack)
    BY <1>1, <1>3, <2>1, <2>2
  <2>3. CASE i # Len(stack)
    <3>1. i \in 1 .. Len(stack) - 1
      BY <2>1, <2>3
    <3>2. QED
      BY <1>3, <2>1, <2>3, <3>1
  <2>4. QED
    BY <2>2, <2>3
<1>5. QED
  BY <1>3, <1>4

\* One call more, for d.
LEMMA NestedStack ==
  ASSUME stack \in Seq(Calls), stack # <<>>, NEW d \in Tasks
  PROVE  /\ Nested(d) \in Seq(Calls)
         /\ Len(Nested(d)) = Len(stack) + 1
         /\ Nested(d)[Len(stack) + 1].task = d
         /\ Nested(d)[Len(stack) + 1].left = {e \in Tasks : d \in deps[e]}
         /\ \A i \in 1 .. Len(stack) :
              /\ Nested(d)[i].task = stack[i].task
              /\ Nested(d)[i].left = IF i = Len(stack)
                                     THEN stack[i].left \ {d}
                                     ELSE stack[i].left
<1>1. /\ Call(d) \in Calls
      /\ Call(d).task = d
      /\ Call(d).left = {e \in Tasks : d \in deps[e]}
  BY CallTyped, DependentsOf DEF Call
<1>2. /\ Nested(d) \in Seq(Calls)
      /\ Len(Nested(d)) = Len(stack) + 1
      /\ Nested(d)[Len(stack) + 1] = Call(d)
      /\ \A i \in 1 .. Len(stack) : Nested(d)[i] = Advanced(d)[i]
  BY <1>1, AdvancedStack, CallersStack DEF Nested
<1>3. ASSUME NEW i \in 1 .. Len(stack)
      PROVE  /\ Nested(d)[i].task = stack[i].task
             /\ Nested(d)[i].left = IF i = Len(stack)
                                    THEN stack[i].left \ {d}
                                    ELSE stack[i].left
  <2>1. Nested(d)[i] = Advanced(d)[i]
    BY <1>2
  <2>2. /\ Advanced(d)[i].task = stack[i].task
        /\ Advanced(d)[i].left = IF i = Len(stack)
                                 THEN stack[i].left \ {d}
                                 ELSE stack[i].left
    BY AdvancedStack
  <2>3. QED
    BY <2>1, <2>2
<1>4. QED
  BY <1>1, <1>2, <1>3

-----------------------------------------------------------------------------
(***************************************************************************)
(* The recursion.                                                          *)
(***************************************************************************)

\* A pending task that depends on a task reached already is reached.
LEMMA ReachesFurther ==
  ASSUME NEW S, NEW Within, NEW d \in Within, NEW t \in deps[d],
         t \in S \/ t \in Graph!ReachedFrom(S, Within)
  PROVE  d \in Graph!ReachedFrom(S, Within)
<1>1. ASSUME NEW D \in SUBSET Within, Graph!ClosedUnderDependents(D, S, Within)
      PROVE  d \in D
  <2>1. t \in S \cup D
    BY <1>1 DEF Graph!ReachedFrom
  <2>2. QED
    BY <1>1, <2>1 DEF Graph!ClosedUnderDependents
<1>2. QED
  BY <1>1 DEF Graph!ReachedFrom

LEMMA InitRecursionInvariant == Init => RecursionInvariant
<1> SUFFICES ASSUME Init PROVE RecursionInvariant
  OBVIOUS
<1>1. deps \in [Tasks -> SUBSET Tasks]
  BY DEF Init, ValidGraphs
<1>2. PICK s \in StatesWhileRunning(failed) : state = [s EXCEPT ![failed] = "Failed"]
  BY DEF Init
<1>3. /\ s \in [Tasks -> States]
      /\ failed \in Tasks
      /\ pending = {t \in Tasks : state[t] = "Pending"}
      /\ stack = <<Call(failed)>>
      /\ cancelled_tasks = 0
  BY <1>2 DEF Init, StatesWhileRunning, States
<1>4. Types
  BY <1>1, <1>2, <1>3, CallTyped DEF Types, States
<1>5. Settled
  BY <1>2, <1>3 DEF Settled
<1>6. Cancelled = {}
  BY <1>3 DEF Cancelled
<1>7. /\ Len(stack) = 1
      /\ stack[1].task = failed
      /\ stack[1].left = {d \in Tasks : failed \in deps[d]}
  BY <1>3, DependentsOf DEF Call
<1>8. CallsJustified
  BY <1>3, <1>6, <1>7 DEF CallsJustified
<1>9. CancelledSoFar
  BY <1>3, <1>6, FS_EmptySet DEF CancelledSoFar
<1>10. NothingOverlooked
  BY <1>3, <1>6, <1>7, DependentsOf DEF NothingOverlooked
<1>11. StackIsAPath
  BY <1>3, <1>7 DEF StackIsAPath
<1>12. QED
  BY <1>4, <1>5, <1>8, <1>9, <1>10, <1>11 DEF RecursionInvariant

LEMMA SkipKeeps ==
  ASSUME RecursionInvariant, NEW d \in Tasks, Skip(d)
  PROVE  RecursionInvariant'
<1> USE DEF RecursionInvariant, Types
<1>1. /\ UNCHANGED <<deps, failed, pending, state, cancelled_tasks>>
      /\ stack # <<>>
      /\ stack' = Advanced(d)
      /\ state[d] # "Pending"
      /\ Len(stack) \in Nat \ {0}
  BY CallersStack DEF Skip, MayCancel
<1>2. /\ stack' \in Seq(Calls)
      /\ DOMAIN stack = 1 .. Len(stack)
      /\ DOMAIN stack' = DOMAIN stack
      /\ \A i \in DOMAIN stack :
           /\ stack'[i].task = stack[i].task
           /\ stack'[i].left \subseteq stack[i].left
           /\ stack[i].left \ {d} \subseteq stack'[i].left
  <2>1. DOMAIN stack = 1 .. Len(stack)
    OBVIOUS
  <2>2. /\ stack' \in Seq(Calls)
        /\ Len(stack') = Len(stack)
        /\ \A i \in 1 .. Len(stack) :
             /\ stack'[i].task = stack[i].task
             /\ stack'[i].left = IF i = Len(stack) THEN stack[i].left \ {d}
                                                  ELSE stack[i].left
    BY <1>1, AdvancedStack
  <2>3. DOMAIN stack' = 1 .. Len(stack)
    BY <2>2
  <2>4. QED
    BY <2>1, <2>2, <2>3
<1>3. Cancelled' = Cancelled
  BY <1>1 DEF Cancelled
<1>4. Types' /\ Settled'
  BY <1>1, <1>2 DEF Settled
<1>5. CallsJustified'
  BY <1>1, <1>2, <1>3 DEF CallsJustified
<1>6. CancelledSoFar'
  BY <1>1, <1>3
  DEF CancelledSoFar, Graph!ReachedFrom, Graph!ClosedUnderDependents
<1>same. UNCHANGED <<deps, failed, state>>
  BY <1>1
<1>7. NothingOverlooked'
  <2> SUFFICES ASSUME NEW t \in Cancelled \cup {failed},
                      NEW e \in Tasks, t \in deps[e], state[e] = "Pending"
               PROVE  \E i \in DOMAIN stack' :
                        stack'[i].task = t /\ e \in stack'[i].left
    BY <1>same, <1>3 DEF NothingOverlooked, Graph!Dependents, Graph!Tasks, Tasks
  <2>1. PICK i \in DOMAIN stack : stack[i].task = t /\ e \in stack[i].left
    BY DEF NothingOverlooked, Graph!Dependents, Graph!Tasks, Tasks
  <2>2. QED
    BY <1>1, <1>2, <2>1
<1>8. StackIsAPath'
  BY <1>1, <1>2 DEF StackIsAPath
<1>9. QED
  BY <1>4, <1>5, <1>6, <1>7, <1>8

LEMMA CancelKeeps ==
  ASSUME RecursionInvariant, NEW d \in Tasks, Cancel(d)
  PROVE  RecursionInvariant'
<1> USE DEF RecursionInvariant, Types
<1>1. /\ UNCHANGED <<deps, failed, pending>>
      /\ stack # <<>>
      /\ stack' = Nested(d)
      /\ state[d] = "Pending"
      /\ state' = [state EXCEPT ![d] = "Cancelled"]
      /\ cancelled_tasks' = cancelled_tasks + 1
      /\ Len(stack) \in Nat \ {0}
  BY CallersStack DEF Cancel, MayCancel
<1> DEFINE n == Len(stack)
<1>n. n \in Nat \ {0}
  BY <1>1
<1>2. /\ stack' \in Seq(Calls)
      /\ DOMAIN stack = 1 .. n
      /\ DOMAIN stack' = 1 .. n + 1
      /\ stack'[n + 1].task = d
      /\ stack'[n + 1].left = {e \in Tasks : d \in deps[e]}
      /\ \A i \in 1 .. n :
           /\ stack'[i].task = stack[i].task
           /\ stack'[i].left \subseteq stack[i].left
           /\ stack[i].left \ {d} \subseteq stack'[i].left
  <2>1. DOMAIN stack = 1 .. n
    OBVIOUS
  <2>2. /\ stack' \in Seq(Calls)
        /\ Len(stack') = n + 1
        /\ stack'[n + 1].task = d
        /\ stack'[n + 1].left = {e \in Tasks : d \in deps[e]}
        /\ \A i \in 1 .. n :
             /\ stack'[i].task = stack[i].task
             /\ stack'[i].left = IF i = n THEN stack[i].left \ {d}
                                         ELSE stack[i].left
    <3>1. stack \in Seq(Calls)
      OBVIOUS
    <3>2. /\ Nested(d) \in Seq(Calls)
          /\ Len(Nested(d)) = Len(stack) + 1
          /\ Nested(d)[Len(stack) + 1].task = d
          /\ Nested(d)[Len(stack) + 1].left = {e \in Tasks : d \in deps[e]}
      BY <1>1, <3>1, NestedStack
    <3>3. \A i \in 1 .. Len(stack) :
            /\ Nested(d)[i].task = stack[i].task
            /\ Nested(d)[i].left = IF i = Len(stack) THEN stack[i].left \ {d}
                                                    ELSE stack[i].left
      BY <1>1, <3>1, NestedStack
    <3>4. QED
      BY <1>1, <3>2, <3>3
  <2>3. DOMAIN stack' = 1 .. n + 1
    BY <2>2
  <2>4. QED
    BY <2>1, <2>2, <2>3
<1> HIDE DEF n
<1>3. /\ d \in pending
      /\ d \notin Cancelled
      /\ d # failed
      /\ Cancelled' = Cancelled \cup {d}
  BY <1>1 DEF Cancelled, Settled
\* The innermost call is for a dependency of d.
<1>4. /\ stack[n].task \in deps[d]
      /\ stack[n].task \in Cancelled \cup {failed}
      /\ stack[n].task # d
  <2>1. d \in stack[n].left
    BY DEF Cancel, IsNext, Top, n
  <2>2. QED
    BY <2>1, <1>n, <1>2, <1>3 DEF CallsJustified
<1>5. Types' /\ Settled'
  BY <1>1, <1>2, <1>3 DEF Settled, States
<1>6. CallsJustified'
  <2> SUFFICES ASSUME NEW i \in 1 .. n + 1
               PROVE  /\ stack'[i].task \in Cancelled' \cup {failed}
                      /\ \A e \in stack'[i].left : stack'[i].task \in deps[e]
    BY <1>1, <1>2 DEF CallsJustified
  <2>1. CASE i = n + 1
    BY <1>2, <1>3, <2>1
  <2>2. CASE i \in 1 .. n
    BY <1>2, <1>3, <2>2 DEF CallsJustified
  <2>3. QED
    BY <1>n, <2>1, <2>2
<1>7. CancelledSoFar'
  <2>1. Graph!ReachedFrom({failed}, pending)' = Graph!ReachedFrom({failed}, pending)
    BY <1>1 DEF Graph!ReachedFrom, Graph!ClosedUnderDependents
  <2>2. d \in Graph!ReachedFrom({failed}, pending)
    BY <1>3, <1>4, ReachesFurther DEF CancelledSoFar
  <2>3. IsFiniteSet(Cancelled)
    <3>1. IsFiniteSet(Tasks)
      BY CancellationAssumption, FS_Interval DEF Tasks
    <3>2. Cancelled \subseteq Tasks
      BY DEF Cancelled
    <3>3. QED
      BY <3>1, <3>2, FS_Subset
  <2>4. Cardinality(Cancelled \cup {d}) = Cardinality(Cancelled) + 1
    BY <1>3, <2>3, FS_AddElement
  <2>5. QED
    BY <1>1, <1>3, <2>1, <2>2, <2>4 DEF CancelledSoFar
<1>8. NothingOverlooked'
  <2> SUFFICES ASSUME NEW t \in Cancelled \cup {failed, d},
                      NEW e \in Tasks, t \in deps[e], state'[e] = "Pending"
               PROVE  \E i \in DOMAIN stack' :
                        stack'[i].task = t /\ e \in stack'[i].left
    BY <1>1, <1>3 DEF NothingOverlooked, Graph!Dependents, Graph!Tasks, Tasks
  <2>1. e # d /\ state[e] = "Pending"
    BY <1>1
  <2>2. CASE t = d
    BY <1>n, <1>2, <2>2
  <2>3. CASE t # d
    <3>1. PICK i \in DOMAIN stack : stack[i].task = t /\ e \in stack[i].left
      BY <2>1, <2>3 DEF NothingOverlooked, Graph!Dependents, Graph!Tasks, Tasks
    <3>2. QED
      BY <1>n, <1>2, <2>1, <3>1
  <2>4. QED
    BY <2>2, <2>3
<1>9. StackIsAPath'
  <2> SUFFICES ASSUME NEW i \in 1 .. n + 1, NEW j \in 1 .. n + 1
               PROVE  /\ i = 1 => stack'[i].task = failed
                      /\ j = i + 1 => stack'[i].task \in deps[stack'[j].task]
                      /\ stack'[i].task = stack'[j].task => i = j
    BY <1>1, <1>2 DEF StackIsAPath
  <2>1. \A k \in 1 .. n : stack'[k].task # d
    BY <1>2, <1>3 DEF CallsJustified
  <2>2. CASE i \in 1 .. n /\ j \in 1 .. n
    BY <1>2, <2>2 DEF StackIsAPath
  <2>3. CASE i = n + 1 \/ j = n + 1
    <3>1. i = 1 => stack'[i].task = failed
      BY <1>n, <1>2, <2>3 DEF StackIsAPath
    <3>2. j = i + 1 => stack'[i].task \in deps[stack'[j].task]
      BY <1>n, <1>2, <1>4, <2>3
    <3>3. stack'[i].task = stack'[j].task => i = j
      BY <1>n, <1>2, <2>1, <2>3
    <3>4. QED
      BY <3>1, <3>2, <3>3
  <2>4. QED
    BY <1>n, <2>2, <2>3
<1>10. QED
  BY <1>5, <1>6, <1>7, <1>8, <1>9

LEMMA ReturnCallKeeps ==
  ASSUME RecursionInvariant, ReturnCall
  PROVE  RecursionInvariant'
<1> USE DEF RecursionInvariant, Types
<1>1. /\ UNCHANGED <<deps, failed, pending, state, cancelled_tasks>>
      /\ stack # <<>>
      /\ stack' = Callers
      /\ stack[Len(stack)].left = {}
      /\ Len(stack) \in Nat \ {0}
  BY CallersStack DEF ReturnCall
<1>2. /\ stack' \in Seq(Calls)
      /\ DOMAIN stack = 1 .. Len(stack)
      /\ DOMAIN stack' = 1 .. Len(stack) - 1
      /\ \A i \in 1 .. Len(stack) - 1 : stack'[i] = stack[i]
  BY <1>1, CallersStack
<1>3. Cancelled' = Cancelled
  BY <1>1 DEF Cancelled
<1>4. Types' /\ Settled'
  BY <1>1, <1>2 DEF Settled
<1>5. CallsJustified'
  BY <1>1, <1>2, <1>3 DEF CallsJustified
<1>6. CancelledSoFar'
  BY <1>1, <1>3
  DEF CancelledSoFar, Graph!ReachedFrom, Graph!ClosedUnderDependents
<1>7. NothingOverlooked'
  <2> SUFFICES ASSUME NEW t \in Cancelled \cup {failed},
                      NEW e \in Tasks, t \in deps[e], state[e] = "Pending"
               PROVE  \E i \in DOMAIN stack' :
                        stack'[i].task = t /\ e \in stack'[i].left
    BY <1>1, <1>3 DEF NothingOverlooked, Graph!Dependents, Graph!Tasks, Tasks
  <2>1. PICK i \in DOMAIN stack : stack[i].task = t /\ e \in stack[i].left
    BY DEF NothingOverlooked, Graph!Dependents, Graph!Tasks, Tasks
  <2>2. QED
    BY <1>1, <1>2, <2>1
<1>8. StackIsAPath'
  BY <1>1, <1>2 DEF StackIsAPath
<1>9. QED
  BY <1>4, <1>5, <1>6, <1>7, <1>8

\* The recursion keeps its invariant; it never depends on the graph being
\* acyclic, because a task on the stack is no longer pending.
THEOREM RecursionInvariantHolds == Spec => []RecursionInvariant
<1>1. RecursionInvariant /\ UNCHANGED vars => RecursionInvariant'
  BY DEF RecursionInvariant, vars, Types, Settled, CallsJustified,
     CancelledSoFar, NothingOverlooked, StackIsAPath, Cancelled,
     Graph!ReachedFrom, Graph!ClosedUnderDependents, Graph!Dependents,
     Graph!Tasks
<1>2. RecursionInvariant /\ [Next]_vars => RecursionInvariant'
  BY <1>1, SkipKeeps, CancelKeeps, ReturnCallKeeps DEF Next, Returned
<1>3. QED
  BY <1>2, InitRecursionInvariant, PTL DEF Spec

\* While cancel_dependents is under way, every pending task below a task that
\* failed or was cancelled is still to be visited.
THEOREM NothingOverlookedHolds == Spec => []NothingOverlooked
<1>1. RecursionInvariant => NothingOverlooked
  BY DEF RecursionInvariant
<1>2. QED
  BY <1>1, RecursionInvariantHolds, PTL

\* The nested calls of cancel_dependents follow a path of distinct tasks.
THEOREM StackIsAPathHolds == Spec => []StackIsAPath
<1>1. RecursionInvariant => StackIsAPath
  BY DEF RecursionInvariant
<1>2. QED
  BY <1>1, RecursionInvariantHolds, PTL

\* When the recursion of cancel_dependents ends, it has cancelled exactly the
\* pending tasks downstream of the failed one, each counted once: module
\* Scheduler may take its result for granted.
THEOREM CancelsExactlyReachedHolds == Spec => []CancelsExactlyReached
<1>1. RecursionInvariant => CancelsExactlyReached
  <2> SUFFICES ASSUME RecursionInvariant, stack = <<>>
               PROVE  Graph!ReachedFrom({failed}, pending) \subseteq Cancelled
    BY DEF CancelsExactlyReached, RecursionInvariant, CancelledSoFar
  <2>1. Cancelled \in SUBSET pending
    BY DEF Cancelled
  <2>2. Graph!ClosedUnderDependents(Cancelled, {failed}, pending)
    <3> SUFFICES ASSUME NEW d \in pending, NEW t \in deps[d],
                        t \in {failed} \cup Cancelled
                 PROVE  d \in Cancelled
      BY DEF Graph!ClosedUnderDependents
    <3>1. d \in Tasks
      BY DEF RecursionInvariant, Types
    <3>2. state[d] # "Pending"
      BY <3>1
      DEF RecursionInvariant, NothingOverlooked, Graph!Dependents, Graph!Tasks,
          Tasks
    <3>3. QED
      BY <3>2 DEF RecursionInvariant, Settled, Cancelled
  <2>3. QED
    BY <2>1, <2>2 DEF Graph!ReachedFrom
<1>2. QED
  BY <1>1, RecursionInvariantHolds, PTL
=============================================================================
