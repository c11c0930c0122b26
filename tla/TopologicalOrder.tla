-------------------------- MODULE TopologicalOrder --------------------------
(***************************************************************************)
(* The construction of the graph and Graph::topological_order, as          *)
(* validate_acyclic uses it (src/src/graph.cpp): Kahn's algorithm, one     *)
(* step for each task taken from the queue.  Module CriticalPath goes on   *)
(* from there and has the specification.                                   *)
(*                                                                         *)
(* The graph is a variable that never changes, so that one run of TLC      *)
(* covers every graph.                                                     *)
(***************************************************************************)
EXTENDS Integers, Sequences, FiniteSets

CONSTANT TaskCount

ASSUME TopologicalOrderAssumption == TaskCount \in Nat

VARIABLES deps,      \* task -> its dependencies
          pc,        \* "build", "sort", "self", "cycle", "valid", and "paths"
                     \* once the length of the paths is asked for
          ready,     \* the queue of tasks with no dependency left
          indegree,  \* the copy of indegree_by_task_ that is counted down
          ordered    \* the result

vars == <<deps, pc, ready, indegree, ordered>>

Graph == INSTANCE TaskGraph WITH Dependencies <- deps

Tasks == 1 .. TaskCount

Elements(s) == {s[i] : i \in DOMAIN s}

\* The ways to list S: the iteration order of an unordered_map is not known.
Listings(S) == {s \in [1 .. Cardinality(S) -> S] : Elements(s) = S}

\* The listing of S in the order of the configuration file, in which the
\* constructor fills the adjacency lists.
InFileOrder(s) == \A i, j \in DOMAIN s : i < j => s[i] < s[j]

Init ==
  /\ deps \in [Tasks -> SUBSET Tasks]
  /\ pc = "build"
  /\ ready = <<>>
  /\ indegree = [t \in Tasks |-> 0]
  /\ ordered = <<>>

\* The constructor throws on a task that depends on itself.
RejectSelfDependency ==
  /\ pc = "build"
  /\ \E t \in Tasks : t \in deps[t]
  /\ pc' = "self"
  /\ UNCHANGED <<deps, ready, indegree, ordered>>

\* The constructor ends; topological_order collects the tasks that depend on
\* nothing.
Build ==
  /\ pc = "build"
  /\ \A t \in Tasks : t \notin deps[t]
  /\ pc' = "sort"
  /\ indegree' = [t \in Tasks |-> Graph!Indegree(t)]
  /\ ready' \in Listings({t \in Tasks : Graph!Indegree(t) = 0})
  /\ UNCHANGED <<deps, ordered>>

\* A mistake to detect: released with one dependency missing.
ReleasedEarly(t) == {d \in Graph!Dependents(t) : indegree[d] <= 2}

\* The dependents of t that have no other dependency left.
Released(t) == {d \in Graph!Dependents(t) : indegree[d] = 1}

\* Take the front task, count its dependents down, queue those at zero.
Visit ==
  /\ pc = "sort"
  /\ ready # <<>>
  /\ LET t == Head(ready)
     IN /\ ordered' = Append(ordered, t)
        /\ indegree' = [d \in Tasks |-> IF d \in Graph!Dependents(t)
                                        THEN indegree[d] - 1
                                        ELSE indegree[d]]
        /\ \E s \in Listings(Released(t)) :
             /\ InFileOrder(s)
             /\ ready' = Tail(ready) \o s
  /\ UNCHANGED <<deps, pc>>

\* A mistake to detect: a non-empty order is taken for a complete one.
AnyOrderAccepted == ordered # <<>> \/ TaskCount = 0

\* The verdict: validate_acyclic compares the sizes.
Complete == Len(ordered) = TaskCount

\* validate_acyclic throws on an incomplete order.
Compare ==
  /\ pc = "sort"
  /\ ready = <<>>
  /\ pc' = IF Complete THEN "valid" ELSE "cycle"
  /\ UNCHANGED <<deps, ready, indegree, ordered>>

\* One step of the constructor, of topological_order or of validate_acyclic.
Sort == RejectSelfDependency \/ Build \/ Visit \/ Compare

-----------------------------------------------------------------------------
\* A configuration is accepted exactly if its graph has no cycle: deep cycles
\* and self-dependencies are found, and no acyclic graph is refused.
ValidationIsExact ==
  /\ pc \in {"valid", "paths"} => Graph!Acyclic
  /\ pc \in {"self", "cycle"} => ~Graph!Acyclic

\* The order lists a task after everything it depends on, and at most once.
OrderIsTopological ==
  /\ \A i, j \in DOMAIN ordered : ordered[i] = ordered[j] => i = j
  /\ \A i \in DOMAIN ordered : \A d \in deps[ordered[i]] :
       \E j \in 1 .. i - 1 : ordered[j] = d
=============================================================================
