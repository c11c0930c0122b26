----------------------------- MODULE TaskGraph -----------------------------
(***************************************************************************)
(* The dependency graph the Graph constructor builds from the task list    *)
(* (src/src/graph.cpp).  A task is its position in the configuration file: *)
(* load_tasks_from_file rejects duplicate ids, so id and position          *)
(* determine each other, and it rejects duplicate dependencies, so the     *)
(* dependency list of a task is a set.                                     *)
(***************************************************************************)
EXTENDS Integers, FiniteSets

CONSTANTS TaskCount,      \* tasks_.size()
          Dependencies    \* task -> the tasks it depends on

Tasks == 1 .. TaskCount

\* adjacency_list_[t], as the set of tasks that list t as a dependency.  The
\* list itself is in file order, which is the order of the numbers.
Dependents(t) == {d \in Tasks : t \in Dependencies[d]}

\* indegree_by_task_[t]
Indegree(t) == Cardinality(Dependencies[t])

\* No non-empty set of tasks keeps all of its members waiting for each other.
Acyclic ==
  \A S \in SUBSET Tasks : S # {} => \E t \in S : Dependencies[t] \cap S = {}

\* D holds every dependent of a member of S that lies in Within, and is closed
\* under taking further dependents inside Within.
ClosedUnderDependents(D, S, Within) ==
  \A d \in Within : Dependencies[d] \cap (S \cup D) # {} => d \in D

\* The tasks reached from S along dependents that stay in Within: the least
\* closed set.
ReachedFrom(S, Within) ==
  {d \in Within : \A D \in SUBSET Within :
                     ClosedUnderDependents(D, S, Within) => d \in D}

\* Everything downstream of t.
Downstream(t) == ReachedFrom({t}, Tasks)
=============================================================================
