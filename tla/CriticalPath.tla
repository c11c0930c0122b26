---------------------------- MODULE CriticalPath ----------------------------
(***************************************************************************)
(* The life of a Graph (src/src/graph.cpp): it is built and validated      *)
(* (TopologicalOrder), and critical_path_length then computes the longest  *)
(* path to each task in topological order, and the longest of them.  The   *)
(* order is computed afresh by the same code on the same graph; any of the *)
(* orders that validation may find stands for it.                          *)
(***************************************************************************)
EXTENDS TopologicalOrder

CONSTANT Durations   \* the durations a task may have

ASSUME CriticalPathAssumption == Durations \subseteq Nat

VARIABLES duration,      \* duration_by_task_, once it is read
          longest_path,  \* the tasks dealt with -> the longest path to them
          result         \* what is returned; -1 before that

pathVars == <<duration, longest_path, result>>

\* The largest member of S and zero.
Longest(S) == CHOOSE n \in S \cup {0} : \A m \in S \cup {0} : m <= n

PathInit ==
  /\ Init
  /\ duration = <<>>
  /\ longest_path = <<>>
  /\ result = -1

\* The graph is valid: the loop over the topological order begins.  Durations
\* matter to nothing before this point.
Begin ==
  /\ pc = "valid"
  /\ pc' = "paths"
  /\ duration' \in [Tasks -> Durations]
  /\ UNCHANGED <<deps, ready, indegree, ordered, longest_path, result>>

Done == DOMAIN longest_path

\* A mistake to detect: the first dependency in place of the best.
FirstPredecessor(t) ==
  IF deps[t] = {} THEN 0
  ELSE longest_path[CHOOSE d \in deps[t] : \A e \in deps[t] : d <= e]

\* A dependency that is not in longest_path yet is passed over.
best_predecessor(t) == Longest({longest_path[d] : d \in deps[t] \cap Done})

\* One turn of the loop.
Relax(t) ==
  /\ pc = "paths"
  /\ Cardinality(Done) < TaskCount
  /\ t = ordered[Cardinality(Done) + 1]
  /\ longest_path' = [u \in Done \cup {t} |->
                        IF u = t THEN best_predecessor(t) + duration[t]
                        ELSE longest_path[u]]
  /\ UNCHANGED <<vars, duration, result>>

ReturnLongest ==
  /\ pc = "paths"
  /\ Done = Tasks
  /\ result = -1
  /\ result' = Longest({longest_path[t] : t \in Tasks})
  /\ UNCHANGED <<vars, duration, longest_path>>

\* The graph is rejected, or the length is known.
Finished ==
  /\ pc \in {"self", "cycle"} \/ result # -1
  /\ UNCHANGED <<vars, pathVars>>

Next ==
  \/ Sort /\ UNCHANGED pathVars
  \/ Begin
  \/ \E t \in Tasks : Relax(t)
  \/ ReturnLongest
  \/ Finished

Spec == PathInit /\ [][Next]_<<vars, pathVars>>

-----------------------------------------------------------------------------
\* The paths of the graph: each task is a dependency of the next.
Paths ==
  {p \in UNION {[1 .. n -> Tasks] : n \in 1 .. TaskCount} :
     \A i \in 2 .. Len(p) : p[i - 1] \in deps[p[i]]}

\* How long the tasks of a path take one after the other.
Length(p) ==
  LET total[i \in DOMAIN p] ==
        duration[p[i]] + IF i = 1 THEN 0 ELSE total[i - 1]
  IN total[Len(p)]

\* "Critical path length" in the summary is the length of the longest chain of
\* tasks that have to wait for each other.
ResultIsLongestPath ==
  result # -1 => result = Longest({Length(p) : p \in Paths})
=============================================================================
