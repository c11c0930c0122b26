---------------------------- MODULE GraphProofs ----------------------------
(***************************************************************************)
(* Proofs about modules TopologicalOrder and CriticalPath, for every       *)
(* number of tasks and every graph on them.                                *)
(***************************************************************************)
EXTENDS CriticalPath, FiniteSetTheorems, FunctionTheorems,
        WellFoundedInduction, TLAPS

Types ==
  /\ deps \in [Tasks -> SUBSET Tasks]
  /\ pc \in {"build", "sort", "self", "cycle", "valid", "paths"}
  /\ ready \in Seq(Tasks)
  /\ indegree \in [Tasks -> Int]
  /\ ordered \in Seq(Tasks)

Ordered == Elements(ordered)

\* What t still waits for.
Waits(t) == deps[t] \ Ordered

\* Neither the queue nor the result lists a task twice, nor does a task appear
\* in both.
ListedOnce ==
  /\ \A i, j \in DOMAIN ready : ready[i] = ready[j] => i = j
  /\ \A i, j \in DOMAIN ordered : ordered[i] = ordered[j] => i = j
  /\ \A i \in DOMAIN ready : ready[i] \notin Ordered

\* The counts are those of the dependencies not in the result yet, and the
\* queue holds the tasks whose count is zero and that are not in the result.
CountsExact ==
  /\ \A t \in Tasks : indegree[t] = Cardinality(Waits(t))
  /\ \A t \in Tasks : t \in Elements(ready) <=> Waits(t) = {} /\ t \notin Ordered

\* No set of tasks in the result is a cycle.
NoCycleOrdered ==
  \A S \in SUBSET Ordered : S # {} => \E t \in S : deps[t] \cap S = {}

\* The inductive invariant of Kahn's algorithm.
SortInvariant ==
  /\ Types
  /\ pc = "build" => ready = <<>> /\ ordered = <<>>
  /\ pc = "self" => ordered = <<>> /\ \E t \in Tasks : t \in deps[t]
  /\ pc \notin {"build", "self"} =>
       /\ \A t \in Tasks : t \notin deps[t]
       /\ ListedOnce
       /\ CountsExact
       /\ NoCycleOrdered
  /\ OrderIsTopological
  /\ pc \in {"cycle", "valid", "paths"} => ready = <<>>
  /\ pc \in {"valid", "paths"} => Len(ordered) = TaskCount
  /\ pc = "cycle" => Len(ordered) # TaskCount

-----------------------------------------------------------------------------
(***************************************************************************)
(* Lists of tasks.                                                         *)
(***************************************************************************)

LEMMA TasksFinite ==
  ASSUME NEW S \in SUBSET Tasks
  PROVE  IsFiniteSet(S) /\ Cardinality(S) \in Nat
<1>1. IsFiniteSet(Tasks)
  BY TopologicalOrderAssumption, FS_Interval DEF Tasks
<1>2. QED
  BY <1>1, FS_Subset, FS_CardinalityType

LEMMA DependentsOf ==
  ASSUME NEW t \in Tasks
  PROVE  Graph!Dependents(t) = {d \in Tasks : t \in deps[d]}
  BY DEF Graph!Dependents, Graph!Tasks, Tasks

\* A listing of S lists each member once.
LEMMA ListingsList ==
  ASSUME NEW S \in SUBSET Tasks, NEW s \in Listings(S)
  PROVE  /\ s \in Seq(Tasks)
         /\ Elements(s) = S
         /\ \A i, j \in DOMAIN s : s[i] = s[j] => i = j
<1> DEFINE n == Cardinality(S)
<1>1. IsFiniteSet(S) /\ n \in Nat
  BY TasksFinite
<1>2. s \in [1 .. n -> S] /\ Elements(s) = S
  BY DEF Listings
<1>3. IsFiniteSet(1 .. n) /\ Cardinality(1 .. n) = Cardinality(S)
  BY <1>1, FS_Interval
<1> HIDE DEF n
<1>4. s \in Surjection(1 .. n, S)
  <2>1. \A t \in S : \E i \in 1 .. n : s[i] = t
    BY <1>2 DEF Elements
  <2>2. QED
    BY <1>2, <2>1, Fun_IsSurj
<1>5. s \in Injection(1 .. n, S)
  BY <1>3, <1>4, FS_SurjSameCardinalityImpliesInj
<1>6. \A i, j \in 1 .. n : s[i] = s[j] => i = j
  BY <1>5, Fun_InjectionProperties
<1>7. s \in Seq(Tasks)
  BY <1>1, <1>2
<1>8. QED
  BY <1>2, <1>6, <1>7

LEMMA AppendElements ==
  ASSUME NEW s \in Seq(Tasks), NEW t \in Tasks
  PROVE  Elements(Append(s, t)) = Elements(s) \cup {t}
<1>1. /\ DOMAIN Append(s, t) = 1 .. Len(s) + 1
      /\ DOMAIN s = 1 .. Len(s)
      /\ Len(s) \in Nat
      /\ \A i \in 1 .. Len(s) : Append(s, t)[i] = s[i]
      /\ Append(s, t)[Len(s) + 1] = t
  OBVIOUS
<1>2. Elements(Append(s, t)) \subseteq Elements(s) \cup {t}
  <2> SUFFICES ASSUME NEW i \in 1 .. Len(s) + 1
               PROVE  Append(s, t)[i] \in Elements(s) \cup {t}
    BY <1>1 DEF Elements
  <2>1. CASE i = Len(s) + 1
    BY <1>1, <2>1
  <2>2. CASE i \in 1 .. Len(s)
    BY <1>1, <2>2 DEF Elements
  <2>3. QED
    BY <1>1, <2>1, <2>2
<1>3. Elements(s) \cup {t} \subseteq Elements(Append(s, t))
  <2>1. \A i \in 1 .. Len(s) : i \in 1 .. Len(s) + 1
    BY <1>1
  <2>2. Len(s) + 1 \in 1 .. Len(s) + 1
    BY <1>1
  <2>3. QED
    BY <1>1, <2>1, <2>2 DEF Elements
<1>4. QED
  BY <1>2, <1>3

\* The queue after its front task is taken and s is pushed.
LEMMA QueueElements ==
  ASSUME NEW q \in Seq(Tasks), q # <<>>, NEW s \in Seq(Tasks),
         \A i, j \in DOMAIN q : q[i] = q[j] => i = j,
         \A i, j \in DOMAIN s : s[i] = s[j] => i = j,
         Elements(q) \cap Elements(s) = {}
  PROVE  /\ Tail(q) \o s \in Seq(Tasks)
         /\ Elements(Tail(q) \o s) = (Elements(q) \ {Head(q)}) \cup Elements(s)
         /\ \A i, j \in DOMAIN (Tail(q) \o s) :
              (Tail(q) \o s)[i] = (Tail(q) \o s)[j] => i = j
<1> DEFINE r == Tail(q) \o s
           m == Len(q) - 1
           n == Len(s)
<1>1. /\ m \in Nat
      /\ n \in Nat
      /\ DOMAIN q = 1 .. m + 1
      /\ DOMAIN s = 1 .. n
      /\ r \in Seq(Tasks)
      /\ DOMAIN r = 1 .. m + n
      /\ \A i \in 1 .. m : r[i] = q[i + 1]
      /\ \A i \in m + 1 .. m + n : r[i] = s[i - m]
      /\ Head(q) = q[1]
  OBVIOUS
<1> HIDE DEF r, m, n
<1>2. \A i \in 1 .. m + n : i \in 1 .. m \/ i \in m + 1 .. m + n
  BY <1>1
<1>3. /\ \A i \in 1 .. m : i + 1 \in 1 .. m + 1 /\ i + 1 # 1
      /\ \A i \in m + 1 .. m + n : i - m \in 1 .. n
      /\ \A i \in 1 .. m + 1 : i = 1 \/ (i - 1 \in 1 .. m /\ (i - 1) + 1 = i)
      /\ \A i \in 1 .. n : i + m \in m + 1 .. m + n /\ (i + m) - m = i
      /\ 1 .. m \subseteq 1 .. m + n
      /\ m + 1 .. m + n \subseteq 1 .. m + n
      /\ 1 \in 1 .. m + 1
  BY <1>1
<1>4. ASSUME NEW i \in 1 .. m PROVE r[i] \in Elements(q) \ {Head(q)}
  <2>1. r[i] = q[i + 1] /\ i + 1 \in 1 .. m + 1 /\ i + 1 # 1
    BY <1>1, <1>3
  <2>2. q[i + 1] \in Elements(q)
    BY <1>1, <2>1 DEF Elements
  <2>3. q[i + 1] # q[1]
    BY <1>1, <1>3, <2>1
  <2>4. QED
    BY <1>1, <2>1, <2>2, <2>3
<1>5. ASSUME NEW i \in m + 1 .. m + n PROVE r[i] \in Elements(s)
  <2>1. r[i] = s[i - m] /\ i - m \in 1 .. n
    BY <1>1, <1>3
  <2>2. QED
    BY <1>1, <2>1 DEF Elements
<1>6. Elements(r) = (Elements(q) \ {Head(q)}) \cup Elements(s)
  <2>1. Elements(r) \subseteq (Elements(q) \ {Head(q)}) \cup Elements(s)
    <3> SUFFICES ASSUME NEW i \in 1 .. m + n
                 PROVE  r[i] \in (Elements(q) \ {Head(q)}) \cup Elements(s)
      BY <1>1 DEF Elements
    <3>1. QED
      BY <1>2, <1>4, <1>5
  <2>2. ASSUME NEW t \in Elements(q), t # Head(q) PROVE t \in Elements(r)
    <3>1. PICK i \in 1 .. m + 1 : q[i] = t
      BY <1>1 DEF Elements
    <3>2. i - 1 \in 1 .. m /\ (i - 1) + 1 = i
      BY <1>1, <1>3, <2>2, <3>1
    <3>3. r[i - 1] = t
      BY <1>1, <3>1, <3>2
    <3>4. QED
      BY <1>1, <1>3, <3>2, <3>3 DEF Elements
  <2>3. ASSUME NEW t \in Elements(s) PROVE t \in Elements(r)
    <3>1. PICK i \in 1 .. n : s[i] = t
      BY <1>1 DEF Elements
    <3>2. r[i + m] = t
      BY <1>1, <1>3, <3>1
    <3>3. QED
      BY <1>1, <1>3, <3>2 DEF Elements
  <2>4. QED
    BY <2>1, <2>2, <2>3
<1>7. ASSUME NEW i \in 1 .. m + n, NEW j \in 1 .. m + n, r[i] = r[j]
      PROVE  i = j
  <2>1. CASE i \in 1 .. m /\ j \in 1 .. m
    <3>1. q[i + 1] = q[j + 1]
      BY <1>1, <1>7, <2>1
    <3>2. i + 1 = j + 1
      BY <1>1, <1>3, <2>1, <3>1
    <3>3. QED
      BY <3>2
  <2>2. CASE i \in m + 1 .. m + n /\ j \in m + 1 .. m + n
    <3>1. s[i - m] = s[j - m]
      BY <1>1, <1>7, <2>2
    <3>2. i - m = j - m
      BY <1>1, <1>3, <2>2, <3>1
    <3>3. QED
      BY <1>1, <3>2
  <2>3. CASE \/ i \in 1 .. m /\ j \in m + 1 .. m + n
             \/ j \in 1 .. m /\ i \in m + 1 .. m + n
    BY <1>4, <1>5, <1>7, <2>3
  <2>4. QED
    BY <1>2, <2>1, <2>2, <2>3
<1>8. QED
  BY <1>1, <1>6, <1>7 DEF r

-----------------------------------------------------------------------------
(***************************************************************************)
(* Kahn's algorithm.                                                       *)
(***************************************************************************)

LEMMA WaitsFinite ==
  ASSUME Types, NEW t \in Tasks
  PROVE  /\ IsFiniteSet(Waits(t))
         /\ Cardinality(Waits(t)) \in Nat
         /\ Cardinality(Waits(t)) = 0 <=> Waits(t) = {}
<1>1. Waits(t) \in SUBSET Tasks
  BY DEF Types, Waits
<1>2. QED
  BY <1>1, TasksFinite, FS_EmptySet

LEMMA IndegreeCounts ==
  ASSUME NEW t \in Tasks
  PROVE  Graph!Indegree(t) = Cardinality(deps[t])
  BY DEF Graph!Indegree, Graph!Cardinality, Cardinality

\* What a task of the result depends on is in the result.
LEMMA DependenciesOrdered ==
  ASSUME ordered \in Seq(Tasks), OrderIsTopological, NEW t \in Ordered
  PROVE  deps[t] \subseteq Ordered
<1>1. PICK i \in DOMAIN ordered : ordered[i] = t
  BY DEF Ordered, Elements
<1>2. ASSUME NEW d \in deps[t] PROVE d \in Ordered
  <2>1. PICK j \in 1 .. i - 1 : ordered[j] = d
    BY <1>1 DEF OrderIsTopological
  <2>2. j \in DOMAIN ordered
    BY <1>1
  <2>3. QED
    BY <2>1, <2>2 DEF Ordered, Elements
<1>3. QED
  BY <1>2

LEMMA BuildKeeps ==
  ASSUME SortInvariant, Build
  PROVE  SortInvariant'
<1> USE DEF SortInvariant, Types
<1>1. /\ pc = "build" /\ pc' = "sort"
      /\ ready = <<>> /\ ordered = <<>>
      /\ UNCHANGED <<deps, ordered>>
      /\ \A t \in Tasks : t \notin deps[t]
  BY DEF Build
<1>2. indegree' = [t \in Tasks |-> Cardinality(deps[t])]
  BY IndegreeCounts DEF Build
<1>3. Ordered' = {}
  BY <1>1 DEF Ordered, Elements
<1>4. \A t \in Tasks : Waits(t)' = deps[t]
  BY <1>1, <1>3 DEF Waits
<1>5. ready' \in Listings({t \in Tasks : Cardinality(deps[t]) = 0})
  <2>1. {t \in Tasks : Graph!Indegree(t) = 0} =
          {t \in Tasks : Cardinality(deps[t]) = 0}
    BY IndegreeCounts
  <2>2. QED
    BY <2>1 DEF Build
<1>6. /\ ready' \in Seq(Tasks)
      /\ Elements(ready') = {t \in Tasks : Cardinality(deps[t]) = 0}
      /\ \A i, j \in DOMAIN ready' : ready'[i] = ready'[j] => i = j
  BY <1>5, ListingsList
<1>7. \A t \in Tasks : Cardinality(deps[t]) \in Nat
                       /\ (Cardinality(deps[t]) = 0 <=> deps[t] = {})
  BY TasksFinite, FS_EmptySet
<1>8. Types'
  BY <1>1, <1>2, <1>6, <1>7
<1>9. ListedOnce'
  BY <1>1, <1>3, <1>6 DEF ListedOnce
<1>10. CountsExact'
  BY <1>2, <1>3, <1>4, <1>6, <1>7 DEF CountsExact
<1>11. NoCycleOrdered'
  BY <1>3 DEF NoCycleOrdered
<1>12. OrderIsTopological'
  BY <1>1 DEF OrderIsTopological
<1>13. QED
  BY <1>1, <1>8, <1>9, <1>10, <1>11, <1>12

LEMMA VisitKeeps ==
  ASSUME SortInvariant, Visit
  PROVE  SortInvariant'
<1>1. /\ deps \in [Tasks -> SUBSET Tasks]
      /\ ready \in Seq(Tasks)
      /\ indegree \in [Tasks -> Int]
      /\ ordered \in Seq(Tasks)
      /\ pc = "sort" /\ pc' = "sort"
      /\ ready # <<>>
      /\ deps' = deps
      /\ \A u \in Tasks : u \notin deps[u]
  BY DEF SortInvariant, Types, Visit
<1>inv. ListedOnce /\ CountsExact /\ NoCycleOrdered /\ OrderIsTopological
  BY <1>1 DEF SortInvariant
<1>2. PICK t : t = Head(ready)
  OBVIOUS
<1>3. t \in Tasks /\ t \in Elements(ready) /\ ready[1] = t /\ 1 \in DOMAIN ready
  BY <1>1, <1>2 DEF Elements
<1>4. /\ ordered' = Append(ordered, t)
      /\ indegree' = [d \in Tasks |-> IF t \in deps[d] THEN indegree[d] - 1
                                                       ELSE indegree[d]]
  BY <1>2, <1>3, DependentsOf DEF Visit
<1>5. PICK s \in Listings(Released(t)) : ready' = Tail(ready) \o s
  BY <1>2 DEF Visit
\* What becomes of the result.
<1>6. t \notin Ordered /\ Waits(t) = {}
  BY <1>inv, <1>3 DEF CountsExact
<1>7. ordered' \in Seq(Tasks) /\ Ordered' = Ordered \cup {t}
  BY <1>1, <1>3, <1>4, AppendElements DEF Ordered
<1>8. deps[t] \subseteq Ordered
  BY <1>6 DEF Waits
\* What becomes of the counts.
<1>9. \A u \in Tasks : Waits(u)' = Waits(u) \ {t}
  BY <1>1, <1>7 DEF Waits
<1>10. \A u \in Tasks : t \in deps[u] <=> t \in Waits(u)
  BY <1>6 DEF Waits
<1>11. \A u \in Tasks : indegree'[u] = Cardinality(Waits(u)')
  <2> SUFFICES ASSUME NEW u \in Tasks
               PROVE  indegree'[u] = Cardinality(Waits(u) \ {t})
    BY <1>9
  <2>1. /\ IsFiniteSet(Waits(u)) /\ Cardinality(Waits(u)) \in Nat
        /\ indegree[u] = Cardinality(Waits(u))
    BY <1>inv, WaitsFinite DEF SortInvariant, CountsExact
  <2>2. Cardinality(Waits(u) \ {t}) =
          IF t \in Waits(u) THEN Cardinality(Waits(u)) - 1
                            ELSE Cardinality(Waits(u))
    BY <2>1, FS_RemoveElement
  <2>3. QED
    BY <1>4, <1>10, <2>1, <2>2
\* What is released.
<1>12. Released(t) = {u \in Tasks : Waits(u) = {t}}
  <2>1. Released(t) = {u \in Tasks : t \in deps[u] /\ indegree[u] = 1}
    BY <1>3, DependentsOf DEF Released
  <2>2. ASSUME NEW u \in Tasks
        PROVE  t \in deps[u] /\ indegree[u] = 1 <=> Waits(u) = {t}
    <3>1. IsFiniteSet(Waits(u)) /\ indegree[u] = Cardinality(Waits(u))
      BY <1>inv, WaitsFinite DEF SortInvariant, CountsExact
    <3>2. Cardinality(Waits(u)) = 1 <=> \E x : Waits(u) = {x}
      BY <3>1, FS_Singleton
    <3>3. QED
      BY <1>10, <3>1, <3>2
  <2>3. QED
    BY <2>1, <2>2
<1>13. /\ s \in Seq(Tasks)
       /\ Elements(s) = Released(t)
       /\ \A i, j \in DOMAIN s : s[i] = s[j] => i = j
  <2>1. Released(t) \in SUBSET Tasks
    BY <1>12
  <2>2. QED
    BY <2>1, <1>5, ListingsList
<1>14. Elements(ready) \cap Elements(s) = {}
  BY <1>inv, <1>12, <1>13 DEF CountsExact
<1>15. /\ ready' \in Seq(Tasks)
       /\ Elements(ready') = (Elements(ready) \ {t}) \cup Released(t)
       /\ \A i, j \in DOMAIN ready' : ready'[i] = ready'[j] => i = j
  <2>1. \A i, j \in DOMAIN ready : ready[i] = ready[j] => i = j
    BY <1>inv DEF ListedOnce
  <2>2. /\ Tail(ready) \o s \in Seq(Tasks)
        /\ Elements(Tail(ready) \o s) =
             (Elements(ready) \ {Head(ready)}) \cup Elements(s)
        /\ \A i, j \in DOMAIN (Tail(ready) \o s) :
             (Tail(ready) \o s)[i] = (Tail(ready) \o s)[j] => i = j
    BY <1>1, <1>13, <1>14, <2>1, QueueElements
  <2>3. QED
    BY <1>2, <1>5, <1>13, <2>2
<1>16. \A u \in Tasks :
         u \in Elements(ready') <=> Waits(u)' = {} /\ u \notin Ordered'
  <2> SUFFICES ASSUME NEW u \in Tasks
               PROVE  u \in (Elements(ready) \ {t}) \cup Released(t) <=>
                        Waits(u) \ {t} = {} /\ u \notin Ordered \cup {t}
    BY <1>7, <1>9, <1>15
  <2>1. u \in Elements(ready) <=> Waits(u) = {} /\ u \notin Ordered
    BY <1>inv DEF CountsExact
  <2>2. u \in Ordered => deps[u] \subseteq Ordered
    BY <1>1, <1>inv, DependenciesOrdered
  <2>3. Waits(u) = {t} => u \notin Ordered /\ u # t
    BY <1>1, <1>6, <2>2 DEF Waits
  <2>4. QED
    BY <1>12, <2>1, <2>3
<1>17. CountsExact'
  BY <1>11, <1>16 DEF CountsExact
\* The result stays a topological order without repetitions.
<1>18. /\ Len(ordered) \in Nat
       /\ DOMAIN ordered = 1 .. Len(ordered)
       /\ DOMAIN ordered' = 1 .. Len(ordered) + 1
       /\ ordered'[Len(ordered) + 1] = t
       /\ \A i \in 1 .. Len(ordered) : ordered'[i] = ordered[i]
       /\ \A i \in 1 .. Len(ordered) : ordered[i] # t
  <2>1. \A i \in DOMAIN ordered : ordered[i] # t
    BY <1>6 DEF Ordered, Elements
  <2>2. QED
    BY <1>1, <1>3, <1>4, <2>1
<1>19. \A i, j \in DOMAIN ordered' : ordered'[i] = ordered'[j] => i = j
  <2> SUFFICES ASSUME NEW i \in 1 .. Len(ordered) + 1,
                      NEW j \in 1 .. Len(ordered) + 1,
                      ordered'[i] = ordered'[j]
               PROVE  i = j
    BY <1>18
  <2>1. CASE i \in 1 .. Len(ordered) /\ j \in 1 .. Len(ordered)
    BY <1>inv, <1>18, <2>1 DEF ListedOnce
  <2>2. CASE i = Len(ordered) + 1 \/ j = Len(ordered) + 1
    BY <1>18, <2>2
  <2>3. QED
    BY <1>18, <2>1, <2>2
<1>20. ListedOnce'
  <2>1. ASSUME NEW i \in DOMAIN ready' PROVE ready'[i] \notin Ordered'
    <3>1. ready'[i] \in Elements(ready') /\ ready'[i] \in Tasks
      BY <1>15 DEF Elements
    <3>2. QED
      BY <1>16, <3>1
  <2>2. QED
    BY <1>15, <1>19, <2>1 DEF ListedOnce
<1>21. OrderIsTopological'
  <2>1. ASSUME NEW i \in 1 .. Len(ordered) + 1, NEW d \in deps[ordered'[i]]
        PROVE  \E j \in 1 .. i - 1 : ordered'[j] = d
    <3>1. CASE i = Len(ordered) + 1
      <4>1. d \in Ordered
        BY <1>8, <1>18, <2>1, <3>1
      <4>2. PICK j \in 1 .. Len(ordered) : ordered[j] = d
        BY <1>18, <4>1 DEF Ordered, Elements
      <4>3. QED
        BY <1>18, <3>1, <4>2
    <3>2. CASE i \in 1 .. Len(ordered)
      <4>1. PICK j \in 1 .. i - 1 : ordered[j] = d
        BY <1>inv, <1>18, <2>1, <3>2 DEF OrderIsTopological
      <4>2. j \in 1 .. Len(ordered)
        BY <1>18, <3>2, <4>1
      <4>3. QED
        BY <1>18, <4>1, <4>2
    <3>3. QED
      BY <1>18, <3>1, <3>2
  <2>2. QED
    BY <1>1, <1>18, <1>19, <2>1 DEF OrderIsTopological
\* The new task closes no cycle: nothing before it depends on it.
<1>22. NoCycleOrdered'
  <2> SUFFICES ASSUME NEW S \in SUBSET (Ordered \cup {t}), S # {}
               PROVE  \E u \in S : deps[u] \cap S = {}
    BY <1>1, <1>7 DEF NoCycleOrdered
  <2>1. CASE S \subseteq {t}
    BY <1>1, <1>3, <2>1
  <2>2. CASE S \ {t} # {}
    <3>1. PICK u \in S \ {t} : deps[u] \cap (S \ {t}) = {}
      BY <1>inv, <2>2 DEF NoCycleOrdered
    <3>2. u \in Ordered
      BY <3>1
    <3>3. deps[u] \subseteq Ordered
      BY <1>1, <1>inv, <3>2, DependenciesOrdered
    <3>4. QED
      BY <1>6, <3>1, <3>3
  <2>3. QED
    BY <2>1, <2>2
<1>23. Types'
  BY <1>1, <1>4, <1>7, <1>15 DEF Types
<1>24. QED
  BY <1>1, <1>17, <1>20, <1>21, <1>22, <1>23 DEF SortInvariant

LEMMA InitSortInvariant == PathInit => SortInvariant
<1> SUFFICES ASSUME PathInit PROVE SortInvariant
  OBVIOUS
<1>1. /\ deps \in [Tasks -> SUBSET Tasks] /\ pc = "build"
      /\ ready = <<>> /\ ordered = <<>>
      /\ indegree \in [Tasks -> Int]
  BY DEF PathInit, Init
<1>2. OrderIsTopological
  BY <1>1 DEF OrderIsTopological
<1>3. QED
  BY <1>1, <1>2 DEF SortInvariant, Types

\* What the invariant says of the sorting alone.
LEMMA NextSortInvariant ==
  SortInvariant /\ [Next]_<<vars, pathVars>> => SortInvariant'
<1> SUFFICES ASSUME SortInvariant, [Next]_<<vars, pathVars>>
             PROVE  SortInvariant'
  OBVIOUS
<1>same. ASSUME UNCHANGED <<deps, ready, indegree, ordered>>
         PROVE  /\ (ListedOnce <=> ListedOnce') /\ (CountsExact <=> CountsExact')
                /\ (NoCycleOrdered <=> NoCycleOrdered')
                /\ (OrderIsTopological <=> OrderIsTopological')
  BY <1>same DEF ListedOnce, CountsExact, NoCycleOrdered, OrderIsTopological,
     Ordered, Waits, Elements
<1>1. CASE RejectSelfDependency
  BY <1>1, <1>same DEF RejectSelfDependency, SortInvariant, Types
<1>2. CASE Build
  BY <1>2, BuildKeeps
<1>3. CASE Visit
  BY <1>3, VisitKeeps
<1>4. CASE Compare
  BY <1>4, <1>same DEF Compare, Complete, SortInvariant, Types
<1>5. CASE Begin
  BY <1>5, <1>same DEF Begin, SortInvariant, Types
<1>6. CASE UNCHANGED vars
  BY <1>6, <1>same DEF vars, SortInvariant, Types
<1>7. QED
  BY <1>1, <1>2, <1>3, <1>4, <1>5, <1>6
  DEF Next, Sort, Relax, ReturnLongest, Finished

\* Kahn's algorithm: the queue holds the tasks with no dependency left, and
\* what is listed has no cycle.
THEOREM SortInvariantHolds == Spec => []SortInvariant
  BY InitSortInvariant, NextSortInvariant, PTL DEF Spec

\* topological_order lists a task after everything it depends on, and at most
\* once, also while it is under way and when the graph has a cycle.
THEOREM OrderIsTopologicalHolds == Spec => []OrderIsTopological
<1>1. SortInvariant => OrderIsTopological
  BY DEF SortInvariant
<1>2. QED
  BY <1>1, SortInvariantHolds, PTL

\* A result without repetitions is as long as it has members.
LEMMA OrderedCount ==
  ASSUME ordered \in Seq(Tasks),
         \A i, j \in DOMAIN ordered : ordered[i] = ordered[j] => i = j
  PROVE  Len(ordered) = TaskCount <=> Ordered = Tasks
<1>1. /\ Ordered \in SUBSET Tasks
      /\ ordered \in [1 .. Len(ordered) -> Ordered]
      /\ Len(ordered) \in Nat
      /\ DOMAIN ordered = 1 .. Len(ordered)
  BY DEF Ordered, Elements
<1>2. ordered \in Injection(1 .. Len(ordered), Ordered)
  BY <1>1, Fun_IsInj
<1>3. ordered \in Surjection(1 .. Len(ordered), Ordered)
  <2>1. \A t \in Ordered : \E i \in 1 .. Len(ordered) : ordered[i] = t
    BY <1>1 DEF Ordered, Elements
  <2>2. QED
    BY <1>1, <2>1, Fun_IsSurj
<1>4. IsFiniteSet(1 .. Len(ordered)) /\ Cardinality(1 .. Len(ordered)) = Len(ordered)
  <2>1. PICK n \in Nat : n = Len(ordered)
    BY <1>1
  <2>2. IsFiniteSet(1 .. n) /\ Cardinality(1 .. n) = n
    BY FS_Interval
  <2>3. QED
    BY <2>1, <2>2
<1>5. Cardinality(Ordered) = Len(ordered)
  BY <1>2, <1>3, <1>4, FS_Surjection
<1>6. IsFiniteSet(Tasks) /\ Cardinality(Tasks) = TaskCount
  BY TopologicalOrderAssumption, FS_Interval DEF Tasks
<1>7. QED
  BY <1>1, <1>5, <1>6, FS_Subset

\* validate_acyclic accepts exactly the graphs without a cycle.
THEOREM ValidationIsExactHolds == Spec => []ValidationIsExact
<1>1. SortInvariant => ValidationIsExact
  <2> SUFFICES ASSUME SortInvariant PROVE ValidationIsExact
    OBVIOUS
  <2> USE DEF SortInvariant, Types
  <2>acyclic. Graph!Acyclic <=>
                \A S \in SUBSET Tasks :
                  S # {} => \E t \in S : deps[t] \cap S = {}
    BY DEF Graph!Acyclic, Graph!Tasks, Tasks
  <2>1. ASSUME pc \in {"valid", "paths"} PROVE Graph!Acyclic
    <3>1. Ordered = Tasks
      BY <2>1, OrderedCount DEF ListedOnce
    <3>2. QED
      BY <2>1, <2>acyclic, <3>1 DEF NoCycleOrdered
  <2>2. ASSUME pc = "self" PROVE ~Graph!Acyclic
    <3>1. PICK t \in Tasks : t \in deps[t]
      BY <2>2
    <3>2. {t} \in SUBSET Tasks /\ {t} # {} /\ \A u \in {t} : deps[u] \cap {t} # {}
      BY <3>1
    <3>3. QED
      BY <2>acyclic, <3>2
  <2>3. ASSUME pc = "cycle" PROVE ~Graph!Acyclic
    <3> DEFINE Left == Tasks \ Ordered
    <3>1. Left # {}
      <4>1. Ordered # Tasks
        BY <2>3, OrderedCount DEF ListedOnce
      <4>2. Ordered \subseteq Tasks
        BY DEF Ordered, Elements
      <4>3. QED
        BY <4>1, <4>2
    <3>2. ASSUME NEW t \in Left PROVE deps[t] \cap Left # {}
      <4>1. Elements(ready) = {}
        BY <2>3 DEF Elements
      <4>2. Waits(t) # {}
        BY <2>3, <4>1 DEF CountsExact
      <4>3. QED
        BY <4>2 DEF Waits
    <3>3. QED
      BY <2>acyclic, <3>1, <3>2
  <2>4. QED
    BY <2>1, <2>2, <2>3 DEF ValidationIsExact
<1>2. QED
  BY <1>1, SortInvariantHolds, PTL

-----------------------------------------------------------------------------
(***************************************************************************)
(* Largest and smallest numbers.  A finite set of numbers has a largest    *)
(* one because a chain of smaller and smaller subsets ends; that is how    *)
(* what follows does without induction.                                    *)
(***************************************************************************)

LEMMA LargestNumber ==
  ASSUME NEW S \in SUBSET Int, IsFiniteSet(S), S # {}
  PROVE  \E m \in S : \A k \in S : k <= m
<1> DEFINE Above(x) == {y \in S : y > x}
           T == {Above(x) : x \in S}
<1>1. T \subseteq FiniteSubsetsOf(S)
  <2>1. \A x \in S : IsFiniteSet(Above(x))
    BY FS_Subset
  <2>2. QED
    BY <2>1 DEF FiniteSubsetsOf
<1>2. IsWellFoundedOn(StrictSubsetOrdering(S), FiniteSubsetsOf(S))
  BY FS_StrictSubsetOrderingWellFounded
<1>3. PICK X \in T : \A Y \in T : <<Y, X>> \notin StrictSubsetOrdering(S)
  <2>1. T # {}
    OBVIOUS
  <2> HIDE DEF T
  <2>2. QED
    BY <1>1, <1>2, <2>1, WFMin
<1>4. PICK m \in S : X = Above(m)
  OBVIOUS
<1>5. ASSUME NEW k \in S, k > m PROVE FALSE
  <2>1. \A y \in S : y \in Int
    OBVIOUS
  <2>2. Above(k) \subseteq X /\ k \in X /\ k \notin Above(k)
    <3>1. \A y \in S : y > k => y > m
      BY <1>5, <2>1
    <3>2. ~(k > k)
      BY <2>1
    <3>3. QED
      BY <1>4, <1>5, <3>1, <3>2
  <2>3. Above(k) \in T /\ Above(k) \in SUBSET S /\ X \in SUBSET S
    BY <1>4
  <2> HIDE DEF Above, T
  <2>4. <<Above(k), X>> \in StrictSubsetOrdering(S)
    BY <2>2, <2>3 DEF StrictSubsetOrdering
  <2>5. QED
    BY <1>3, <2>3, <2>4
<1>6. QED
  BY <1>5

\* The least index of a property of indices.
LEMMA LeastIndex ==
  ASSUME NEW n \in Nat, NEW S \in SUBSET (1 .. n), S # {}
  PROVE  \E m \in S : \A k \in 1 .. m - 1 : k \notin S
<1> DEFINE Below == {x \in 0 .. n : \A y \in S : x < y}
<1>0. \A y \in S : y \in Int /\ 0 < y /\ y <= n
  OBVIOUS
<1>1. IsFiniteSet(Below) /\ Below \in SUBSET Int /\ 0 \in Below
  <2>1. IsFiniteSet(0 .. n)
    BY FS_Interval
  <2>2. Below \in SUBSET (0 .. n)
    OBVIOUS
  <2>3. IsFiniteSet(Below)
    BY <2>1, <2>2, FS_Subset
  <2>4. 0 \in Below
    BY <1>0
  <2>5. QED
    BY <2>2, <2>3, <2>4
<1>2. PICK d \in Below : \A k \in Below : k <= d
  <2> HIDE DEF Below
  <2>1. QED
    BY <1>1, LargestNumber
<1>3. d \in Nat /\ d < n
  <2>1. PICK y \in S : TRUE
    OBVIOUS
  <2>2. d \in 0 .. n /\ d < y /\ y <= n
    BY <1>0, <2>1
  <2>3. QED
    BY <1>0, <2>2
<1>4. d + 1 \notin Below /\ d + 1 \in 0 .. n
  BY <1>2, <1>3
<1>5. PICK y \in S : ~(d + 1 < y)
  BY <1>4
<1>6. y = d + 1
  BY <1>2, <1>3, <1>5
<1>7. \A k \in 1 .. d : k \notin S
  BY <1>2, <1>3
<1>8. QED
  BY <1>3, <1>6, <1>7

LEMMA ImageFinite ==
  ASSUME NEW S, IsFiniteSet(S), NEW f
  PROVE  IsFiniteSet({f[x] : x \in S})
<1> DEFINE T == {f[x] : x \in S}
           g == [x \in S |-> f[x]]
<1>1. g \in Surjection(S, T)
  <2>1. g \in [S -> T] /\ \A y \in T : \E x \in S : g[x] = y
    OBVIOUS
  <2>2. QED
    BY <2>1, Fun_IsSurj
<1>2. QED
  BY <1>1, FS_Surjection

LEMMA LongestIs ==
  ASSUME NEW S \in SUBSET Nat, IsFiniteSet(S)
  PROVE  /\ Longest(S) \in S \cup {0}
         /\ \A m \in S : m <= Longest(S)
<1>1. PICK n \in S \cup {0} : \A k \in S \cup {0} : k <= n
  <2>1. IsFiniteSet(S \cup {0}) /\ S \cup {0} # {} /\ S \cup {0} \in SUBSET Int
    BY FS_AddElement
  <2>2. QED
    BY <2>1, LargestNumber
<1>2. QED
  BY <1>1 DEF Longest

LEMMA LongestIsOnly ==
  ASSUME NEW S \in SUBSET Nat, NEW n \in S \cup {0}, \A m \in S : m <= n
  PROVE  Longest(S) = n
<1>1. \A m \in S \cup {0} : m <= n
  OBVIOUS
<1>2. /\ Longest(S) \in S \cup {0}
      /\ \A m \in S \cup {0} : m <= Longest(S)
  BY <1>1 DEF Longest
<1>3. Longest(S) \in Nat /\ n \in Nat
  <2>1. \A m \in S \cup {0} : m \in Nat
    OBVIOUS
  <2>2. QED
    BY <1>2, <2>1
<1>4. Longest(S) <= n /\ n <= Longest(S)
  BY <1>1, <1>2
<1>5. QED
  BY <1>3, <1>4

-----------------------------------------------------------------------------
(***************************************************************************)
(* The lengths of paths.                                                   *)
(***************************************************************************)

\* A path of n tasks, and the sums of the durations along it.
IsPath(p, n) ==
  /\ p \in [1 .. n -> Tasks]
  /\ \A i \in 2 .. n : p[i - 1] \in deps[p[i]]

IsTotal(s, p, n) ==
  \A i \in 1 .. n : s[i] = duration[p[i]] + IF i = 1 THEN 0 ELSE s[i - 1]

LEMMA TotalsExist ==
  ASSUME duration \in [Tasks -> Nat], NEW n \in Nat,
         NEW p \in [1 .. n -> Tasks]
  PROVE  \E s \in [1 .. n -> Nat] : IsTotal(s, p, n)
<1> DEFINE Bad == {k \in 1 .. n : ~\E s \in [1 .. k -> Nat] : IsTotal(s, p, k)}
<1>1. ASSUME Bad # {} PROVE FALSE
  <2>1. PICK m \in Bad : \A k \in 1 .. m - 1 : k \notin Bad
    <3>1. Bad \in SUBSET (1 .. n)
      OBVIOUS
    <3> HIDE DEF Bad
    <3>2. QED
      BY <1>1, <3>1, LeastIndex
  <2>2. duration[p[m]] \in Nat /\ m \in 1 .. n
    OBVIOUS
  <2>3. CASE m = 1
    <3> DEFINE s == [i \in 1 .. 1 |-> duration[p[1]]]
    <3>1. s \in [1 .. m -> Nat] /\ IsTotal(s, p, m)
      BY <2>2, <2>3 DEF IsTotal
    <3>2. QED
      BY <3>1
  <2>4. CASE m # 1
    <3>1. m - 1 \in 1 .. n /\ m - 1 \in 1 .. m - 1
      BY <2>2, <2>4
    <3>2. PICK r \in [1 .. m - 1 -> Nat] : IsTotal(r, p, m - 1)
      BY <2>1, <3>1
    <3> DEFINE s == [i \in 1 .. m |-> IF i = m THEN duration[p[m]] + r[m - 1]
                                               ELSE r[i]]
    <3>3. r[m - 1] \in Nat
      BY <3>1
    <3>4. s \in [1 .. m -> Nat]
      <4>1. \A i \in 1 .. m : i # m => i \in 1 .. m - 1
        BY <2>2
      <4>2. QED
        BY <2>2, <3>3, <4>1
    <3>5. ASSUME NEW i \in 1 .. m
          PROVE  s[i] = duration[p[i]] + IF i = 1 THEN 0 ELSE s[i - 1]
      <4>1. CASE i = m
        <5>1. s[m] = duration[p[m]] + r[m - 1] /\ s[m - 1] = r[m - 1]
          BY <2>2, <3>1
        <5>2. QED
          BY <2>4, <4>1, <5>1
      <4>2. CASE i # m
        <5>1. i \in 1 .. m - 1 /\ s[i] = r[i]
          BY <2>2, <4>2
        <5>2. i # 1 => s[i - 1] = r[i - 1]
          BY <2>2, <5>1
        <5>3. QED
          BY <3>2, <5>1, <5>2 DEF IsTotal
      <4>3. QED
        BY <4>1, <4>2
    <3>6. IsTotal(s, p, m)
      BY <3>5 DEF IsTotal
    <3>7. QED
      BY <3>4, <3>6
  <2>5. QED
    BY <2>3, <2>4
<1>2. CASE n = 0
  <2>1. 1 .. n = {}
    BY <1>2
  <2>2. [i \in 1 .. n |-> 0] \in [1 .. n -> Nat]
    OBVIOUS
  <2>3. IsTotal([i \in 1 .. n |-> 0], p, n)
    BY <2>1 DEF IsTotal
  <2>4. QED
    BY <2>2, <2>3
<1>3. CASE n # 0
  <2>1. n \in 1 .. n
    BY <1>3
  <2>2. QED
    BY <1>1, <2>1
<1>4. QED
  BY <1>2, <1>3

LEMMA TotalsUnique ==
  ASSUME NEW n \in Nat, NEW m \in 1 .. n, NEW p, NEW r, NEW s,
         IsTotal(r, p, n), IsTotal(s, p, n)
  PROVE  r[m] = s[m]
<1> DEFINE Bad == {k \in 1 .. n : r[k] # s[k]}
<1>1. SUFFICES ASSUME Bad # {} PROVE FALSE
  OBVIOUS
<1>2. PICK k \in Bad : \A i \in 1 .. k - 1 : i \notin Bad
  <2>1. Bad \in SUBSET (1 .. n)
    OBVIOUS
  <2> HIDE DEF Bad
  <2>2. QED
    BY <1>1, <2>1, LeastIndex
<1>3. k # 1 => k - 1 \in 1 .. k - 1 /\ k - 1 \in 1 .. n
  OBVIOUS
<1>4. QED
  BY <1>2, <1>3 DEF IsTotal

\* The length of a path is the last of the sums.
LEMMA LengthIsTotal ==
  ASSUME duration \in [Tasks -> Nat], NEW n \in Nat \ {0},
         NEW p \in [1 .. n -> Tasks], NEW s, IsTotal(s, p, n)
  PROVE  Length(p) \in Nat /\ Length(p) = s[n]
<1>1. DOMAIN p = 1 .. n /\ p \in Seq(Tasks) /\ Len(p) = n
  OBVIOUS
<1>2. PICK r \in [1 .. n -> Nat] : IsTotal(r, p, n)
  BY TotalsExist
<1> DEFINE Sums(t) == t = [i \in DOMAIN p |->
                             duration[p[i]] + IF i = 1 THEN 0 ELSE t[i - 1]]
           total == CHOOSE t : Sums(t)
<1>3. Sums(r)
  BY <1>1, <1>2 DEF IsTotal
<1>4. Sums(total)
  <2> HIDE DEF Sums
  <2>1. QED
    BY <1>3
<1>5. Length(p) = total[n]
  BY <1>1 DEF Length
<1>6. IsTotal(total, p, n)
  <2> HIDE DEF total
  <2>1. QED
    BY <1>1, <1>4 DEF IsTotal
<1> HIDE DEF total, Sums
<1>7. total[n] = r[n] /\ total[n] = s[n]
  BY <1>2, <1>6, TotalsUnique
<1>8. r[n] \in Nat
  BY <1>2
<1>9. QED
  BY <1>5, <1>7, <1>8

-----------------------------------------------------------------------------
(***************************************************************************)
(* The loop of critical_path_length.                                       *)
(***************************************************************************)

\* The loop has dealt with the front of the order, and has found for each task
\* what the recursion over its dependencies prescribes.
PathsInvariant ==
  /\ pc # "paths" => longest_path = <<>> /\ result = -1
  /\ pc = "paths" =>
       /\ duration \in [Tasks -> Nat]
       /\ Cardinality(Done) \in 0 .. TaskCount
       /\ Done = {ordered[i] : i \in 1 .. Cardinality(Done)}
       /\ longest_path \in [Done -> Nat]
       /\ \A t \in Done :
            /\ deps[t] \subseteq Done
            /\ longest_path[t] =
                 Longest({longest_path[d] : d \in deps[t]}) + duration[t]
  /\ result # -1 =>
       /\ pc = "paths"
       /\ Done = Tasks
       /\ result = Longest({longest_path[t] : t \in Tasks})

LEMMA BeginKeeps ==
  ASSUME SortInvariant, PathsInvariant, Begin
  PROVE  PathsInvariant'
<1>1. /\ pc = "valid" /\ pc' = "paths"
      /\ duration' \in [Tasks -> Nat]
      /\ longest_path' = <<>> /\ result' = -1
  BY CriticalPathAssumption DEF Begin, PathsInvariant
<1>2. Done' = {} /\ longest_path' \in [{} -> Nat]
  BY <1>1 DEF Done
<1>3. Cardinality(Done') = 0
  BY <1>2, FS_EmptySet
<1>4. 0 \in 0 .. TaskCount /\ 1 .. 0 = {}
  BY TopologicalOrderAssumption
<1>5. QED
  BY <1>1, <1>2, <1>3, <1>4 DEF PathsInvariant

LEMMA RelaxKeeps ==
  ASSUME SortInvariant, PathsInvariant, NEW t \in Tasks, Relax(t)
  PROVE  PathsInvariant'
<1> DEFINE n == Cardinality(Done)
<1>1. /\ pc = "paths" /\ pc' = "paths"
      /\ UNCHANGED <<deps, ordered, duration, result>>
      /\ n \in Nat /\ n < TaskCount
      /\ t = ordered[n + 1]
      /\ longest_path' = [u \in Done \cup {t} |->
                            IF u = t THEN best_predecessor(t) + duration[t]
                            ELSE longest_path[u]]
  BY DEF Relax, PathsInvariant, vars
<1>2. /\ deps \in [Tasks -> SUBSET Tasks]
      /\ ordered \in Seq(Tasks) /\ Len(ordered) = TaskCount
      /\ \A i, j \in DOMAIN ordered : ordered[i] = ordered[j] => i = j
      /\ OrderIsTopological
  BY <1>1 DEF SortInvariant, Types, OrderIsTopological
<1>3. /\ duration \in [Tasks -> Nat]
      /\ Done = {ordered[i] : i \in 1 .. n}
      /\ longest_path \in [Done -> Nat]
      /\ \A u \in Done :
           /\ deps[u] \subseteq Done
           /\ longest_path[u] =
                Longest({longest_path[d] : d \in deps[u]}) + duration[u]
  BY <1>1 DEF PathsInvariant
<1>4. Done \subseteq Tasks /\ t \notin Done
  <2>1. \A i \in 1 .. n : i \in DOMAIN ordered /\ n + 1 \in DOMAIN ordered
                          /\ i # n + 1
    BY <1>1, <1>2, TopologicalOrderAssumption
  <2>2. \A i \in 1 .. n : ordered[i] \in Tasks /\ ordered[i] # t
    BY <1>1, <1>2, <2>1
  <2>3. QED
    BY <1>3, <2>2
<1> HIDE DEF n
<1>5. deps[t] \subseteq Done
  <2>1. n + 1 \in DOMAIN ordered
    BY <1>1, <1>2, TopologicalOrderAssumption
  <2>2. \A d \in deps[t] : \E j \in 1 .. (n + 1) - 1 : ordered[j] = d
    BY <1>1, <1>2, <2>1 DEF OrderIsTopological
  <2>3. (n + 1) - 1 = n
    BY <1>1
  <2>4. QED
    BY <1>3, <2>2, <2>3
<1>6. Done' = Done \cup {t} /\ Cardinality(Done') = n + 1
  <2>1. Done' = Done \cup {t}
    BY <1>1 DEF Done
  <2>2. IsFiniteSet(Done)
    BY <1>4, TasksFinite
  <2>3. QED
    BY <1>4, <2>1, <2>2, FS_AddElement DEF n
<1>7. Done' = {ordered[i] : i \in 1 .. n + 1}
  <2>1. 1 .. n + 1 = (1 .. n) \cup {n + 1}
    BY <1>1
  <2>2. QED
    BY <1>1, <1>3, <1>6, <2>1
<1>8. best_predecessor(t) = Longest({longest_path[d] : d \in deps[t]})
  BY <1>5 DEF best_predecessor
<1>9. best_predecessor(t) \in Nat
  <2>1. {longest_path[d] : d \in deps[t]} \in SUBSET Nat
    BY <1>3, <1>5
  <2>2. IsFiniteSet({longest_path[d] : d \in deps[t]})
    BY <1>2, TasksFinite, ImageFinite
  <2>3. Longest({longest_path[d] : d \in deps[t]}) \in Nat
    BY <2>1, <2>2, LongestIs
  <2>4. QED
    BY <1>8, <2>3
<1>10. longest_path' \in [Done \cup {t} -> Nat]
  <2>1. best_predecessor(t) + duration[t] \in Nat
    BY <1>3, <1>9
  <2>2. QED
    BY <1>1, <1>3, <2>1
<1>11. ASSUME NEW u \in Done \cup {t}
       PROVE  /\ deps[u] \subseteq Done \cup {t}
              /\ longest_path'[u] =
                   Longest({longest_path'[d] : d \in deps[u]}) + duration[u]
  <2>1. deps[u] \subseteq Done
    BY <1>3, <1>5
  <2>2. \A d \in deps[u] : longest_path'[d] = longest_path[d]
    BY <1>1, <1>4, <2>1
  <2>3. {longest_path'[d] : d \in deps[u]} = {longest_path[d] : d \in deps[u]}
    BY <2>2
  <2>4. CASE u = t
    BY <1>1, <1>8, <2>1, <2>3, <2>4
  <2>5. CASE u \in Done
    BY <1>1, <1>3, <1>4, <2>1, <2>3, <2>5
  <2>6. QED
    BY <2>4, <2>5
<1>12. result = -1
  <2>1. Done = Tasks => n = TaskCount
    BY TopologicalOrderAssumption, FS_Interval DEF Tasks, n
  <2>2. QED
    BY <1>1, <2>1, TopologicalOrderAssumption DEF PathsInvariant
<1>13. n + 1 \in 0 .. TaskCount
  BY <1>1, TopologicalOrderAssumption
<1>14. /\ longest_path' \in [Done' -> Nat]
       /\ \A u \in Done' :
            /\ deps'[u] \subseteq Done'
            /\ longest_path'[u] =
                 Longest({longest_path'[d] : d \in deps'[u]}) + duration'[u]
  BY <1>1, <1>6, <1>10, <1>11
<1>15. Done' = {ordered'[i] : i \in 1 .. Cardinality(Done')}
  BY <1>1, <1>6, <1>7
<1>16. /\ Cardinality(Done') \in 0 .. TaskCount
       /\ pc' = "paths" /\ result' = -1 /\ duration' \in [Tasks -> Nat]
  BY <1>1, <1>3, <1>6, <1>12, <1>13
<1>17. QED
  BY <1>14, <1>15, <1>16 DEF PathsInvariant

LEMMA NextPathsInvariant ==
  SortInvariant /\ PathsInvariant /\ [Next]_<<vars, pathVars>>
    => PathsInvariant'
<1> SUFFICES ASSUME SortInvariant, PathsInvariant, [Next]_<<vars, pathVars>>
             PROVE  PathsInvariant'
  OBVIOUS
<1>1. CASE Sort /\ UNCHANGED pathVars
  <2>1. /\ pc # "paths" /\ pc' # "paths"
        /\ UNCHANGED <<longest_path, result>>
    BY <1>1 DEF Sort, RejectSelfDependency, Build, Visit, Compare, pathVars
  <2>2. QED
    BY <2>1 DEF PathsInvariant
<1>2. CASE Begin
  BY <1>2, BeginKeeps
<1>3. ASSUME NEW t \in Tasks, Relax(t) PROVE PathsInvariant'
  BY <1>3, RelaxKeeps
<1>4. CASE ReturnLongest
  BY <1>4 DEF ReturnLongest, PathsInvariant, vars, Done
<1>5. CASE UNCHANGED <<vars, pathVars>>
  BY <1>5 DEF PathsInvariant, vars, pathVars, Done
<1>6. QED
  BY <1>1, <1>2, <1>3, <1>4, <1>5 DEF Next, Finished

\* critical_path_length solves the recursion over the dependencies, although it
\* passes over a dependency that it has not dealt with yet: there is none.
THEOREM PathsInvariantHolds == Spec => []PathsInvariant
<1>1. PathInit => PathsInvariant
  BY DEF PathInit, Init, PathsInvariant
<1>2. QED
  BY <1>1, SortInvariantHolds, NextPathsInvariant, PTL DEF Spec

-----------------------------------------------------------------------------
(***************************************************************************)
(* The recursion over the dependencies gives the longest path.             *)
(***************************************************************************)

NoCycle ==
  \A S \in SUBSET Tasks : S # {} => \E t \in S : deps[t] \cap S = {}

\* What the loop has found once it has dealt with all the tasks.
Solved ==
  /\ deps \in [Tasks -> SUBSET Tasks]
  /\ duration \in [Tasks -> Nat]
  /\ longest_path \in [Tasks -> Nat]
  /\ \A t \in Tasks :
       longest_path[t] =
         Longest({longest_path[d] : d \in deps[t]}) + duration[t]

\* A task is one dependency further than the best of its dependencies.
LEMMA SolvedStep ==
  ASSUME Solved, NEW t \in Tasks
  PROVE  /\ duration[t] <= longest_path[t]
         /\ \A d \in deps[t] : longest_path[d] + duration[t] <= longest_path[t]
         /\ \/ longest_path[t] = duration[t]
            \/ \E d \in deps[t] : longest_path[t] = longest_path[d] + duration[t]
<1> DEFINE S == {longest_path[d] : d \in deps[t]}
<1>1. S \in SUBSET Nat /\ deps[t] \in SUBSET Tasks
  BY DEF Solved
<1>2. IsFiniteSet(S)
  BY <1>1, TasksFinite, ImageFinite
<1>3. Longest(S) \in S \cup {0} /\ \A m \in S : m <= Longest(S)
  <2> HIDE DEF S
  <2>1. QED
    BY <1>1, <1>2, LongestIs
<1>4. longest_path[t] = Longest(S) + duration[t] /\ duration[t] \in Nat
  BY DEF Solved
<1>5. \A d \in deps[t] : longest_path[d] \in S
  OBVIOUS
<1>6. Longest(S) = 0 \/ \E d \in deps[t] : Longest(S) = longest_path[d]
  BY <1>3
<1>7. Longest(S) \in Nat
  <2> HIDE DEF S
  <2>1. \A m \in S \cup {0} : m \in Nat
    BY <1>1
  <2>2. QED
    BY <1>3, <2>1
<1>8. \A d \in deps[t] : longest_path[d] \in Nat /\ longest_path[d] <= Longest(S)
  BY <1>1, <1>3, <1>5
<1> HIDE DEF S
<1>9. duration[t] <= longest_path[t]
  BY <1>4, <1>7
<1>10. \A d \in deps[t] : longest_path[d] + duration[t] <= longest_path[t]
  BY <1>4, <1>7, <1>8
<1>11. \/ longest_path[t] = duration[t]
       \/ \E d \in deps[t] : longest_path[t] = longest_path[d] + duration[t]
  BY <1>4, <1>6
<1>12. QED
  BY <1>9, <1>10, <1>11

\* No path to a task is longer than what was found for the task.
LEMMA PathBound ==
  ASSUME Solved, NEW n \in Nat, NEW p, IsPath(p, n),
         NEW s \in [1 .. n -> Nat], IsTotal(s, p, n), NEW k \in 1 .. n
  PROVE  s[k] <= longest_path[p[k]]
<1> DEFINE Bad == {i \in 1 .. n : ~(s[i] <= longest_path[p[i]])}
<1>1. SUFFICES ASSUME Bad # {} PROVE FALSE
  OBVIOUS
<1>2. PICK m \in Bad : \A i \in 1 .. m - 1 : i \notin Bad
  <2>1. Bad \in SUBSET (1 .. n)
    OBVIOUS
  <2> HIDE DEF Bad
  <2>2. QED
    BY <1>1, <2>1, LeastIndex
<1>3. /\ m \in 1 .. n
      /\ p[m] \in Tasks
      /\ duration[p[m]] \in Nat /\ longest_path[p[m]] \in Nat
      /\ s[m] = duration[p[m]] + IF m = 1 THEN 0 ELSE s[m - 1]
      /\ ~(s[m] <= longest_path[p[m]])
  BY DEF Solved, IsPath, IsTotal
<1>4. duration[p[m]] <= longest_path[p[m]]
  BY <1>3, SolvedStep
<1>5. CASE m = 1
  BY <1>3, <1>4, <1>5
<1>6. CASE m # 1
  <2>1. m - 1 \in 1 .. n /\ m \in 2 .. n /\ m - 1 \in 1 .. m - 1
    BY <1>3, <1>6
  <2>2. p[m - 1] \in Tasks /\ longest_path[p[m - 1]] \in Nat /\ s[m - 1] \in Nat
    BY <2>1 DEF Solved, IsPath
  <2>3. s[m - 1] <= longest_path[p[m - 1]]
    BY <1>2, <2>1
  <2>4. p[m - 1] \in deps[p[m]]
    BY <2>1 DEF IsPath
  <2>5. longest_path[p[m - 1]] + duration[p[m]] <= longest_path[p[m]]
    BY <1>3, <2>4, SolvedStep
  <2>6. QED
    BY <1>3, <1>6, <2>2, <2>3, <2>5
<1>7. QED
  BY <1>5, <1>6

\* For every task there is a path that is as long.
LEMMA PathReached ==
  ASSUME Solved, NoCycle, NEW t \in Tasks
  PROVE  \E n \in Nat \ {0} : \E p \in [1 .. n -> Tasks], s \in [1 .. n -> Nat] :
           /\ IsPath(p, n)
           /\ IsTotal(s, p, n)
           /\ s[n] = longest_path[t]
           /\ p[n] = t
<1> DEFINE Reaches(u) ==
             \E n \in Nat \ {0} :
               \E p \in [1 .. n -> Tasks], s \in [1 .. n -> Nat] :
                 /\ IsPath(p, n)
                 /\ IsTotal(s, p, n)
                 /\ s[n] = longest_path[u]
                 /\ p[n] = u
           Bad == {u \in Tasks : ~Reaches(u)}
<1> HIDE DEF Reaches
<1>1. SUFFICES ASSUME Bad # {} PROVE FALSE
  BY DEF Reaches
<1>2. PICK u \in Bad : deps[u] \cap Bad = {}
  BY <1>1 DEF NoCycle
<1>3. u \in Tasks /\ ~Reaches(u) /\ duration[u] \in Nat
  BY DEF Solved
<1>4. CASE longest_path[u] = duration[u]
  <2> DEFINE p == [i \in 1 .. 1 |-> u]
             s == [i \in 1 .. 1 |-> duration[u]]
  <2>1. p \in [1 .. 1 -> Tasks] /\ s \in [1 .. 1 -> Nat] /\ p[1] = u
        /\ s[1] = longest_path[u]
    BY <1>3, <1>4
  <2>2. IsPath(p, 1) /\ IsTotal(s, p, 1)
    BY <2>1 DEF IsPath, IsTotal
  <2>3. Reaches(u)
    <3> HIDE DEF p, s
    <3>1. 1 \in Nat \ {0}
      OBVIOUS
    <3>2. QED
      BY <2>1, <2>2, <3>1 DEF Reaches
  <2>4. QED
    BY <1>3, <2>3
<1>5. ASSUME NEW d \in deps[u], longest_path[u] = longest_path[d] + duration[u]
      PROVE  FALSE
  <2>1. d \in Tasks /\ longest_path[d] \in Nat
    BY <1>3 DEF Solved
  <2>2. Reaches(d)
    BY <1>2, <2>1
  <2>3. PICK n \in Nat \ {0} :
          \E p \in [1 .. n -> Tasks], s \in [1 .. n -> Nat] :
            /\ IsPath(p, n)
            /\ IsTotal(s, p, n)
            /\ s[n] = longest_path[d]
            /\ p[n] = d
    BY <2>2 DEF Reaches
  <2>4. PICK p \in [1 .. n -> Tasks], s \in [1 .. n -> Nat] :
          /\ IsPath(p, n)
          /\ IsTotal(s, p, n)
          /\ s[n] = longest_path[d]
          /\ p[n] = d
    BY <2>3
  <2> DEFINE q == [i \in 1 .. n + 1 |-> IF i = n + 1 THEN u ELSE p[i]]
             r == [i \in 1 .. n + 1 |-> IF i = n + 1 THEN longest_path[u]
                                         ELSE s[i]]
  <2>5. \A i \in 1 .. n + 1 : i # n + 1 => i \in 1 .. n
    OBVIOUS
  <2>6. q \in [1 .. n + 1 -> Tasks] /\ q[n + 1] = u
        /\ \A i \in 1 .. n : q[i] = p[i]
    BY <1>3, <2>5
  <2>7. longest_path[u] \in Nat
    BY <1>3 DEF Solved
  <2>8. r \in [1 .. n + 1 -> Nat] /\ r[n + 1] = longest_path[u]
        /\ \A i \in 1 .. n : r[i] = s[i]
    BY <2>5, <2>7
  <2> HIDE DEF q, r
  <2>9. \A i \in 2 .. n + 1 : q[i - 1] \in deps[q[i]]
    <3> SUFFICES ASSUME NEW i \in 2 .. n + 1 PROVE q[i - 1] \in deps[q[i]]
      OBVIOUS
    <3>1. CASE i = n + 1
      <4>1. i - 1 = n /\ n \in 1 .. n
        BY <3>1
      <4>2. q[i - 1] = d
        BY <2>4, <2>6, <4>1
      <4>3. QED
        BY <2>6, <3>1, <4>2
    <3>2. CASE i # n + 1
      <4>1. i \in 2 .. n /\ i \in 1 .. n /\ i - 1 \in 1 .. n
        BY <3>2
      <4>2. q[i] = p[i] /\ q[i - 1] = p[i - 1]
        BY <2>6, <4>1
      <4>3. QED
        BY <2>4, <4>1, <4>2 DEF IsPath
    <3>3. QED
      BY <3>1, <3>2
  <2>10. \A i \in 1 .. n + 1 :
           r[i] = duration[q[i]] + IF i = 1 THEN 0 ELSE r[i - 1]
    <3> SUFFICES ASSUME NEW i \in 1 .. n + 1
                 PROVE  r[i] = duration[q[i]] + IF i = 1 THEN 0 ELSE r[i - 1]
      OBVIOUS
    <3>1. CASE i = n + 1
      <4>1. i - 1 = n /\ n \in 1 .. n /\ i # 1
        BY <3>1
      <4>2. r[i - 1] = longest_path[d]
        BY <2>4, <2>8, <4>1
      <4>3. r[i] = longest_path[d] + duration[u] /\ q[i] = u
        BY <1>5, <2>6, <2>8, <3>1
      <4>4. QED
        BY <1>3, <2>1, <4>1, <4>2, <4>3
    <3>2. CASE i # n + 1
      <4>1. i \in 1 .. n /\ (i # 1 => i - 1 \in 1 .. n)
        BY <3>2
      <4>2. r[i] = s[i] /\ q[i] = p[i] /\ (i # 1 => r[i - 1] = s[i - 1])
        BY <2>6, <2>8, <4>1
      <4>3. s[i] = duration[p[i]] + IF i = 1 THEN 0 ELSE s[i - 1]
        BY <2>4, <4>1 DEF IsTotal
      <4>4. QED
        BY <4>2, <4>3
    <3>3. QED
      BY <3>1, <3>2
  <2>11. IsPath(q, n + 1) /\ IsTotal(r, q, n + 1)
    BY <2>6, <2>9, <2>10 DEF IsPath, IsTotal
  <2>12. n + 1 \in Nat \ {0}
    OBVIOUS
  <2>13. Reaches(u)
    BY <2>6, <2>8, <2>11, <2>12 DEF Reaches
  <2>14. QED
    BY <1>3, <2>13
<1>6. QED
  BY <1>3, <1>4, <1>5, SolvedStep

\* A path of a graph without a cycle visits no task twice.
LEMMA PathsAreShort ==
  ASSUME deps \in [Tasks -> SUBSET Tasks], NoCycle, NEW n \in Nat, NEW p,
         IsPath(p, n)
  PROVE  n <= TaskCount
<1>1. ASSUME NEW i \in 1 .. n, NEW j \in 1 .. n, i < j, p[i] = p[j]
      PROVE  FALSE
  <2> DEFINE S == {p[k] : k \in i .. j - 1}
  <2>1. \A k \in i .. j - 1 : k \in 1 .. n /\ p[k] \in Tasks
    BY DEF IsPath
  <2>2. i \in i .. j - 1 /\ j - 1 \in i .. j - 1 /\ j \in 2 .. n
    BY <1>1
  <2>3. S \in SUBSET Tasks /\ S # {}
    BY <2>1, <2>2
  <2>4. ASSUME NEW k \in i .. j - 1 PROVE deps[p[k]] \cap S # {}
    <3>1. CASE k = i
      <4>1. p[j - 1] \in deps[p[j]] /\ p[j - 1] \in S
        BY <2>2 DEF IsPath
      <4>2. QED
        BY <1>1, <3>1, <4>1
    <3>2. CASE k # i
      <4>1. k \in 2 .. n /\ k - 1 \in i .. j - 1
        BY <3>2
      <4>2. p[k - 1] \in deps[p[k]] /\ p[k - 1] \in S
        BY <4>1 DEF IsPath
      <4>3. QED
        BY <4>2
    <3>3. QED
      BY <3>1, <3>2
  <2>5. \A t \in S : deps[t] \cap S # {}
    BY <2>4
  <2>6. QED
    BY <2>3, <2>5 DEF NoCycle
<1>2. \A i, j \in 1 .. n : p[i] = p[j] => i = j
  BY <1>1
<1>3. p \in Injection(1 .. n, Tasks)
  BY <1>2, Fun_IsInj DEF IsPath
<1>4. /\ IsFiniteSet(Tasks) /\ Cardinality(Tasks) = TaskCount
      /\ Cardinality(1 .. n) = n
  <2>1. IsFiniteSet(1 .. n) /\ Cardinality(1 .. n) = n
    BY FS_Interval
  <2>2. QED
    BY <2>1, TopologicalOrderAssumption, FS_Interval DEF Tasks
<1>5. Cardinality(1 .. n) <= Cardinality(Tasks)
  BY <1>3, <1>4, FS_Injection
<1>6. QED
  BY <1>4, <1>5

\* The paths that Paths collects are the paths.
LEMMA PathsAre ==
  ASSUME NEW n \in 1 .. TaskCount, NEW p \in [1 .. n -> Tasks]
  PROVE  p \in Paths <=> IsPath(p, n)
<1>1. Len(p) = n
  BY TopologicalOrderAssumption
<1>2. p \in UNION {[1 .. m -> Tasks] : m \in 1 .. TaskCount}
  OBVIOUS
<1>3. QED
  BY <1>1, <1>2 DEF Paths, IsPath

LEMMA SolvedResult ==
  ASSUME Solved, NoCycle
  PROVE  Longest({longest_path[t] : t \in Tasks}) =
           Longest({Length(p) : p \in Paths})
<1> DEFINE A == {longest_path[t] : t \in Tasks}
           B == {Length(p) : p \in Paths}
<1>1. A \in SUBSET Nat /\ IsFiniteSet(A)
  <2>1. A \in SUBSET Nat
    BY DEF Solved
  <2>2. IsFiniteSet(A)
    BY TasksFinite, ImageFinite
  <2>3. QED
    BY <2>1, <2>2
<1>2. Longest(A) \in A \cup {0} /\ \A m \in A : m <= Longest(A)
  <2> HIDE DEF A
  <2>1. QED
    BY <1>1, LongestIs
<1>3. Longest(A) \in Nat
  <2> HIDE DEF A
  <2>1. \A m \in A \cup {0} : m \in Nat
    BY <1>1
  <2>2. QED
    BY <1>2, <2>1
<1>4. ASSUME NEW p \in Paths
      PROVE  Length(p) \in Nat /\ Length(p) <= Longest(A)
  <2>1. PICK n \in 1 .. TaskCount : p \in [1 .. n -> Tasks]
    BY DEF Paths
  <2>2. IsPath(p, n) /\ n \in Nat \ {0} /\ n \in Nat /\ n \in 1 .. n
    BY <2>1, PathsAre, TopologicalOrderAssumption
  <2>3. PICK s \in [1 .. n -> Nat] : IsTotal(s, p, n)
    BY <2>1, <2>2, TotalsExist DEF Solved
  <2>4. Length(p) \in Nat /\ Length(p) = s[n]
    BY <2>1, <2>2, <2>3, LengthIsTotal DEF Solved
  <2>5. s[n] <= longest_path[p[n]]
    BY <2>2, <2>3, PathBound
  <2>6. p[n] \in Tasks /\ longest_path[p[n]] \in Nat
    BY <2>1, <2>2 DEF Solved
  <2>7. longest_path[p[n]] <= Longest(A)
    BY <1>2, <2>6
  <2> HIDE DEF A
  <2>8. QED
    BY <1>3, <2>4, <2>5, <2>6, <2>7
<1>5. ASSUME NEW t \in Tasks PROVE longest_path[t] \in B
  <2>1. PICK n \in Nat \ {0} :
          \E p \in [1 .. n -> Tasks], s \in [1 .. n -> Nat] :
            /\ IsPath(p, n)
            /\ IsTotal(s, p, n)
            /\ s[n] = longest_path[t]
            /\ p[n] = t
    BY PathReached
  <2>2. PICK p \in [1 .. n -> Tasks], s \in [1 .. n -> Nat] :
          /\ IsPath(p, n)
          /\ IsTotal(s, p, n)
          /\ s[n] = longest_path[t]
          /\ p[n] = t
    BY <2>1
  <2>3. n <= TaskCount
    BY <2>2, PathsAreShort DEF Solved
  <2>4. n \in 1 .. TaskCount
    BY <2>3, TopologicalOrderAssumption
  <2>5. p \in Paths
    BY <2>2, <2>4, PathsAre
  <2>6. Length(p) = longest_path[t]
    BY <2>2, LengthIsTotal DEF Solved
  <2>7. QED
    BY <2>5, <2>6
<1>6. B \in SUBSET Nat /\ \A m \in B : m <= Longest(A)
  BY <1>4
<1>7. Longest(A) \in B \cup {0}
  <2>1. \A m \in A : m \in B
    BY <1>5
  <2> HIDE DEF A, B
  <2>2. QED
    BY <1>2, <2>1
<1>8. Longest(B) = Longest(A)
  <2> HIDE DEF A, B
  <2>1. QED
    BY <1>6, <1>7, LongestIsOnly
<1>9. QED
  BY <1>8

\* What critical_path_length returns is the length of the longest path: no
\* path is longer, and one is as long.
THEOREM ResultIsLongestPathHolds == Spec => []ResultIsLongestPath
<1>1. SortInvariant /\ ValidationIsExact /\ PathsInvariant
        => ResultIsLongestPath
  <2> SUFFICES ASSUME SortInvariant, ValidationIsExact, PathsInvariant,
                      result # -1
               PROVE  result = Longest({Length(p) : p \in Paths})
    BY DEF ResultIsLongestPath
  <2>1. pc = "paths" /\ Done = Tasks
        /\ result = Longest({longest_path[t] : t \in Tasks})
    BY DEF PathsInvariant
  <2>2. Solved
    BY <2>1 DEF Solved, PathsInvariant, SortInvariant, Types
  <2>3. NoCycle
    <3>1. Graph!Acyclic
      BY <2>1 DEF ValidationIsExact
    <3>2. QED
      BY <3>1 DEF NoCycle, Graph!Acyclic, Graph!Tasks, Tasks
  <2>4. QED
    BY <2>1, <2>2, <2>3, SolvedResult
<1>2. QED
  BY <1>1, SortInvariantHolds, ValidationIsExactHolds, PathsInvariantHolds, PTL
=============================================================================
