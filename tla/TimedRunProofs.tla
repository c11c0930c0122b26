--------------------------- MODULE TimedRunProofs ---------------------------
(***************************************************************************)
(* Proofs about module TimedRun, for every graph without a cycle, all      *)
(* durations and retry budgets and any number of workers.                  *)
(***************************************************************************)
EXTENDS TimedRun, FiniteSetTheorems, FunctionTheorems, WellFoundedInduction,
        TLAPS

Types ==
  /\ duration \in [Tasks -> Nat]
  /\ state \in [Tasks -> {"Pending", "Running", "Completed", "Failed",
                          "Cancelled"}]
  /\ attempts \in [Tasks -> Nat]
  /\ due \in [Tasks -> Nat]
  /\ now \in Nat

\* A task is started when its dependencies have completed for good, so the chain
\* that ends with it is not longer than the time until its sleep is over; and
\* when that is over, not longer than the time that has passed.
TimedInvariant ==
  /\ Types
  /\ \A t \in Tasks :
       /\ state[t] \in {"Running", "Completed"} => attempts[t] # 0
       /\ attempts[t] # 0 => \A d \in Dependencies[t] : state[d] = "Completed"
       /\ state[t] = "Running" => ChainTo[t] <= due[t]
       /\ state[t] \in {"Pending", "Completed"} /\ attempts[t] # 0 =>
            ChainTo[t] <= now

-----------------------------------------------------------------------------
(***************************************************************************)
(* The largest of finitely many numbers.                                   *)
(***************************************************************************)

\* In the chain of the sets of larger numbers there is a last one.
LEMMA LargestNumber ==
  ASSUME NEW S \in SUBSET Int, IsFiniteSet(S), S # {}
  PROVE  \E m \in S : \A k \in S : k <= m
<1> DEFINE Above(x) == {y \in S : y > x}
           T == {Above(x) : x \in S}
<1>1. T \subseteq FiniteSubsetsOf(S)
  <2>1. \A x \in S : IsFiniteSet(Above(x))
    BY FS_Subset
  <2>2. QED
    BY <2>1 DEF FiniteSubsetsOf
<1>2. IsWellFoundedOn(StrictSubsetOrdering(S), FiniteSubsetsOf(S))
  BY FS_StrictSubsetOrderingWellFounded
<1>3. PICK X \in T : \A Y \in T : <<Y, X>> \notin StrictSubsetOrdering(S)
  <2>1. T # {}
    OBVIOUS
  <2> HIDE DEF T
  <2>2. QED
    BY <1>1, <1>2, <2>1, WFMin
<1>4. PICK m \in S : X = Above(m)
  OBVIOUS
<1>5. ASSUME NEW k \in S, k > m PROVE FALSE
  <2>1. Above(k) \subseteq X /\ k \in X /\ k \notin Above(k)
    <3>1. \A y \in S : y \in Int
      OBVIOUS
    <3>2. \A y \in S : y > k => y > m
      BY <1>5, <3>1
    <3>3. ~(k > k)
      BY <3>1
    <3>4. QED
      BY <1>4, <1>5, <3>2, <3>3
  <2>2. Above(k) \in T /\ Above(k) \in SUBSET S /\ X \in SUBSET S
    BY <1>4
  <2> HIDE DEF Above, T
  <2>3. <<Above(k), X>> \in StrictSubsetOrdering(S)
    BY <2>1, <2>2 DEF StrictSubsetOrdering
  <2>4. QED
    BY <1>3, <2>2, <2>3
<1>6. QED
  BY <1>5

\* The largest of zero and what f gives for the members of D.
LEMMA MaxIs ==
  ASSUME NEW D \in SUBSET Tasks, NEW f, \A d \in D : f[d] \in Nat
  PROVE  LET m == Max({0} \cup {f[d] : d \in D})
         IN  /\ m \in Nat
             /\ \A d \in D : f[d] <= m
             /\ m = 0 \/ \E d \in D : m = f[d]
<1> DEFINE S == {0} \cup {f[d] : d \in D}
           g == [d \in D |-> f[d]]
<1>1. IsFiniteSet(D)
  <2>1. IsFiniteSet(Tasks)
    BY TimedRunAssumption, FS_Interval DEF Tasks
  <2>2. QED
    BY <2>1, FS_Subset
<1>2. IsFiniteSet({f[d] : d \in D})
  <2>1. g \in [D -> {f[d] : d \in D}]
        /\ \A y \in {f[d] : d \in D} : \E d \in D : g[d] = y
    OBVIOUS
  <2>2. g \in Surjection(D, {f[d] : d \in D})
    BY <2>1, Fun_IsSurj
  <2>3. QED
    BY <1>1, <2>2, FS_Surjection
<1>3. IsFiniteSet(S) /\ S \in SUBSET Int /\ S # {} /\ \A x \in S : x \in Nat
  BY <1>2, FS_AddElement
<1> HIDE DEF S
<1>4. PICK x \in S : \A y \in S : y <= x
  BY <1>3, LargestNumber
<1>5. x >= x /\ \A y \in S : x >= y
  BY <1>3, <1>4
<1>6. Max(S) \in S /\ \A y \in S : Max(S) >= y
  BY <1>5 DEF Max
<1>7. Max(S) \in Nat /\ \A y \in S : y <= Max(S)
  BY <1>3, <1>6
<1>8. QED
  BY <1>6, <1>7 DEF S

-----------------------------------------------------------------------------
(***************************************************************************)
(* The chains of a graph without a cycle.                                  *)
(***************************************************************************)

\* f[t] is the longest chain that ends with t, if t was attempted a[t] times.
Chain(f, a, t) ==
  a[t] * duration[t] + Max({0} \cup {f[d] : d \in Dependencies[t]})

LEMMA Products ==
  ASSUME NEW a \in Nat, NEW d \in Nat
  PROVE  a * d \in Nat /\ 0 * d = 0 /\ (a + 1) * d = a * d + d
  OBVIOUS

LEMMA ChainIsNumber ==
  ASSUME duration \in [Tasks -> Nat], NEW a \in [Tasks -> Nat], NEW t \in Tasks,
         NEW f, \A d \in Dependencies[t] : f[d] \in Nat
  PROVE  Chain(f, a, t) \in Nat
<1>1. Dependencies[t] \in SUBSET Tasks
  BY TimedRunAssumption
<1>2. Max({0} \cup {f[d] : d \in Dependencies[t]}) \in Nat
  BY <1>1, MaxIs
<1>3. a[t] * duration[t] \in Nat
  BY Products
<1>4. QED
  BY <1>2, <1>3 DEF Chain

\* The recursion has a solution: a largest set of tasks for which it has one is
\* the set of all tasks, as the graph has no cycle.
LEMMA ChainsExist ==
  ASSUME duration \in [Tasks -> Nat], NEW a \in [Tasks -> Nat]
  PROVE  \E f \in [Tasks -> Nat] : \A t \in Tasks : f[t] = Chain(f, a, t)
<1> DEFINE Solved(D) ==
             /\ D \in SUBSET Tasks
             /\ \A t \in D : Dependencies[t] \subseteq D
             /\ \E f \in [D -> Nat] : \A t \in D : f[t] = Chain(f, a, t)
           T == {X \in SUBSET Tasks : Solved(Tasks \ X)}
<1>1. Tasks \in T
  <2>1. Tasks \ Tasks = {}
    OBVIOUS
  <2>2. [t \in {} |-> 0] \in [{} -> Nat]
    OBVIOUS
  <2>3. Solved({})
    BY <2>2
  <2>4. QED
    BY <2>1, <2>3
<1>2. T \subseteq FiniteSubsetsOf(Tasks)
  <2>1. IsFiniteSet(Tasks)
    BY TimedRunAssumption, FS_Interval DEF Tasks
  <2> HIDE DEF Solved
  <2>2. \A X \in T : X \in SUBSET Tasks /\ IsFiniteSet(X)
    BY <2>1, FS_Subset
  <2>3. QED
    BY <2>2 DEF FiniteSubsetsOf
<1>3. IsWellFoundedOn(StrictSubsetOrdering(Tasks), FiniteSubsetsOf(Tasks))
  BY FS_StrictSubsetOrderingWellFounded
<1>4. PICK X \in T : \A Y \in T : <<Y, X>> \notin StrictSubsetOrdering(Tasks)
  <2> HIDE DEF T
  <2>1. QED
    BY <1>1, <1>2, <1>3, WFMin
<1> DEFINE D == Tasks \ X
<1>5. X \in SUBSET Tasks /\ Solved(D)
  OBVIOUS
<1>6. PICK f \in [D -> Nat] : \A t \in D : f[t] = Chain(f, a, t)
  BY <1>5
<1>7. ASSUME X # {} PROVE FALSE
  <2>1. PICK t \in X : Dependencies[t] \cap X = {}
    BY <1>5, <1>7, TimedRunAssumption DEF Acyclic
  <2>2. t \in Tasks /\ t \notin D /\ Dependencies[t] \subseteq D
    BY <1>5, <2>1, TimedRunAssumption
  <2>3. Chain(f, a, t) \in Nat
    BY <1>6, <2>2, ChainIsNumber
  <2> DEFINE g == [u \in D \cup {t} |-> IF u = t THEN Chain(f, a, t) ELSE f[u]]
  <2>4. g \in [D \cup {t} -> Nat]
    BY <1>6, <2>3
  <2>5. ASSUME NEW u \in D \cup {t} PROVE g[u] = Chain(g, a, u)
    <3>1. Dependencies[u] \subseteq D
      BY <1>5, <2>2
    <3>2. \A d \in Dependencies[u] : g[d] = f[d]
      BY <2>2, <3>1
    <3>3. {g[d] : d \in Dependencies[u]} = {f[d] : d \in Dependencies[u]}
      BY <3>2
    <3>4. Chain(g, a, u) = Chain(f, a, u)
      BY <3>3 DEF Chain
    <3>5. g[u] = Chain(f, a, u)
      BY <1>6, <2>2
    <3>6. QED
      BY <3>4, <3>5
  <2>6. /\ D \cup {t} \in SUBSET Tasks
        /\ \A u \in D \cup {t} : Dependencies[u] \subseteq D \cup {t}
    BY <1>5, <2>2
  <2> HIDE DEF g
  <2>7. Solved(D \cup {t})
    BY <2>4, <2>5, <2>6
  <2>8. D \cup {t} = Tasks \ (X \ {t})
    BY <1>5, <2>1, <2>2
  <2>9. X \ {t} \in T
    BY <1>5, <2>7, <2>8
  <2>10. <<X \ {t}, X>> \in StrictSubsetOrdering(Tasks)
    BY <1>5, <2>1 DEF StrictSubsetOrdering
  <2>11. QED
    BY <1>4, <2>9, <2>10
<1>8. D = Tasks
  BY <1>7
<1>9. QED
  BY <1>6, <1>8

Solves(f, a) == \A t \in Tasks : f[t] = Chain(f, a, t)
Closed(S) == S \in SUBSET Tasks /\ \A t \in S : Dependencies[t] \subseteq S
Agree(f, g, S) == \A t \in S : f[t] = g[t]

\* Two solutions agree where the attempts of a task and of all that is upstream
\* of it are the same.
LEMMA ChainsAgree ==
  ASSUME NEW S, Closed(S), NEW a, NEW b, Agree(a, b, S),
         NEW f, Solves(f, a), NEW g, Solves(g, b)
  PROVE  Agree(f, g, S)
<1> USE DEF Closed, Agree, Solves
<1> DEFINE Bad == {t \in S : f[t] # g[t]}
<1>1. SUFFICES ASSUME Bad # {} PROVE FALSE
  OBVIOUS
<1>2. PICK t \in Bad : Dependencies[t] \cap Bad = {}
  <2>1. Bad \in SUBSET Tasks
    OBVIOUS
  <2> HIDE DEF Bad
  <2>2. QED
    BY <1>1, <2>1, TimedRunAssumption DEF Acyclic
<1>3. \A d \in Dependencies[t] : f[d] = g[d]
  BY <1>2
<1>4. {f[d] : d \in Dependencies[t]} = {g[d] : d \in Dependencies[t]}
  BY <1>3
<1>5. Chain(f, a, t) = Chain(g, b, t)
  BY <1>4 DEF Chain
<1>6. QED
  BY <1>5

\* What ChainTo is, for any attempts.
ChainOf(a) == CHOOSE f : f = [t \in Tasks |-> Chain(f, a, t)]

LEMMA ChainOfSolves ==
  ASSUME duration \in [Tasks -> Nat], NEW a \in [Tasks -> Nat]
  PROVE  \A t \in Tasks :
           ChainOf(a)[t] \in Nat /\ ChainOf(a)[t] = Chain(ChainOf(a), a, t)
<1> DEFINE Is(f) == f = [t \in Tasks |-> Chain(f, a, t)]
           c == ChainOf(a)
<1>1. PICK f \in [Tasks -> Nat] : \A t \in Tasks : f[t] = Chain(f, a, t)
  BY ChainsExist
<1>2. Is(f)
  BY <1>1
<1>3. c = CHOOSE g : Is(g)
  BY DEF ChainOf
<1> HIDE DEF c
<1>4. Is(c)
  <2> HIDE DEF Is
  <2>1. QED
    BY <1>2, <1>3
<1>5. \A t \in Tasks : c[t] = Chain(c, a, t)
  BY <1>4
<1>6. \A t \in Tasks : c[t] = f[t]
  <2>1. Closed(Tasks)
    BY TimedRunAssumption DEF Closed
  <2>2. Agree(a, a, Tasks) /\ Solves(c, a) /\ Solves(f, a)
    BY <1>1, <1>5 DEF Agree, Solves
  <2>3. Agree(c, f, Tasks)
    BY <2>1, <2>2, ChainsAgree
  <2>4. QED
    BY <2>3 DEF Agree
<1>7. QED
  BY <1>1, <1>5, <1>6 DEF c

LEMMA ChainToIs ==
  /\ ChainTo = ChainOf(attempts)
  /\ duration' = duration => ChainTo' = ChainOf(attempts')
  BY DEF ChainTo, ChainOf, Chain, Work

-----------------------------------------------------------------------------
(***************************************************************************)
(* The steps of a run.                                                     *)
(***************************************************************************)

LEMMA LaunchIs ==
  ASSUME TimedInvariant, NEW t \in Tasks, LaunchTimed(t)
  PROVE  /\ duration \in [Tasks -> Nat] /\ duration' = duration
         /\ attempts \in [Tasks -> Nat] /\ due \in [Tasks -> Nat]
         /\ now \in Nat /\ now' = now
         /\ state[t] = "Pending"
         /\ \A d \in Dependencies[t] : state[d] = "Completed"
         /\ state' = [state EXCEPT ![t] = "Running"]
         /\ attempts' = [attempts EXCEPT ![t] = @ + 1]
         /\ due' = [due EXCEPT ![t] = now + duration[t]]
  BY DEF LaunchTimed, Launch, Runnable, SleepUntil, TimedInvariant, Types

\* A launch makes the chain of its task longer by one attempt.  All that had what
\* it depends on before keeps its chain.
LEMMA LaunchChains ==
  ASSUME TimedInvariant, NEW t \in Tasks, LaunchTimed(t)
  PROVE  /\ ChainTo'[t] = ChainTo[t] + duration[t]
         /\ \A u \in Tasks \ {t} :
              (\A d \in Dependencies[u] : state[d] = "Completed") =>
                 ChainTo'[u] = ChainTo[u]
<1>1. /\ duration \in [Tasks -> Nat] /\ duration' = duration
      /\ attempts \in [Tasks -> Nat]
      /\ state[t] = "Pending"
      /\ \A d \in Dependencies[t] : state[d] = "Completed"
      /\ attempts' = [attempts EXCEPT ![t] = @ + 1]
  BY LaunchIs
<1>2. \A u \in Tasks : Dependencies[u] \subseteq Tasks
  BY TimedRunAssumption
<1> DEFINE Ready(u) == \A d \in Dependencies[u] : state[d] = "Completed"
           S == {u \in Tasks \ {t} : Ready(u)}
<1>3. \A u \in Tasks : state[u] = "Completed" => u \in S
  <2>1. \A u \in Tasks : state[u] = "Completed" => Ready(u)
    BY DEF TimedInvariant
  <2>2. QED
    BY <1>1, <2>1
<1>4. \A u \in Tasks : Ready(u) => Dependencies[u] \subseteq S
  <2> HIDE DEF S
  <2>1. QED
    BY <1>2, <1>3
<1>5. \A u \in Tasks :
        ChainTo[u] \in Nat /\ ChainTo[u] = Chain(ChainOf(attempts), attempts, u)
  BY <1>1, ChainOfSolves, ChainToIs
<1>6. attempts' \in [Tasks -> Nat]
  BY <1>1
<1>7. \A u \in Tasks :
        /\ ChainTo'[u] \in Nat
        /\ ChainTo'[u] = Chain(ChainOf(attempts'), attempts', u)
  BY <1>1, <1>6, ChainOfSolves, ChainToIs
<1>8. \A u \in S : ChainTo'[u] = ChainTo[u]
  <2>1. Closed(S)
    BY <1>4 DEF Closed
  <2>2. Agree(attempts', attempts, S)
    BY <1>1 DEF Agree
  <2>3. /\ Solves(ChainOf(attempts'), attempts')
        /\ Solves(ChainOf(attempts), attempts)
    BY <1>1, <1>6, ChainOfSolves DEF Solves
  <2> HIDE DEF S
  <2>4. Agree(ChainOf(attempts'), ChainOf(attempts), S)
    BY <2>1, <2>2, <2>3, ChainsAgree
  <2>5. QED
    BY <1>1, <2>4, ChainToIs DEF Agree
<1>9. ChainTo'[t] = ChainTo[t] + duration[t]
  <2> DEFINE M == Max({0} \cup {ChainTo[d] : d \in Dependencies[t]})
             w == attempts[t] * duration[t]
  <2>1. Dependencies[t] \subseteq S /\ Dependencies[t] \in SUBSET Tasks
    BY <1>1, <1>2, <1>3
  <2>2. {ChainTo'[d] : d \in Dependencies[t]} = {ChainTo[d] : d \in Dependencies[t]}
    BY <1>8, <2>1
  <2>3. ChainTo'[t] = attempts'[t] * duration[t] + M
    <3>1. ChainTo'[t] = Chain(ChainTo', attempts', t)
      BY <1>1, <1>7, ChainToIs
    <3>2. QED
      BY <2>2, <3>1 DEF Chain
  <2>4. ChainTo[t] = w + M
    BY <1>5, ChainToIs DEF Chain
  <2>5. \A d \in Dependencies[t] : ChainTo[d] \in Nat
    BY <1>5, <2>1
  <2>6. M \in Nat
    BY <2>1, <2>5, MaxIs
  <2>7. attempts'[t] = attempts[t] + 1 /\ attempts[t] \in Nat /\ duration[t] \in Nat
    BY <1>1
  <2>8. w \in Nat /\ attempts'[t] * duration[t] = w + duration[t]
    BY <2>7, Products
  <2> HIDE DEF w, M
  <2>9. QED
    BY <2>3, <2>4, <2>6, <2>7, <2>8
<1>10. QED
  BY <1>8, <1>9

\* A task whose dependencies have completed has a chain that is no longer than
\* the time that has passed.
LEMMA ReadyChain ==
  ASSUME TimedInvariant, NEW t \in Tasks, state[t] = "Pending",
         \A d \in Dependencies[t] : state[d] = "Completed"
  PROVE  ChainTo[t] \in Nat /\ ChainTo[t] <= now
<1>1. /\ duration \in [Tasks -> Nat] /\ attempts \in [Tasks -> Nat]
      /\ now \in Nat /\ Dependencies[t] \in SUBSET Tasks
  BY TimedRunAssumption DEF TimedInvariant, Types
<1>2. \A u \in Tasks :
        ChainTo[u] \in Nat /\ ChainTo[u] = Chain(ChainOf(attempts), attempts, u)
  BY <1>1, ChainOfSolves, ChainToIs
<1>3. CASE attempts[t] # 0
  BY <1>2, <1>3 DEF TimedInvariant
<1>4. CASE attempts[t] = 0
  <2> DEFINE M == Max({0} \cup {ChainTo[d] : d \in Dependencies[t]})
  <2>1. \A d \in Dependencies[t] : ChainTo[d] \in Nat /\ ChainTo[d] <= now
    <3>1. \A d \in Dependencies[t] : state[d] = "Completed" /\ attempts[d] # 0
      BY <1>1 DEF TimedInvariant
    <3>2. QED
      BY <1>1, <1>2, <3>1 DEF TimedInvariant
  <2>2. M \in Nat /\ (M = 0 \/ \E d \in Dependencies[t] : M = ChainTo[d])
    BY <1>1, <2>1, MaxIs
  <2>3. ChainTo[t] = attempts[t] * duration[t] + M
    BY <1>2, ChainToIs DEF Chain
  <2>4. duration[t] \in Nat /\ attempts[t] * duration[t] = 0
    BY <1>1, <1>4, Products
  <2> HIDE DEF M
  <2>5. QED
    BY <1>1, <1>2, <2>1, <2>2, <2>3, <2>4
<1>5. QED
  BY <1>3, <1>4

LEMMA LaunchKeeps ==
  ASSUME TimedInvariant, NEW t \in Tasks, LaunchTimed(t)
  PROVE  TimedInvariant'
<1>1. /\ duration \in [Tasks -> Nat] /\ duration' = duration
      /\ attempts \in [Tasks -> Nat] /\ due \in [Tasks -> Nat]
      /\ now \in Nat /\ now' = now
      /\ state[t] = "Pending"
      /\ \A d \in Dependencies[t] : state[d] = "Completed"
      /\ state' = [state EXCEPT ![t] = "Running"]
      /\ attempts' = [attempts EXCEPT ![t] = @ + 1]
      /\ due' = [due EXCEPT ![t] = now + duration[t]]
  BY LaunchIs
<1>2. Types'
  BY <1>1 DEF TimedInvariant, Types
<1>3. \A u \in Tasks : Dependencies[u] \subseteq Tasks
  BY TimedRunAssumption
<1>4. \A u \in Tasks \ {t} : attempts[u] # 0 => ChainTo'[u] = ChainTo[u]
  BY LaunchChains DEF TimedInvariant
<1>5. ChainTo'[t] <= now + duration[t]
  <2>1. ChainTo[t] \in Nat /\ ChainTo[t] <= now /\ duration[t] \in Nat
    BY <1>1, ReadyChain
  <2>2. ChainTo'[t] = ChainTo[t] + duration[t]
    BY LaunchChains
  <2>3. QED
    BY <1>1, <2>1, <2>2
<1>6. ASSUME NEW u \in Tasks
       PROVE  /\ state'[u] \in {"Running", "Completed"} => attempts'[u] # 0
              /\ attempts'[u] # 0 =>
                   \A d \in Dependencies[u] : state'[d] = "Completed"
              /\ state'[u] = "Running" => ChainTo'[u] <= due'[u]
              /\ state'[u] \in {"Pending", "Completed"} /\ attempts'[u] # 0 =>
                   ChainTo'[u] <= now'
  <2>1. ASSUME NEW d \in Dependencies[u], state[d] = "Completed"
        PROVE  state'[d] = "Completed"
    BY <1>1, <1>3, <2>1
  <2>2. CASE u = t
    <3>1. /\ state'[u] = "Running" /\ attempts'[u] = attempts[t] + 1
          /\ due'[u] = now + duration[t] /\ attempts[t] + 1 # 0
      BY <1>1, <2>2 DEF TimedInvariant, Types
    <3>2. QED
      BY <1>1, <1>5, <2>1, <2>2, <3>1
  <2>3. CASE u # t
    <3>1. /\ state'[u] = state[u] /\ attempts'[u] = attempts[u]
          /\ due'[u] = due[u]
      BY <1>1, <2>3 DEF TimedInvariant, Types
    <3>2. attempts[u] # 0 => ChainTo'[u] = ChainTo[u]
      BY <1>4, <2>3
    <3>3. state[u] = "Running" => attempts[u] # 0
      BY DEF TimedInvariant
    <3>4. QED
      BY <1>1, <2>1, <3>1, <3>2, <3>3 DEF TimedInvariant
  <2>4. QED
    BY <2>2, <2>3
<1>7. QED
  BY <1>2, <1>6 DEF TimedInvariant

\* Nothing downstream of a task that has not completed has been started.
LEMMA DownstreamNotStarted ==
  ASSUME TimedInvariant, NEW t \in Tasks, state[t] # "Completed"
  PROVE  \A u \in Downstream(t) : u \in Tasks /\ attempts[u] = 0
<1> DEFINE D == {u \in Tasks : attempts[u] = 0}
<1>1. \A u \in Tasks : Dependencies[u] \subseteq Tasks
  BY TimedRunAssumption
<1>2. ASSUME NEW u \in Tasks, Dependencies[u] \cap ({t} \cup D) # {}
      PROVE  u \in D
  <2>1. PICK d \in Dependencies[u] : d = t \/ d \in D
    BY <1>2
  <2>2. state[d] # "Completed"
    BY <1>1, <2>1 DEF TimedInvariant
  <2>3. QED
    BY <2>1, <2>2 DEF TimedInvariant
<1>3. ClosedUnderDependents(D, {t}, Tasks)
  BY <1>2 DEF ClosedUnderDependents
<1>4. D \in SUBSET Tasks
  OBVIOUS
<1> HIDE DEF D
<1>5. \A u \in Downstream(t) : u \in Tasks /\ u \in D
  BY <1>3, <1>4 DEF Downstream, ReachedFrom
<1>6. QED
  BY <1>5 DEF D

LEMMA FinishKeeps ==
  ASSUME TimedInvariant, NEW t \in Tasks, Finish(t)
  PROVE  TimedInvariant'
<1>1. /\ now \in Nat /\ now' = now /\ now >= due[t]
      /\ due' = due /\ duration' = duration /\ attempts' = attempts
      /\ due \in [Tasks -> Nat] /\ duration \in [Tasks -> Nat]
      /\ attempts \in [Tasks -> Nat]
      /\ state[t] = "Running" /\ attempts[t] # 0
      /\ state \in [Tasks -> {"Pending", "Running", "Completed", "Failed",
                             "Cancelled"}]
  BY DEF Finish, Succeed, Retry, Fail, TimedInvariant, Types
<1>2. \A u \in Tasks : Dependencies[u] \subseteq Tasks
  BY TimedRunAssumption
<1>3. \A u \in Tasks : ChainTo'[u] = ChainTo[u] /\ ChainTo[u] \in Nat
  BY <1>1, ChainToIs, ChainOfSolves
<1>4. ChainTo[t] <= now
  <2>1. ChainTo[t] \in Nat /\ ChainTo[t] <= due[t] /\ due[t] \in Nat
    BY <1>1, <1>3 DEF TimedInvariant
  <2>2. QED
    BY <1>1, <2>1
<1>5. CASE Succeed(t) \/ Retry(t)
  <2>1. PICK s \in {"Completed", "Pending"} : state' = [state EXCEPT ![t] = s]
    BY <1>5 DEF Succeed, Retry
  <2>2. Types'
    BY <1>1, <2>1 DEF Types
  <2>3. \A u \in Tasks : state[u] = "Completed" => state'[u] = "Completed"
    BY <1>1, <2>1
  <2>4. /\ state'[t] = s
        /\ \A u \in Tasks : u # t => state'[u] = state[u]
    BY <1>1, <2>1
  <2>5. QED
    BY <1>1, <1>2, <1>3, <1>4, <2>2, <2>3, <2>4 DEF TimedInvariant
<1>6. CASE Fail(t)
  <2>1. state' = [u \in Tasks |-> IF u = t THEN "Failed"
                                 ELSE IF u \in Downstream(t) THEN "Cancelled"
                                 ELSE state[u]]
    BY <1>6 DEF Fail
  <2>2. Types'
    BY <1>1, <2>1 DEF Types
  <2>3. \A u \in Downstream(t) : u \in Tasks /\ attempts[u] = 0
    BY <1>1, DownstreamNotStarted
  <2>4. \A u \in Tasks : state[u] = "Completed" => state'[u] = "Completed"
    BY <1>1, <2>1, <2>3 DEF TimedInvariant
  <2>5. \A u \in Tasks : state'[u] \in {"Pending", "Running", "Completed"} =>
          state'[u] = state[u]
    BY <2>1
  <2>6. QED
    BY <1>1, <1>2, <1>3, <2>2, <2>4, <2>5 DEF TimedInvariant
<1>7. QED
  BY <1>5, <1>6 DEF Finish

LEMMA TickKeeps ==
  ASSUME TimedInvariant,
         now' \in Nat, now <= now', UNCHANGED <<runVars, duration, due>>
  PROVE  TimedInvariant'
<1>1. /\ state' = state /\ attempts' = attempts
      /\ duration' = duration /\ due' = due /\ now \in Nat
      /\ duration \in [Tasks -> Nat] /\ attempts \in [Tasks -> Nat]
  BY DEF runVars, TimedInvariant, Types
<1>2. \A u \in Tasks : ChainTo'[u] = ChainTo[u] /\ ChainTo[u] \in Nat
  BY <1>1, ChainToIs, ChainOfSolves
<1>3. Types'
  BY <1>1 DEF TimedInvariant, Types
<1>4. \A u \in Tasks : ChainTo[u] <= now => ChainTo[u] <= now'
  BY <1>1, <1>2
<1>5. QED
  BY <1>1, <1>2, <1>3, <1>4 DEF TimedInvariant

LEMMA InitTimedInvariant == Init => TimedInvariant
<1> SUFFICES ASSUME Init PROVE TimedInvariant
  OBVIOUS
<1>1. /\ duration \in [Tasks -> Nat]
      /\ state = [t \in Tasks |-> "Pending"]
      /\ attempts = [t \in Tasks |-> 0]
      /\ due = [t \in Tasks |-> 0]
      /\ now = 0
  BY TimedRunAssumption DEF Init
<1>2. QED
  BY <1>1 DEF TimedInvariant, Types

\* A started task has waited for its dependencies, so the chain that ends with it
\* is covered by the clock.
THEOREM TimedInvariantHolds == Spec => []TimedInvariant
<1>1. TimedInvariant /\ [Next]_vars => TimedInvariant'
  <2> SUFFICES ASSUME TimedInvariant, [Next]_vars PROVE TimedInvariant'
    OBVIOUS
  <2>1. ASSUME NEW t \in Tasks, LaunchTimed(t) PROVE TimedInvariant'
    BY <2>1, LaunchKeeps
  <2>2. ASSUME NEW t \in Tasks, Finish(t) PROVE TimedInvariant'
    BY <2>2, FinishKeeps
  <2>3. now \in Nat
    BY DEF TimedInvariant, Types
  <2>4. CASE Tick
    BY <2>3, <2>4, TickKeeps DEF Tick
  <2>5. CASE UNCHANGED vars
    BY <2>3, <2>5, TickKeeps DEF vars
  <2>6. QED
    BY <2>1, <2>2, <2>4, <2>5 DEF Next, Ended
<1>2. QED
  BY <1>1, InitTimedInvariant, PTL DEF Spec

\* A run never beats the critical path: the longest chain of what has completed
\* takes at least as long, however many workers there are.
THEOREM NoFasterThanCriticalPathHolds == Spec => []NoFasterThanCriticalPath
<1>1. TimedInvariant => NoFasterThanCriticalPath
  BY DEF TimedInvariant, NoFasterThanCriticalPath
<1>2. QED
  BY <1>1, TimedInvariantHolds, PTL

-----------------------------------------------------------------------------
(***************************************************************************)
(* The bound of list scheduling.  Cells(g) holds g[t] cells for each task, *)
(* so that sums over the tasks are cardinalities.                          *)
(***************************************************************************)
Cells(g) == UNION {{t} \X (1 .. g[t]) : t \in Tasks}

LEMMA CellsAreFinite ==
  ASSUME NEW g \in [Tasks -> Nat]
  PROVE  IsFiniteSet(Cells(g)) /\ Cardinality(Cells(g)) \in Nat
<1> DEFINE T == {{t} \X (1 .. g[t]) : t \in Tasks}
           f == [t \in Tasks |-> {t} \X (1 .. g[t])]
<1>1. IsFiniteSet(Tasks)
  BY TimedRunAssumption, FS_Interval DEF Tasks
<1>2. \A t \in Tasks : IsFiniteSet({t} \X (1 .. g[t]))
  <2> SUFFICES ASSUME NEW t \in Tasks PROVE IsFiniteSet({t} \X (1 .. g[t]))
    OBVIOUS
  <2>1. IsFiniteSet({t}) /\ IsFiniteSet(1 .. g[t])
    <3>1. 1 \in Int /\ g[t] \in Int
      OBVIOUS
    <3>2. QED
      BY <3>1, FS_Singleton, FS_Interval
  <2>2. QED
    BY <2>1, FS_Product
<1>3. IsFiniteSet(T)
  <2>1. f \in [Tasks -> T] /\ \A y \in T : \E t \in Tasks : f[t] = y
    OBVIOUS
  <2>2. f \in Surjection(Tasks, T)
    BY <2>1, Fun_IsSurj
  <2>3. QED
    BY <1>1, <2>2, FS_Surjection
<1>4. \A X \in T : IsFiniteSet(X)
  BY <1>2
<1>5. IsFiniteSet(UNION T)
  <2> HIDE DEF T
  <2>1. QED
    BY <1>3, <1>4, FS_UNION
<1>6. QED
  BY <1>5, FS_CardinalityType DEF Cells

\* When the number of a task goes down nowhere, and up for the members of R, the
\* sum goes up by as much at least as R has members.
LEMMA CellsGrow ==
  ASSUME NEW g \in [Tasks -> Nat], NEW h \in [Tasks -> Nat], NEW R \in SUBSET Tasks,
         \A t \in Tasks : g[t] <= h[t],
         \A t \in R : g[t] + 1 <= h[t]
  PROVE  /\ Cardinality(R) \in Nat
         /\ Cardinality(Cells(g)) + Cardinality(R) <= Cardinality(Cells(h))
<1> DEFINE E == {<<t, g[t] + 1>> : t \in R}
           f == [t \in R |-> <<t, g[t] + 1>>]
<1>1. IsFiniteSet(R) /\ Cardinality(R) \in Nat
  <2>1. IsFiniteSet(Tasks)
    BY TimedRunAssumption, FS_Interval DEF Tasks
  <2>2. QED
    BY <2>1, FS_Subset, FS_CardinalityType
<1>2. IsFiniteSet(E) /\ Cardinality(E) = Cardinality(R)
  <2>1. f \in [R -> E] /\ \A y \in E : \E t \in R : f[t] = y
    OBVIOUS
  <2>2. \A t, u \in R : f[t] = f[u] => t = u
    OBVIOUS
  <2>3. f \in Bijection(R, E)
    BY <2>1, <2>2, Fun_IsBij
  <2>4. ExistsBijection(R, E)
    BY <2>3 DEF ExistsBijection
  <2>5. QED
    BY <1>1, <2>4, FS_Bijection
<1>3. Cells(g) \cap E = {}
  <2>1. ASSUME NEW t \in Tasks, NEW u \in R,
               <<u, g[u] + 1>> \in {t} \X (1 .. g[t])
        PROVE  FALSE
    <3>1. u = t /\ g[t] \in Nat /\ g[t] + 1 <= g[t]
      BY <2>1
    <3>2. QED
      BY <3>1
  <2>2. QED
    BY <2>1 DEF Cells
<1>4. Cells(g) \cup E \subseteq Cells(h)
  <2>1. ASSUME NEW t \in Tasks, NEW i \in 1 .. g[t] PROVE <<t, i>> \in Cells(h)
    <3>1. i \in 1 .. h[t]
      <4>1. g[t] \in Nat /\ h[t] \in Nat /\ g[t] <= h[t]
        OBVIOUS
      <4>2. QED
        BY <4>1
    <3>2. QED
      BY <3>1 DEF Cells
  <2>2. Cells(g) \subseteq Cells(h)
    BY <2>1 DEF Cells
  <2>3. ASSUME NEW t \in R PROVE <<t, g[t] + 1>> \in Cells(h)
    <3>1. g[t] + 1 \in 1 .. h[t] /\ t \in Tasks
      <4>1. t \in Tasks /\ g[t] \in Nat /\ h[t] \in Nat /\ g[t] + 1 <= h[t]
        OBVIOUS
      <4>2. QED
        BY <4>1
    <3>2. QED
      BY <3>1 DEF Cells
  <2>4. QED
    BY <2>2, <2>3
<1>5. IsFiniteSet(Cells(g)) /\ IsFiniteSet(Cells(h))
      /\ Cardinality(Cells(g)) \in Nat /\ Cardinality(Cells(h)) \in Nat
  BY CellsAreFinite
<1> HIDE DEF E
<1>6. Cardinality(Cells(g) \cup E) = Cardinality(Cells(g)) + Cardinality(R)
  <2>1. Cardinality(Cells(g) \cup E)
          = Cardinality(Cells(g)) + Cardinality(E) - Cardinality(Cells(g) \cap E)
    BY <1>2, <1>5, FS_Union
  <2>2. Cardinality(Cells(g) \cap E) = 0
    BY <1>3, FS_EmptySet
  <2>3. QED
    BY <1>1, <1>2, <1>5, <2>1, <2>2
<1>7. Cardinality(Cells(g) \cup E) <= Cardinality(Cells(h))
  BY <1>4, <1>5, FS_Subset
<1>8. QED
  BY <1>1, <1>6, <1>7

LEMMA Scaled ==
  ASSUME NEW k \in Nat, NEW a \in Nat, NEW b \in Nat, a <= b
  PROVE  k * a \in Nat /\ k * b \in Nat /\ k * a <= k * b
  OBVIOUS

\* How long t has still to sleep, and how much of its work is done.
Rest(t) == IF state[t] = "Running" /\ now < due[t] THEN due[t] - now ELSE 0
Done == [t \in Tasks |-> Work(t) - Rest(t)]

\* Up to now there have been idle ticks in which a worker had nothing to do.  In
\* each of them every running task slept, and one of them ends the chain that
\* everything not yet launched has to wait for.
Share(idle) ==
  /\ WorkerCount * (now - delayed)
       <= Cardinality(Cells(Done)) + (WorkerCount - 1) * idle
  /\ idle = 0 \/ \E t \in Tasks : attempts[t] # 0 /\ idle <= ChainTo[t]
  /\ \A t \in Tasks : state[t] = "Running" => idle + Rest(t) <= ChainTo[t]
  /\ \A t \in Tasks : Runnable(t) => idle <= ChainTo[t]

ShareInvariant ==
  /\ delayed \in Nat /\ delayed <= now
  /\ \A t \in Tasks : state[t] = "Running" => due[t] <= now + Work(t)
  /\ \A t \in Tasks : \A d \in Dependencies[t] :
       state[d] \in {"Failed", "Cancelled"} => state[t] \notin {"Pending", "Running"}
  /\ \E idle \in Nat : Share(idle)

LEMMA Numbers ==
  ASSUME TimedInvariant, ShareInvariant
  PROVE  /\ Done \in [Tasks -> Nat]
         /\ now \in Nat /\ delayed \in Nat /\ now - delayed \in Nat
         /\ WorkerCount \in Nat /\ WorkerCount - 1 \in Nat
         /\ Cardinality(Cells(Done)) \in Nat
         /\ \A t \in Tasks :
              /\ Work(t) \in Nat /\ Rest(t) \in Nat /\ due[t] \in Nat
              /\ ChainTo[t] \in Nat
              /\ Done[t] = Work(t) - Rest(t)
<1>1. /\ duration \in [Tasks -> Nat] /\ attempts \in [Tasks -> Nat]
      /\ due \in [Tasks -> Nat] /\ now \in Nat /\ delayed \in Nat /\ delayed <= now
      /\ WorkerCount \in Nat \ {0}
  BY TimedRunAssumption DEF TimedInvariant, ShareInvariant, Types
<1>2. \A t \in Tasks : Work(t) \in Nat
  BY <1>1, Products DEF Work
<1>3. ASSUME NEW t \in Tasks
      PROVE  Rest(t) \in Nat /\ Rest(t) <= Work(t) /\ due[t] \in Nat
  <2>1. due[t] \in Nat /\ Work(t) \in Nat
    BY <1>1, <1>2
  <2>2. state[t] = "Running" => due[t] <= now + Work(t)
    BY DEF ShareInvariant
  <2>3. QED
    BY <1>1, <2>1, <2>2 DEF Rest
<1>4. \A t \in Tasks : ChainTo[t] \in Nat
  BY <1>1, ChainOfSolves, ChainToIs
<1>5. \A t \in Tasks : Work(t) - Rest(t) \in Nat
  BY <1>2, <1>3
<1>6. Done \in [Tasks -> Nat]
  BY <1>5 DEF Done
<1>7. Cardinality(Cells(Done)) \in Nat
  BY <1>6, CellsAreFinite
<1>8. QED
  BY <1>1, <1>2, <1>3, <1>4, <1>6, <1>7 DEF Done

\* A chain is no shorter than the chain of what its last task depends on.
LEMMA ChainsExtend ==
  ASSUME duration \in [Tasks -> Nat], attempts \in [Tasks -> Nat],
         NEW t \in Tasks, NEW d \in Dependencies[t]
  PROVE  ChainTo[d] <= ChainTo[t]
<1> DEFINE M == Max({0} \cup {ChainTo[x] : x \in Dependencies[t]})
           w == attempts[t] * duration[t]
<1>1. \A u \in Tasks :
        ChainTo[u] \in Nat /\ ChainTo[u] = Chain(ChainOf(attempts), attempts, u)
  BY ChainOfSolves, ChainToIs
<1>2. Dependencies[t] \in SUBSET Tasks
  BY TimedRunAssumption
<1>3. M \in Nat /\ ChainTo[d] <= M
  BY <1>1, <1>2, MaxIs
<1>4. ChainTo[t] = w + M
  BY <1>1, ChainToIs DEF Chain
<1>5. w \in Nat
  BY Products
<1> HIDE DEF w, M
<1>6. QED
  BY <1>1, <1>2, <1>3, <1>4, <1>5

LEMMA DownstreamClosed ==
  ASSUME NEW t \in Tasks, NEW u \in Tasks, NEW d \in Dependencies[u],
         d = t \/ d \in Downstream(t)
  PROVE  u \in Downstream(t)
<1>1. ASSUME NEW D \in SUBSET Tasks, ClosedUnderDependents(D, {t}, Tasks)
      PROVE  u \in D
  BY <1>1 DEF ClosedUnderDependents, Downstream, ReachedFrom
<1>2. QED
  BY <1>1 DEF Downstream, ReachedFrom

\* A launch does no work yet: the work of its task and the time it has still to
\* sleep grow by the same.
LEMMA LaunchShares ==
  ASSUME TimedInvariant, ShareInvariant, NEW t \in Tasks, LaunchTimed(t)
  PROVE  ShareInvariant'
<1>1. /\ duration \in [Tasks -> Nat] /\ duration' = duration
      /\ attempts \in [Tasks -> Nat] /\ due \in [Tasks -> Nat]
      /\ now \in Nat /\ now' = now
      /\ state[t] = "Pending"
      /\ \A d \in Dependencies[t] : state[d] = "Completed"
      /\ state' = [state EXCEPT ![t] = "Running"]
      /\ attempts' = [attempts EXCEPT ![t] = @ + 1]
      /\ due' = [due EXCEPT ![t] = now + duration[t]]
  BY LaunchIs
<1>2. delayed' = delayed /\ Runnable(t)
  BY DEF LaunchTimed, Launch
<1>3. state \in [Tasks -> {"Pending", "Running", "Completed", "Failed",
                           "Cancelled"}]
  BY DEF TimedInvariant, Types
<1>4. \A u \in Tasks :
        /\ Work(u) \in Nat /\ Rest(u) \in Nat /\ due[u] \in Nat
        /\ ChainTo[u] \in Nat /\ duration[u] \in Nat
  BY <1>1, Numbers
<1>5. \A u \in Tasks \ {t} :
        /\ state'[u] = state[u] /\ attempts'[u] = attempts[u]
        /\ due'[u] = due[u] /\ duration'[u] = duration[u]
        /\ Work(u)' = Work(u) /\ Rest(u)' = Rest(u)
  BY <1>1, <1>3 DEF Work, Rest
<1>6. /\ state'[t] = "Running" /\ attempts'[t] = attempts[t] + 1
      /\ due'[t] = now + duration[t] /\ attempts'[t] # 0
  BY <1>1, <1>3
<1>7. Work(t)' = Work(t) + duration[t]
  BY <1>1, <1>6, Products DEF Work
<1>8. Rest(t) = 0 /\ Rest(t)' = duration[t]
  BY <1>1, <1>4, <1>6 DEF Rest
<1>9. Done' = Done
  <2>1. \A u \in Tasks : Work(u)' - Rest(u)' = Work(u) - Rest(u)
    BY <1>4, <1>5, <1>7, <1>8
  <2>2. QED
    BY <2>1 DEF Done
<1>10. \A u \in Tasks \ {t} :
         attempts[u] # 0 \/ Runnable(u) => ChainTo'[u] = ChainTo[u]
  BY LaunchChains DEF TimedInvariant, Runnable
<1>11. ChainTo'[t] = ChainTo[t] + duration[t]
  BY LaunchChains
<1>12. \A u \in Tasks : Runnable(u)' => u # t /\ Runnable(u)
  BY <1>1, <1>3, <1>5, <1>6, TimedRunAssumption DEF Runnable
<1>13. PICK idle \in Nat : Share(idle)
  BY DEF ShareInvariant
<1>14. Share(idle)'
  <2>1. WorkerCount * (now' - delayed')
          <= Cardinality(Cells(Done')) + (WorkerCount - 1) * idle
    BY <1>1, <1>2, <1>9, <1>13 DEF Share
  <2>2. idle = 0 \/ \E u \in Tasks : attempts'[u] # 0 /\ idle <= ChainTo'[u]
    <3>1. ASSUME NEW u \in Tasks, attempts[u] # 0, idle <= ChainTo[u]
          PROVE  attempts'[u] # 0 /\ idle <= ChainTo'[u]
      BY <1>4, <1>5, <1>6, <1>10, <1>11, <3>1
    <3>2. QED
      BY <1>13, <3>1 DEF Share
  <2>3. ASSUME NEW u \in Tasks, state'[u] = "Running"
        PROVE  idle + Rest(u)' <= ChainTo'[u]
    <3>1. CASE u = t
      <4>1. idle <= ChainTo[t]
        BY <1>2, <1>13 DEF Share
      <4>2. QED
        BY <1>4, <1>8, <1>11, <3>1, <4>1
    <3>2. CASE u # t
      <4>1. state[u] = "Running" /\ attempts[u] # 0
        BY <1>5, <2>3, <3>2 DEF TimedInvariant
      <4>2. QED
        BY <1>5, <1>10, <1>13, <3>2, <4>1 DEF Share
    <3>3. QED
      BY <3>1, <3>2
  <2>4. \A u \in Tasks : Runnable(u)' => idle <= ChainTo'[u]
    BY <1>10, <1>12, <1>13 DEF Share
  <2>5. QED
    BY <2>1, <2>2, <2>3, <2>4 DEF Share
<1>15. \A u \in Tasks : state'[u] = "Running" => due'[u] <= now' + Work(u)'
  <2>1. \A u \in Tasks \ {t} : state[u] = "Running" => due[u] <= now + Work(u)
    BY DEF ShareInvariant
  <2>2. due'[t] <= now' + Work(t)'
    BY <1>1, <1>4, <1>6, <1>7
  <2>3. QED
    BY <1>1, <1>5, <2>1, <2>2
<1>16. \A u \in Tasks : \A d \in Dependencies[u] :
         state'[d] \in {"Failed", "Cancelled"} =>
           state'[u] \notin {"Pending", "Running"}
  <2>1. ASSUME NEW u \in Tasks, NEW d \in Dependencies[u],
               state'[d] \in {"Failed", "Cancelled"}
        PROVE  state'[u] \notin {"Pending", "Running"}
    <3>1. d \in Tasks /\ d # t /\ state[d] \in {"Failed", "Cancelled"}
      BY <1>5, <1>6, <2>1, TimedRunAssumption
    <3>2. u # t
      BY <1>1, <3>1
    <3>3. QED
      BY <1>5, <3>1, <3>2 DEF ShareInvariant
  <2>2. QED
    BY <2>1
<1>17. QED
  BY <1>1, <1>2, <1>14, <1>15, <1>16 DEF ShareInvariant

\* A sleep that is over leaves nothing to do.  What becomes runnable waited for t,
\* or is t again.
LEMMA FinishShares ==
  ASSUME TimedInvariant, ShareInvariant, NEW t \in Tasks, Finish(t)
  PROVE  ShareInvariant'
<1>1. /\ now \in Nat /\ now' = now /\ now >= due[t] /\ delayed' = delayed
      /\ due' = due /\ duration' = duration /\ attempts' = attempts
      /\ due \in [Tasks -> Nat] /\ duration \in [Tasks -> Nat]
      /\ attempts \in [Tasks -> Nat]
      /\ state[t] = "Running" /\ attempts[t] # 0
      /\ state \in [Tasks -> {"Pending", "Running", "Completed", "Failed",
                             "Cancelled"}]
  BY DEF Finish, Succeed, Retry, Fail, TimedInvariant, Types
<1>2. \A u \in Tasks :
        /\ Work(u) \in Nat /\ Rest(u) \in Nat /\ due[u] \in Nat
        /\ ChainTo[u] \in Nat
        /\ Dependencies[u] \in SUBSET Tasks
  BY Numbers, TimedRunAssumption
<1>3. \A u \in Tasks : Work(u)' = Work(u) /\ ChainTo'[u] = ChainTo[u]
  <2>1. ChainTo' = ChainTo
    BY <1>1, ChainToIs
  <2>2. QED
    BY <1>1, <2>1 DEF Work
\* A step changes nothing about the tasks that run, except for t.
<1>4. /\ state'[t] # "Running"
      /\ \A u \in Tasks \ {t} :
           /\ state'[u] = "Running" <=> state[u] = "Running"
           /\ state'[u] = "Pending" => state[u] = "Pending"
           /\ state'[u] = "Completed" => state[u] = "Completed"
      /\ \A u \in Tasks : \A d \in Dependencies[u] :
           state'[d] \in {"Failed", "Cancelled"} =>
             state'[u] \notin {"Pending", "Running"}
  <2>1. CASE Succeed(t) \/ Retry(t)
    <3>1. PICK s \in {"Completed", "Pending"} : state' = [state EXCEPT ![t] = s]
      BY <2>1 DEF Succeed, Retry
    <3>2. /\ state'[t] = s
          /\ \A u \in Tasks : u # t => state'[u] = state[u]
      BY <1>1, <3>1
    <3>3. ASSUME NEW u \in Tasks, NEW d \in Dependencies[u],
                 state'[d] \in {"Failed", "Cancelled"}
          PROVE  state'[u] \notin {"Pending", "Running"}
      <4>1. d \in Tasks /\ state[d] \in {"Failed", "Cancelled"}
        BY <1>2, <3>2, <3>3
      <4>2. state[u] \notin {"Pending", "Running"}
        BY <4>1 DEF ShareInvariant
      <4>3. QED
        BY <1>1, <3>2, <4>2
    <3>4. QED
      BY <3>2, <3>3
  <2>2. CASE Fail(t)
    <3>1. state' = [u \in Tasks |-> IF u = t THEN "Failed"
                                   ELSE IF u \in Downstream(t) THEN "Cancelled"
                                   ELSE state[u]]
      BY <2>2 DEF Fail
    <3>2. \A u \in Downstream(t) : u \in Tasks /\ attempts[u] = 0
      BY <1>1, DownstreamNotStarted
    <3>3. \A u \in Downstream(t) : state[u] # "Running"
      BY <3>2 DEF TimedInvariant
    <3>4. ASSUME NEW u \in Tasks, NEW d \in Dependencies[u],
                 state'[d] \in {"Failed", "Cancelled"}
          PROVE  state'[u] \notin {"Pending", "Running"}
      <4>1. CASE d = t \/ d \in Downstream(t)
        <5>1. u \in Downstream(t)
          BY <4>1, DownstreamClosed
        <5>2. QED
          BY <3>1, <5>1
      <4>2. CASE ~(d = t \/ d \in Downstream(t))
        <5>1. state[d] \in {"Failed", "Cancelled"}
          BY <1>2, <3>1, <3>4, <4>2
        <5>2. state[u] \notin {"Pending", "Running"}
          BY <5>1 DEF ShareInvariant
        <5>3. QED
          BY <3>1, <5>2
      <4>3. QED
        BY <4>1, <4>2
    <3>5. QED
      BY <3>1, <3>3, <3>4
  <2>3. QED
    BY <2>1, <2>2 DEF Finish
<1>5. \A u \in Tasks : Rest(u)' = Rest(u)
  <2>1. Rest(t) = 0 /\ Rest(t)' = 0
    BY <1>1, <1>2, <1>4 DEF Rest
  <2>2. \A u \in Tasks \ {t} : Rest(u)' = Rest(u)
    BY <1>1, <1>4 DEF Rest
  <2>3. QED
    BY <2>1, <2>2
<1>6. Done' = Done
  BY <1>3, <1>5 DEF Done
<1>7. PICK idle \in Nat : Share(idle)
  BY DEF ShareInvariant
<1>8. idle <= ChainTo[t]
  <2>1. idle + Rest(t) <= ChainTo[t]
    BY <1>1, <1>7 DEF Share
  <2>2. QED
    BY <1>2, <2>1
<1>9. ASSUME NEW u \in Tasks, Runnable(u)' PROVE idle <= ChainTo[u]
  <2>1. CASE u = t
    BY <1>8, <2>1
  <2>2. CASE t \in Dependencies[u]
    BY <1>1, <1>2, <1>8, <2>2, ChainsExtend
  <2>3. CASE u # t /\ t \notin Dependencies[u]
    <3>1. Runnable(u)
      BY <1>2, <1>4, <1>9, <2>3 DEF Runnable
    <3>2. QED
      BY <1>7, <3>1 DEF Share
  <2>4. QED
    BY <2>1, <2>2, <2>3
<1>10. Share(idle)'
  <2>1. WorkerCount * (now' - delayed')
          <= Cardinality(Cells(Done')) + (WorkerCount - 1) * idle
    BY <1>1, <1>6, <1>7 DEF Share
  <2>2. idle = 0 \/ \E u \in Tasks : attempts'[u] # 0 /\ idle <= ChainTo'[u]
    BY <1>1, <1>3, <1>7 DEF Share
  <2>3. \A u \in Tasks : state'[u] = "Running" => idle + Rest(u)' <= ChainTo'[u]
    BY <1>3, <1>4, <1>5, <1>7 DEF Share
  <2>4. \A u \in Tasks : Runnable(u)' => idle <= ChainTo'[u]
    BY <1>3, <1>9
  <2>5. QED
    BY <2>1, <2>2, <2>3, <2>4 DEF Share
<1>11. \A u \in Tasks : state'[u] = "Running" => due'[u] <= now' + Work(u)'
  BY <1>1, <1>3, <1>4 DEF ShareInvariant
<1>12. delayed' \in Nat /\ delayed' <= now'
  BY <1>1 DEF ShareInvariant
<1>13. QED
  BY <1>4, <1>10, <1>11, <1>12 DEF ShareInvariant

\* While the run is not over, a task runs or one can be launched.
LEMMA SomethingRuns ==
  ASSUME TimedInvariant, ShareInvariant, ~Over, \A t \in Tasks : ~Runnable(t)
  PROVE  \E t \in Tasks : state[t] = "Running"
<1> DEFINE S == {t \in Tasks : state[t] = "Pending"}
<1> SUFFICES ASSUME \A t \in Tasks : state[t] # "Running" PROVE FALSE
  OBVIOUS
<1>1. S # {}
  BY DEF Over
<1>2. PICK t \in S : Dependencies[t] \cap S = {}
  BY <1>1, TimedRunAssumption DEF Acyclic
<1>3. \A d \in Dependencies[t] : d \in Tasks /\ state[d] # "Pending"
  BY <1>2, TimedRunAssumption
<1>4. \A d \in Dependencies[t] : state[d] \notin {"Failed", "Cancelled"}
  BY <1>2 DEF ShareInvariant
<1>5. \A d \in Dependencies[t] : state[d] = "Completed"
  BY <1>3, <1>4 DEF TimedInvariant, Types
<1>6. QED
  BY <1>2, <1>5 DEF Runnable

LEMMA Distributes ==
  ASSUME NEW k \in Nat, NEW a \in Nat
  PROVE  k * a \in Nat /\ k * (a + 1) = k * a + k
  OBVIOUS

\* A tick in which nothing is slept through is a delay; else every running task
\* gets one unit done, and either every worker has one or a chain gets along.
LEMMA TickShares ==
  ASSUME TimedInvariant, ShareInvariant, Tick
  PROVE  ShareInvariant'
<1>1. /\ now' = now + 1 /\ ~Over
      /\ delayed' = IF Asleep THEN delayed ELSE delayed + 1
      /\ state' = state /\ attempts' = attempts
      /\ due' = due /\ duration' = duration
  BY DEF Tick, runVars
<1>2. /\ duration \in [Tasks -> Nat] /\ attempts \in [Tasks -> Nat]
      /\ delayed <= now
  BY DEF TimedInvariant, ShareInvariant, Types
<1>3. /\ Done \in [Tasks -> Nat]
      /\ now \in Nat /\ delayed \in Nat /\ now - delayed \in Nat
      /\ WorkerCount \in Nat /\ WorkerCount - 1 \in Nat
      /\ Cardinality(Cells(Done)) \in Nat
      /\ \A t \in Tasks :
           /\ Work(t) \in Nat /\ Rest(t) \in Nat /\ due[t] \in Nat
           /\ ChainTo[t] \in Nat
           /\ Done[t] = Work(t) - Rest(t)
  BY Numbers
<1>4. \A t \in Tasks :
        /\ Work(t)' = Work(t) /\ ChainTo'[t] = ChainTo[t]
        /\ Runnable(t)' <=> Runnable(t)
  <2>1. ChainTo' = ChainTo
    BY <1>1, <1>2, ChainToIs
  <2>2. QED
    BY <1>1, <2>1 DEF Work, Runnable
<1>5. \A t \in Tasks : Rest(t)' \in Nat /\ Rest(t)' <= Rest(t)
  BY <1>1, <1>3 DEF Rest
<1>6. /\ delayed' \in Nat /\ delayed' <= now'
      /\ \A t \in Tasks : state'[t] = "Running" => due'[t] <= now' + Work(t)'
      /\ \A t \in Tasks : \A d \in Dependencies[t] :
           state'[d] \in {"Failed", "Cancelled"} =>
             state'[t] \notin {"Pending", "Running"}
  <2>1. delayed' \in Nat /\ delayed' <= now'
    BY <1>1, <1>2, <1>3
  <2>2. ASSUME NEW t \in Tasks, state'[t] = "Running"
        PROVE  due'[t] <= now' + Work(t)'
    <3>1. due[t] <= now + Work(t)
      BY <1>1, <2>2 DEF ShareInvariant
    <3>2. QED
      BY <1>1, <1>3, <1>4, <3>1
  <2>3. QED
    BY <1>1, <2>1, <2>2 DEF ShareInvariant
<1>7. /\ Done' \in [Tasks -> Nat]
      /\ \A t \in Tasks : Done'[t] = Work(t) - Rest(t)'
  <2>1. \A t \in Tasks : Work(t)' - Rest(t)' \in Nat
    BY <1>3, <1>4, <1>5
  <2>2. Done' \in [Tasks -> Nat]
    BY <2>1 DEF Done
  <2>3. QED
    BY <1>4, <2>2 DEF Done
<1>8. \A t \in Tasks : Done[t] <= Done'[t]
  BY <1>3, <1>5, <1>7
<1>9. Cardinality(Cells(Done')) \in Nat
  BY <1>7, CellsAreFinite
<1>10. PICK idle \in Nat : Share(idle)
  BY DEF ShareInvariant
<1>11. WorkerCount * (now - delayed)
         <= Cardinality(Cells(Done)) + (WorkerCount - 1) * idle
  BY <1>10 DEF Share
<1>12. /\ WorkerCount * (now - delayed) \in Nat
       /\ WorkerCount * ((now - delayed) + 1)
            = WorkerCount * (now - delayed) + WorkerCount
       /\ (WorkerCount - 1) * idle \in Nat
       /\ (WorkerCount - 1) * (idle + 1)
            = (WorkerCount - 1) * idle + (WorkerCount - 1)
  BY <1>3, Distributes
<1>13. \A t \in Tasks : state[t] = "Running" => idle + Rest(t) <= ChainTo[t]
  BY <1>10 DEF Share
<1>14. (\A t \in Tasks : state'[t] = "Running" => idle + Rest(t)' <= ChainTo'[t])
  <2>1. ASSUME NEW t \in Tasks, state'[t] = "Running"
        PROVE  idle + Rest(t)' <= ChainTo'[t]
    <3>1. idle + Rest(t) <= ChainTo[t]
      BY <1>1, <1>13, <2>1
    <3>2. QED
      BY <1>3, <1>4, <1>5, <3>1
  <2>2. QED
    BY <2>1
<1>15. /\ idle = 0 \/ \E t \in Tasks : attempts'[t] # 0 /\ idle <= ChainTo'[t]
       /\ \A t \in Tasks : Runnable(t)' => idle <= ChainTo'[t]
  BY <1>1, <1>4, <1>10 DEF Share
\* A delay counts on neither side.
<1>16. CASE ~Asleep
  <2>1. now' - delayed' = now - delayed
    BY <1>1, <1>3, <1>16
  <2>2. Cardinality(Cells(Done)) <= Cardinality(Cells(Done'))
    <3>1. /\ Cardinality({}) \in Nat
          /\ Cardinality(Cells(Done)) + Cardinality({}) <= Cardinality(Cells(Done'))
      <4>1. {} \in SUBSET Tasks /\ \A t \in {} : Done[t] + 1 <= Done'[t]
        OBVIOUS
      <4>2. QED
        BY <1>3, <1>7, <1>8, <4>1, CellsGrow
    <3>2. QED
      BY <1>3, <1>9, <3>1, FS_EmptySet
  <2>3. WorkerCount * (now' - delayed')
          <= Cardinality(Cells(Done')) + (WorkerCount - 1) * idle
    BY <1>3, <1>9, <1>11, <1>12, <2>1, <2>2
  <2>4. Share(idle)'
    BY <1>14, <1>15, <2>3 DEF Share
  <2>5. QED
    BY <1>6, <2>4 DEF ShareInvariant
<1>17. CASE Asleep
  <2> DEFINE R == {t \in Tasks : state[t] = "Running"}
  <2>1. now' - delayed' = (now - delayed) + 1
    BY <1>1, <1>3, <1>17
  <2>2. \A t \in R : t \in Tasks /\ Rest(t) = Rest(t)' + 1
    <3>1. \A t \in R : t \in Tasks /\ now < due[t]
      BY <1>17 DEF Asleep
    <3>2. QED
      BY <1>1, <1>3, <3>1 DEF Rest
  <2>3. /\ Cardinality(R) \in Nat
        /\ Cardinality(Cells(Done)) + Cardinality(R) <= Cardinality(Cells(Done'))
    <3>1. \A t \in R : Done[t] + 1 <= Done'[t]
      BY <1>3, <1>5, <1>7, <2>2
    <3>2. R \in SUBSET Tasks
      OBVIOUS
    <3> HIDE DEF R
    <3>3. QED
      BY <1>3, <1>7, <1>8, <3>1, <3>2, CellsGrow
  \* Every worker had a task that slept.
  <2>4. CASE ~HasCapacity
    <3>1. WorkerCount <= Cardinality(R)
      BY <1>3, <2>3, <2>4 DEF HasCapacity
    <3> HIDE DEF R
    <3>2. WorkerCount * (now' - delayed')
            <= Cardinality(Cells(Done')) + (WorkerCount - 1) * idle
      BY <1>3, <1>9, <1>11, <1>12, <2>1, <2>3, <3>1
    <3>3. Share(idle)'
      BY <1>14, <1>15, <3>2 DEF Share
    <3>4. QED
      BY <1>6, <3>3 DEF ShareInvariant
  \* No task could be launched.  All that ran slept, and something ran.
  <2>5. CASE HasCapacity
    <3>1. \A t \in Tasks : ~Runnable(t)
      BY <1>17, <2>5 DEF Asleep
    <3>2. PICK r \in R : TRUE
      BY <1>1, <3>1, SomethingRuns
    <3>3. Cardinality(R) # 0
      <4>1. IsFiniteSet(Tasks)
        BY TimedRunAssumption, FS_Interval DEF Tasks
      <4>2. IsFiniteSet(R)
        BY <4>1, FS_Subset
      <4>3. R # {}
        BY <3>2
      <4> HIDE DEF R
      <4>4. QED
        BY <4>2, <4>3, FS_EmptySet
    <3>4. \A t \in Tasks : state'[t] = "Running" => (idle + 1) + Rest(t)' <= ChainTo'[t]
      <4>1. ASSUME NEW t \in Tasks, state'[t] = "Running"
            PROVE  (idle + 1) + Rest(t)' <= ChainTo'[t]
        <5>1. idle + Rest(t) <= ChainTo[t] /\ Rest(t) = Rest(t)' + 1
          BY <1>1, <1>13, <2>2, <4>1
        <5>2. QED
          BY <1>3, <1>4, <1>5, <5>1
      <4>2. QED
        BY <4>1
    <3>5. \E t \in Tasks : attempts'[t] # 0 /\ idle + 1 <= ChainTo'[t]
      <4>1. /\ r \in Tasks /\ state[r] = "Running" /\ attempts[r] # 0
            /\ idle + Rest(r) <= ChainTo[r] /\ Rest(r) = Rest(r)' + 1
        BY <1>13, <2>2 DEF TimedInvariant
      <4>2. idle + 1 <= ChainTo'[r]
        BY <1>3, <1>4, <1>5, <4>1
      <4>3. QED
        BY <1>1, <4>1, <4>2
    <3>6. WorkerCount * (now' - delayed')
            <= Cardinality(Cells(Done')) + (WorkerCount - 1) * (idle + 1)
      <4> HIDE DEF R
      <4>1. Cardinality(Cells(Done)) + 1 <= Cardinality(Cells(Done'))
        BY <1>3, <1>9, <2>3, <3>3
      <4>2. QED
        BY <1>3, <1>9, <1>11, <1>12, <2>1, <4>1
    <3>7. Share(idle + 1)'
      BY <1>4, <3>1, <3>4, <3>5, <3>6 DEF Share
    <3>8. idle + 1 \in Nat
      OBVIOUS
    <3>9. QED
      BY <1>6, <3>7, <3>8 DEF ShareInvariant
  <2>6. QED
    BY <2>4, <2>5
<1>18. QED
  BY <1>16, <1>17

LEMMA InitShareInvariant == Init => ShareInvariant
<1> SUFFICES ASSUME Init PROVE ShareInvariant
  OBVIOUS
<1>1. /\ duration \in [Tasks -> Nat]
      /\ state = [t \in Tasks |-> "Pending"]
      /\ attempts = [t \in Tasks |-> 0] /\ attempts \in [Tasks -> Nat]
      /\ now = 0 /\ delayed = 0
      /\ WorkerCount \in Nat \ {0}
  BY TimedRunAssumption DEF Init
<1>2. \A t \in Tasks : Work(t) = 0 /\ Rest(t) = 0
  BY <1>1, Products DEF Work, Rest
<1>3. Done = [t \in Tasks |-> 0] /\ Done \in [Tasks -> Nat]
  BY <1>2 DEF Done
<1>4. Cardinality(Cells(Done)) \in Nat
  BY <1>3, CellsAreFinite
<1>5. \A t \in Tasks : ChainTo[t] \in Nat
  BY <1>1, ChainOfSolves, ChainToIs
<1>6. WorkerCount * (now - delayed) = 0 /\ (WorkerCount - 1) * 0 = 0
  BY <1>1
<1>7. Share(0)
  <2>1. WorkerCount * (now - delayed)
          <= Cardinality(Cells(Done)) + (WorkerCount - 1) * 0
    BY <1>4, <1>6
  <2>2. \A t \in Tasks : 0 <= ChainTo[t] /\ state[t] # "Running"
    BY <1>1, <1>5
  <2>3. QED
    BY <2>1, <2>2 DEF Share
<1>8. \A t \in Tasks : \A d \in Dependencies[t] : state[d] = "Pending"
  BY <1>1, TimedRunAssumption
<1>9. QED
  BY <1>1, <1>7, <1>8 DEF ShareInvariant

LEMMA StutterShares ==
  ASSUME TimedInvariant, ShareInvariant, UNCHANGED vars
  PROVE  ShareInvariant'
<1>1. /\ now' = now /\ delayed' = delayed
      /\ state' = state /\ attempts' = attempts
      /\ due' = due /\ duration' = duration
  BY DEF vars, runVars
<1>2. ChainTo' = ChainTo
  BY <1>1, ChainToIs
<1>3. \A t \in Tasks : Work(t)' = Work(t) /\ Rest(t)' = Rest(t)
  BY <1>1 DEF Work, Rest
<1>4. Done' = Done
  BY <1>3 DEF Done
<1>5. PICK idle \in Nat : Share(idle)
  BY DEF ShareInvariant
<1>6. Share(idle)'
  BY <1>1, <1>2, <1>3, <1>4, <1>5 DEF Share, Runnable
<1>7. QED
  BY <1>1, <1>3, <1>6 DEF ShareInvariant

\* The time that was spent on nothing but sleep is shared by the workers, except
\* for ticks in which one could idle, and those follow a chain.
THEOREM ShareInvariantHolds == Spec => []ShareInvariant
<1>1. TimedInvariant /\ ShareInvariant /\ [Next]_vars => ShareInvariant'
  BY LaunchShares, FinishShares, TickShares, StutterShares DEF Next, Ended
<1>2. QED
  BY <1>1, InitShareInvariant, TimedInvariantHolds, PTL DEF Spec

LEMMA SharesAtTheEnd ==
  ASSUME TimedInvariant, ShareInvariant
  PROVE  ListSchedulingBound
<1> SUFFICES ASSUME Over
             PROVE  WorkerCount * (now - delayed)
                      <= TotalWork + (WorkerCount - 1) * LongestChain
  BY DEF ListSchedulingBound
<1>1. /\ now - delayed \in Nat /\ WorkerCount \in Nat /\ WorkerCount - 1 \in Nat
      /\ Cardinality(Cells(Done)) \in Nat
      /\ \A t \in Tasks : Work(t) \in Nat /\ ChainTo[t] \in Nat
  BY Numbers
<1>2. PICK idle \in Nat : Share(idle)
  BY DEF ShareInvariant
<1>3. WorkerCount * (now - delayed)
        <= Cardinality(Cells(Done)) + (WorkerCount - 1) * idle
  BY <1>2 DEF Share
<1>4. Cardinality(Cells(Done)) = TotalWork
  <2>1. \A t \in Tasks : Rest(t) = 0
    BY DEF Over, Rest
  <2>2. \A t \in Tasks : Done[t] = Work(t)
    BY <1>1, <2>1 DEF Done
  <2>3. {{t} \X (1 .. Done[t]) : t \in Tasks} = {{t} \X (1 .. Work(t)) : t \in Tasks}
    BY <2>2
  <2>4. QED
    BY <2>3 DEF Cells, TotalWork
<1>5. LongestChain \in Nat /\ \A t \in Tasks : ChainTo[t] <= LongestChain
  BY <1>1, MaxIs DEF LongestChain
<1>6. idle <= LongestChain
  <2>1. CASE idle = 0
    BY <1>5, <2>1
  <2>2. CASE \E t \in Tasks : idle <= ChainTo[t]
    BY <1>1, <1>5, <2>2
  <2>3. QED
    BY <1>2, <2>1, <2>2 DEF Share
<1>7. /\ (WorkerCount - 1) * idle \in Nat
      /\ (WorkerCount - 1) * LongestChain \in Nat
      /\ (WorkerCount - 1) * idle <= (WorkerCount - 1) * LongestChain
      /\ WorkerCount * (now - delayed) \in Nat
  BY <1>1, <1>5, <1>6, Scaled
<1>8. QED
  BY <1>1, <1>3, <1>4, <1>7

\* No worker count, order of dispatch or failure takes the run beyond the bound of
\* list scheduling, its delays not counted.
THEOREM ListSchedulingBoundHolds == Spec => []ListSchedulingBound
  BY SharesAtTheEnd, ShareInvariantHolds, TimedInvariantHolds, PTL

\* The time of a run lies between its critical path and the bound of list
\* scheduling, for any graph, any durations and any number of workers.
THEOREM RunTimeIsBoundedHolds == Spec => []RunTimeIsBounded
<1>1. NoFasterThanCriticalPath /\ ListSchedulingBound => RunTimeIsBounded
  BY DEF RunTimeIsBounded
<1>2. QED
  BY <1>1, NoFasterThanCriticalPathHolds, ListSchedulingBoundHolds, PTL
=============================================================================
