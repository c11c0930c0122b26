----------------------------- MODULE MainProofs -----------------------------
(***************************************************************************)
(* Proofs about modules Config and Main, for every command line, every     *)
(* configuration file and all widths of the integers.                      *)
(***************************************************************************)
EXTENDS Main, TLAPS

IsSeq(s) == s \in Seq(Range(s))

\* The dependencies of an entry, as written.
DependencyItems(e) ==
  IF e.dependencies.kind = "array" THEN e.dependencies.items ELSE <<>>

\* The list s has been taken from the front of the dependencies of e.
TakenFrom(s, e) ==
  /\ IsSeq(s) /\ IsInjective(s)
  /\ Len(s) <= Len(DependencyItems(e))
  /\ \A k \in 1 .. Len(s) : IsName(DependencyItems(e)[k]) /\ s[k] = DependencyItems(e)[k].text

\* The entry e is accepted and becomes the task t.
Becomes(e, t) ==
  /\ RequiredFieldsOK(e) /\ OptionalFieldsOK(e)
  /\ TakenFrom(t.dependencies, e)
  /\ Len(t.dependencies) = Len(DependencyItems(e))
  /\ t.id = e.id.text
  /\ t.priority = get_int(e.priority)
  /\ t.duration = get_int(e.duration)
  /\ t.retry_count =
       IF e.retry_count = Missing THEN 0 ELSE get_int(e.retry_count)
  /\ t.fail_probability =
       IF e.fail_probability = Missing THEN 0 ELSE Halves(e.fail_probability)

\* The task being read: left is what seen has left of the dependencies.
HalfRead ==
  /\ Len(tasks) < Len(Entries)
  /\ RequiredFieldsOK(entry)
  /\ TakenFrom(seen, entry)
  /\ IsSeq(left)
  /\ Len(seen) + Len(left) = Len(DependencyItems(entry))
  /\ \A k \in 1 .. Len(left) : left[k] = DependencyItems(entry)[Len(seen) + k]

ReferencesOK ==
  \A i \in DOMAIN tasks : Range(tasks[i].dependencies) \subseteq task_ids

\* The tasks are those of the entries read so far.
LoadInvariant ==
  /\ IsDocument(document)
  /\ IsSeq(tasks)
  /\ Len(tasks) <= Len(Entries)
  /\ \A i \in DOMAIN tasks : Becomes(Entries[i], tasks[i])
  /\ \A i, j \in DOMAIN tasks : tasks[i].id = tasks[j].id => i = j
  /\ load_pc \in {"entry", "dependencies", "loaded"} =>
       document.file = "task list"
  /\ load_pc = "dependencies" => HalfRead
  /\ load_pc = "loaded" => Len(tasks) = Len(Entries) /\ ReferencesOK
  /\ load_pc = "rejected" /\ IntegersFit => ~WellFormed

\* v is the value of the option among the arguments before the n-th.
LastRead(option, v, n) ==
  \/ /\ v = ""
     /\ \A i \in Options : i < n => arguments[i] # option
  \/ \E i \in Options :
       /\ i < n /\ arguments[i] = option
       /\ v = arguments[i + 1]
       /\ \A j \in Options : j < n /\ arguments[j] = option => j <= i

\* What main has read are options with their values.
ArgumentInvariant ==
  /\ arguments \in Seq(DOMAIN Numeral)
  /\ index \in Nat /\ index % 2 = 1 /\ index <= Len(arguments) + 1
  /\ \A i \in Options : i < index =>
       /\ i < Len(arguments)
       /\ arguments[i] \in {"--config", "--workers", "--dot"}
       /\ arguments[i] = "--workers" => IsWorkerCount(arguments[i + 1])
  /\ LastRead("--config", config_path, index)
  /\ LastRead("--dot", dot_output_path, index)
  /\ pc \notin {"arguments", "usage", "aborted"} =>
       index > Len(arguments) /\ config_path # ""

\* The number of workers comes from the last count before the n-th argument.
CountRead(n) ==
  \/ /\ worker_count = 0
     /\ \A i \in Options : i < n => arguments[i] # "--workers"
  \/ \E i \in Options :
       /\ i < n /\ arguments[i] = "--workers"
       /\ worker_count = strtoul(Numeral[arguments[i + 1]])
       /\ \A j \in Options : j < n /\ arguments[j] = "--workers" => j <= i

\* How the number of workers follows from the arguments, and that a pool cannot
\* be larger than a vector.
CountInvariant ==
  /\ pc = "arguments" => CountRead(index)
  /\ pc \notin {"arguments", "usage", "aborted"} => CountFollowsUsage
  /\ pc \in {"arguments", "usage", "load", "validate", "dot", "pool"} => threads = 0

Valid == FollowsUsage /\ load_pc = "loaded" /\ Graph!Acyclic

\* Each stage is reached through the ones before it.
StageInvariant ==
  /\ pc = "validate" => load_pc = "loaded"
  /\ pc \in {"dot", "pool", "run"} \/ dot_written \/ threads # 0 => Valid
  /\ dot_written => pc \notin {"arguments", "load", "validate", "dot"}
  /\ threads # 0 => pc \in {"run", "aborted", "hung"}
  /\ pc = "usage" => ~FollowsUsage
  /\ pc = "aborted" /\ threads = 0 =>
       \E i \in Options : Given("--workers", i) /\ ~IsWorkerCount(arguments[i + 1])

-----------------------------------------------------------------------------
(***************************************************************************)
(* Sequences and integers.                                                 *)
(***************************************************************************)

LEMMA SeqIsSeq ==
  ASSUME NEW S, NEW s \in Seq(S)
  PROVE  IsSeq(s)
<1>1. s \in [1 .. Len(s) -> Range(s)] /\ Len(s) \in Nat
  BY DEF Range
<1>2. QED
  BY <1>1 DEF IsSeq

LEMMA SeqFacts ==
  ASSUME NEW s, IsSeq(s)
  PROVE  /\ Len(s) \in Nat
         /\ DOMAIN s = 1 .. Len(s)
         /\ \A i \in 1 .. Len(s) : s[i] \in Range(s)
         /\ \A x \in Range(s) : \E i \in 1 .. Len(s) : s[i] = x
  BY DEF IsSeq, Range

LEMMA AppendSeq ==
  ASSUME NEW s, IsSeq(s), NEW x
  PROVE  /\ IsSeq(Append(s, x))
         /\ Len(Append(s, x)) = Len(s) + 1
         /\ \A i \in 1 .. Len(s) : Append(s, x)[i] = s[i]
         /\ Append(s, x)[Len(s) + 1] = x
<1> DEFINE S == Range(s) \cup {x}
<1>1. s \in Seq(S)
  BY DEF IsSeq
<1>2. x \in S
  OBVIOUS
<1> HIDE DEF S
<1>3. /\ Append(s, x) \in Seq(S)
      /\ Len(Append(s, x)) = Len(s) + 1
      /\ \A i \in 1 .. Len(s) : Append(s, x)[i] = s[i]
      /\ Append(s, x)[Len(s) + 1] = x
  BY <1>1, <1>2
<1>4. QED
  BY <1>3, SeqIsSeq

LEMMA TailSeq ==
  ASSUME NEW s, IsSeq(s), s # <<>>
  PROVE  /\ IsSeq(Tail(s))
         /\ Len(s) # 0
         /\ Len(Tail(s)) = Len(s) - 1
         /\ \A i \in 1 .. Len(s) - 1 : Tail(s)[i] = s[i + 1]
         /\ Head(s) = s[1]
<1> DEFINE S == Range(s)
<1>1. s \in Seq(S)
  BY DEF IsSeq
<1> HIDE DEF S
<1>2. /\ Tail(s) \in Seq(S)
      /\ Len(s) # 0
      /\ Len(Tail(s)) = Len(s) - 1
      /\ \A i \in 1 .. Len(s) - 1 : Tail(s)[i] = s[i + 1]
      /\ Head(s) = s[1]
  BY <1>1
<1>3. QED
  BY <1>2, SeqIsSeq

LEMMA ContainsRange ==
  ASSUME NEW s, IsSeq(s), NEW x
  PROVE  Contains(s, x) <=> x \in Range(s)
  BY SeqFacts DEF Contains

\* The low bits of a number that fits are the number.
LEMMA LowBits ==
  ASSUME NEW v, v.value \in IntRange
  PROVE  get_int(v) = v.value
<1>1. PICK h \in Nat \ {0} : h = 2 ^ (IntBits - 1) /\ 2 ^ IntBits = 2 * h
  BY ConfigAssumption
<1>2. IntRange = -h .. h - 1
  BY <1>1 DEF IntRange
<1>3. PICK k : k = v.value
  OBVIOUS
<1>4. k \in -h .. h - 1
  BY <1>2, <1>3
<1>5. \A n \in -h .. h - 1 : (k - n) % (2 * h) = 0 => n = k
  BY <1>4
<1>6. (k - k) % (2 * h) = 0
  BY <1>4
<1>7. get_int(v) = CHOOSE n \in -h .. h - 1 : (k - n) % (2 * h) = 0
  BY <1>1, <1>2, <1>3 DEF get_int
<1>8. QED
  BY <1>3, <1>4, <1>5, <1>6, <1>7

-----------------------------------------------------------------------------
(***************************************************************************)
(* The entries of the file.                                                *)
(***************************************************************************)

LEMMA EntryFields ==
  ASSUME IsDocument(document), NEW i \in DOMAIN Entries,
         Entries[i].kind = "object"
  PROVE  LET e == Entries[i]
         IN  /\ IsValue(e.id) /\ IsValue(e.name)
             /\ IsValue(e.priority) /\ IsValue(e.duration)
             /\ IsValue(e.dependencies)
             /\ IsValue(e.retry_count) /\ IsValue(e.fail_probability)
<1>1. Entries[i] \in Range(Entries)
  BY DEF Range
<1>2. QED
  BY <1>1 DEF IsDocument, Entries

\* Values of a kind.
LEMMA Kinds ==
  ASSUME NEW v, IsValue(v)
  PROVE  /\ v.kind = "missing" => v = Missing
         /\ v.kind = "string" => v = Text(v.text)
         /\ v.kind = "number" => /\ v.value \in Int
                                 /\ v \in {Whole(v.value), Half(v.value)}
         /\ v.kind = "array" => /\ IsSeq(v.items)
                                /\ \A w \in Range(v.items) : IsText(w)
         /\ v = Missing => v.kind = "missing"
<1>1. Missing.kind = "missing" /\ Other.kind = "other"
  BY DEF Missing, Other
<1>2. QED
  BY <1>1 DEF IsValue, IsText, IsSeq

LEMMA ItemsAre ==
  ASSUME IsDocument(document), NEW i \in DOMAIN Entries,
         Entries[i].kind = "object"
  PROVE  LET s == DependencyItems(Entries[i])
         IN  /\ IsSeq(s)
             /\ \A k \in 1 .. Len(s) : IsText(s[k])
<1> DEFINE d == Entries[i].dependencies
           s == DependencyItems(Entries[i])
<1>1. IsValue(d)
  BY EntryFields
<1>2. CASE d.kind = "array"
  <2>1. s = d.items
    BY <1>2 DEF DependencyItems
  <2>2. IsSeq(s) /\ \A w \in Range(s) : IsText(w)
    BY <1>1, <1>2, <2>1, Kinds
  <2> HIDE DEF s
  <2>3. \A k \in 1 .. Len(s) : IsText(s[k])
    BY <2>2, SeqFacts
  <2>4. QED
    BY <2>2, <2>3 DEF s
<1>3. CASE d.kind # "array"
  <2>1. s = <<>>
    BY <1>3 DEF DependencyItems
  <2>2. IsSeq(<<>>) /\ Len(<<>>) = 0
    BY DEF IsSeq
  <2>3. QED
    BY <2>1, <2>2
<1>4. QED
  BY <1>2, <1>3

LEMMA Fits ==
  ASSUME IsDocument(document), IntegersFit, NEW i \in DOMAIN Entries,
         Entries[i].kind = "object",
         NEW v \in {Entries[i].priority, Entries[i].duration,
                    Entries[i].retry_count},
         is_number_integer(v)
  PROVE  get_int(v) = v.value /\ v.value \in Int
<1>1. v.value \in IntRange
  BY DEF IntegersFit
<1>2. IsValue(v)
  BY EntryFields
<1>3. v.value \in Int
  BY <1>2, Kinds DEF is_number_integer, is_number
<1>4. QED
  BY <1>1, <1>3, LowBits

\* The probabilities zero, one half and one.
LEMMA Probabilities ==
  ASSUME NEW v, IsValue(v)
  PROVE  v \in {Whole(0), Half(0), Whole(1)} <=>
           is_number(v) /\ Halves(v) \in 0 .. 2
<1>1. ASSUME v \in {Whole(0), Half(0), Whole(1)}
      PROVE  is_number(v) /\ Halves(v) \in 0 .. 2
  BY <1>1 DEF Whole, Half, is_number, Halves
<1>2. ASSUME is_number(v), Halves(v) \in 0 .. 2
      PROVE  v \in {Whole(0), Half(0), Whole(1)}
  <2>1. v.value \in Int /\ v \in {Whole(v.value), Half(v.value)}
    BY <1>2, Kinds DEF is_number
  <2>2. CASE v = Whole(v.value)
    <3>1. Halves(v) = 2 * v.value
      BY <2>1, <2>2 DEF Whole, Halves
    <3>2. v.value \in {0, 1}
      BY <1>2, <2>1, <3>1
    <3>3. QED
      BY <2>2, <3>2
  <2>3. CASE v = Half(v.value)
    <3>1. Halves(v) = 2 * v.value + 1
      BY <2>1, <2>3 DEF Half, Halves
    <3>2. v.value = 0
      BY <1>2, <2>1, <3>1
    <3>3. QED
      BY <2>3, <3>2
  <2>4. QED
    BY <2>1, <2>2, <2>3
<1>3. QED
  BY <1>1, <1>2

\* What the loader tests of an entry is what the input format demands of it.
LEMMA EntryWellFormed ==
  ASSUME IsDocument(document), IntegersFit, NEW i \in DOMAIN Entries
  PROVE  LET e == Entries[i]
         IN  WellFormedTask(e) <=>
               /\ RequiredFieldsOK(e) /\ OptionalFieldsOK(e)
               /\ IsInjective(DependencyItems(e))
               /\ \A k \in 1 .. Len(DependencyItems(e)) :
                    IsName(DependencyItems(e)[k])
<1> DEFINE e == Entries[i]
<1>1. CASE e.kind # "object"
  BY <1>1 DEF WellFormedTask, RequiredFieldsOK
<1>2. CASE e.kind = "object"
  <2>1. /\ IsValue(e.dependencies) /\ IsValue(e.duration)
        /\ IsValue(e.retry_count) /\ IsValue(e.fail_probability)
    BY <1>2, EntryFields
  <2>2. NaturalNumber(e.duration) <=>
          is_number_integer(e.duration) /\ get_int(e.duration) >= 0
    BY <1>2, Fits DEF NaturalNumber
  <2>3. NaturalNumber(e.retry_count) <=>
          is_number_integer(e.retry_count) /\ get_int(e.retry_count) >= 0
    BY <1>2, Fits DEF NaturalNumber
  <2>4. e.fail_probability \in {Whole(0), Half(0), Whole(1)} <=>
          is_number(e.fail_probability) /\ Halves(e.fail_probability) \in 0 .. 2
    BY <2>1, Probabilities
  <2>5. CASE e.dependencies.kind = "array"
    <3>1. e.dependencies # Missing /\ DependencyItems(e) = e.dependencies.items
      BY <2>1, <2>5, Kinds DEF DependencyItems
    <3>2. IsSeq(e.dependencies.items)
      BY <2>1, <2>5, Kinds
    <3>3. (\A v \in Range(e.dependencies.items) : IsName(v)) <=>
            \A k \in 1 .. Len(e.dependencies.items) :
              IsName(e.dependencies.items[k])
      <4> DEFINE s == e.dependencies.items
      <4> HIDE DEF s
      <4>1. (\A v \in Range(s) : IsName(v)) <=> \A k \in 1 .. Len(s) : IsName(s[k])
        BY <3>2, SeqFacts DEF s
      <4>2. QED
        BY <4>1 DEF s
    <3>4. QED
      BY <1>2, <2>2, <2>3, <2>4, <2>5, <3>1, <3>3
      DEF WellFormedTask, RequiredFieldsOK, OptionalFieldsOK
  <2>6. CASE e.dependencies.kind = "missing"
    <3>1. e.dependencies = Missing
      BY <2>1, <2>6, Kinds
    <3>2. DependencyItems(e) = <<>> /\ Len(<<>>) = 0 /\ IsInjective(<<>>)
      BY <2>6 DEF DependencyItems, IsInjective
    <3>3. 1 .. Len(DependencyItems(e)) = {}
      BY <3>2
    <3>4. QED
      BY <1>2, <2>2, <2>3, <2>4, <2>6, <3>1, <3>2, <3>3
      DEF WellFormedTask, RequiredFieldsOK, OptionalFieldsOK
  <2>7. CASE e.dependencies.kind \notin {"array", "missing"}
    BY <2>1, <2>7, Kinds DEF WellFormedTask, RequiredFieldsOK
  <2>8. QED
    BY <2>5, <2>6, <2>7
<1>3. QED
  BY <1>1, <1>2

-----------------------------------------------------------------------------
(***************************************************************************)
(* The loader.                                                             *)
(***************************************************************************)

LEMMA SameDocument ==
  ASSUME document' = document
  PROVE  /\ Entries' = Entries
         /\ IsDocument(document)' <=> IsDocument(document)
         /\ IntegersFit' <=> IntegersFit
         /\ WellFormed' <=> WellFormed
  BY DEF Entries, IntegersFit, WellFormed

\* The part of the invariant about the tasks loaded so far.
LoadedSoFar ==
  /\ IsDocument(document)
  /\ IsSeq(tasks)
  /\ Len(tasks) <= Len(Entries)
  /\ \A i \in DOMAIN tasks : Becomes(Entries[i], tasks[i])
  /\ \A i, j \in DOMAIN tasks : tasks[i].id = tasks[j].id => i = j

LEMMA LoadedSoFarKept ==
  ASSUME LoadedSoFar, UNCHANGED <<document, tasks>>
  PROVE  LoadedSoFar'
  BY SameDocument DEF LoadedSoFar

LEMMA Sizes ==
  ASSUME LoadedSoFar
  PROVE  /\ IsSeq(Entries) /\ Len(Entries) \in Nat
         /\ DOMAIN Entries = 1 .. Len(Entries)
         /\ Len(tasks) \in Nat /\ Len(tasks) <= Len(Entries)
         /\ DOMAIN tasks = 1 .. Len(tasks)
         /\ DOMAIN tasks \subseteq DOMAIN Entries
         /\ Len(tasks) < Len(Entries) => Len(tasks) + 1 \in DOMAIN Entries
<1>1. IsSeq(Entries)
  BY DEF LoadedSoFar, IsDocument, Entries, IsSeq
<1>2. /\ Len(Entries) \in Nat /\ DOMAIN Entries = 1 .. Len(Entries)
      /\ Len(tasks) \in Nat /\ Len(tasks) <= Len(Entries)
      /\ DOMAIN tasks = 1 .. Len(tasks)
  BY <1>1, SeqFacts DEF LoadedSoFar
<1>3. QED
  BY <1>1, <1>2

LEMMA RejectKeeps ==
  ASSUME LoadedSoFar, Reject, IntegersFit => ~WellFormed
  PROVE  LoadInvariant'
<1>1. LoadedSoFar' /\ load_pc' = "rejected"
  BY LoadedSoFarKept DEF Reject
<1>2. IntegersFit' => ~WellFormed'
  BY SameDocument DEF Reject
<1>3. QED
  BY <1>1, <1>2 DEF LoadInvariant, LoadedSoFar

LEMMA OpenFileKeeps ==
  ASSUME LoadInvariant, OpenFile
  PROVE  LoadInvariant'
<1>1. LoadedSoFar
  BY DEF LoadInvariant, LoadedSoFar
<1>2. CASE document.file = "task list"
  <2>1. /\ load_pc' = "entry" /\ UNCHANGED <<document, tasks>>
    BY <1>2 DEF OpenFile
  <2>2. LoadedSoFar'
    BY <1>1, <2>1, LoadedSoFarKept
  <2>3. QED
    BY <1>2, <2>1, <2>2 DEF LoadInvariant, LoadedSoFar
<1>3. CASE document.file # "task list"
  BY <1>1, <1>3, RejectKeeps DEF OpenFile, WellFormed
<1>4. QED
  BY <1>2, <1>3

LEMMA BeginTaskKeeps ==
  ASSUME LoadInvariant, BeginTask
  PROVE  LoadInvariant'
<1>1. LoadedSoFar
  BY DEF LoadInvariant, LoadedSoFar
<1>2. /\ load_pc = "entry" /\ Len(tasks) < Len(Entries)
      /\ document.file = "task list"
      /\ Len(tasks) + 1 \in DOMAIN Entries
  BY <1>1, Sizes DEF BeginTask, LoadInvariant
<1>3. CASE RequiredFieldsOK(entry)
  <2>1. /\ load_pc' = "dependencies" /\ UNCHANGED <<document, tasks>>
        /\ seen' = <<>> /\ left' = DependencyItems(entry)
    BY <1>3 DEF BeginTask, DependencyItems
  <2>2. LoadedSoFar'
    BY <1>1, <2>1, LoadedSoFarKept
  <2>3. IsSeq(left')
    BY <1>1, <1>2, <1>3, <2>1, ItemsAre
    DEF RequiredFieldsOK, entry, LoadedSoFar
  <2>4. Len(left') \in Nat
    BY <2>3, SeqFacts
  <2>5. entry' = entry /\ (Len(tasks) < Len(Entries))'
        /\ RequiredFieldsOK(entry)'
    BY <1>2, <1>3, <2>1, SameDocument DEF entry
  <2>6. Len(<<>>) = 0 /\ IsSeq(<<>>) /\ IsInjective(<<>>) /\ 1 .. 0 = {}
    BY DEF IsSeq, IsInjective
  <2>7. TakenFrom(seen, entry)'
    BY <2>1, <2>4, <2>5, <2>6 DEF TakenFrom
  <2>8. /\ Len(seen') + Len(left') = Len(DependencyItems(entry'))
        /\ \A k \in 1 .. Len(left') :
             left'[k] = DependencyItems(entry')[Len(seen') + k]
    BY <2>1, <2>4, <2>5, <2>6
  <2>9. HalfRead'
    BY <2>3, <2>5, <2>7, <2>8 DEF HalfRead
  <2>10. QED
    BY <1>2, <2>1, <2>2, <2>9 DEF LoadInvariant, LoadedSoFar
<1>4. CASE ~RequiredFieldsOK(entry)
  <2>1. IntegersFit => ~WellFormed
    BY <1>1, <1>2, <1>4, EntryWellFormed DEF WellFormed, entry, LoadedSoFar
  <2>2. QED
    BY <1>1, <1>4, <2>1, RejectKeeps DEF BeginTask
<1>5. QED
  BY <1>3, <1>4

LEMMA TakeDependencyKeeps ==
  ASSUME LoadInvariant, TakeDependency
  PROVE  LoadInvariant'
<1>1. LoadedSoFar
  BY DEF LoadInvariant, LoadedSoFar
<1>2. /\ load_pc = "dependencies" /\ left # <<>>
      /\ document.file = "task list"
      /\ HalfRead
  BY DEF TakeDependency, LoadInvariant
<1>3. Len(tasks) + 1 \in DOMAIN Entries /\ entry.kind = "object"
  BY <1>1, <1>2, Sizes DEF HalfRead, RequiredFieldsOK
<1> DEFINE s == DependencyItems(entry)
           n == Len(seen)
           m == Len(left)
           v == Head(left)
<1>4. IsSeq(s) /\ \A k \in 1 .. Len(s) : IsText(s[k])
  BY <1>1, <1>3, ItemsAre DEF entry, LoadedSoFar
<1>5. /\ IsSeq(seen) /\ IsSeq(left) /\ IsInjective(seen)
      /\ n \in Nat /\ m \in Nat /\ m # 0 /\ n + m = Len(s)
      /\ \A k \in 1 .. n : IsName(s[k]) /\ seen[k] = s[k].text
      /\ \A k \in 1 .. m : left[k] = s[n + k]
      /\ v = s[n + 1]
      /\ DOMAIN seen = 1 .. n
  <2>1. IsSeq(seen) /\ IsSeq(left)
    BY <1>2 DEF HalfRead, TakenFrom
  <2>2. n \in Nat /\ m \in Nat /\ m # 0 /\ v = left[1] /\ DOMAIN seen = 1 .. n
    BY <1>2, <2>1, SeqFacts, TailSeq
  <2>3. /\ IsInjective(seen) /\ n + m = Len(s)
        /\ \A k \in 1 .. n : IsName(s[k]) /\ seen[k] = s[k].text
        /\ \A k \in 1 .. m : left[k] = s[n + k]
    BY <1>2 DEF HalfRead, TakenFrom
  <2>4. 1 \in 1 .. m
    BY <2>2
  <2>5. v = s[n + 1]
    BY <2>2, <2>3, <2>4
  <2>6. QED
    BY <2>1, <2>2, <2>3, <2>5
<1>6. n + 1 \in 1 .. Len(s)
  BY <1>5
<1>7. CASE NewDependency(v)
  <2>1. /\ seen' = Append(seen, v.text) /\ left' = Tail(left)
        /\ UNCHANGED <<document, load_pc, tasks>>
    BY <1>7 DEF TakeDependency
  <2>2. LoadedSoFar'
    BY <1>1, <2>1, LoadedSoFarKept
  <2>3. entry' = entry /\ (Len(tasks) < Len(Entries))'
        /\ RequiredFieldsOK(entry)'
    BY <1>2, <2>1, SameDocument DEF entry, HalfRead
  <2>4. /\ IsSeq(seen') /\ Len(seen') = n + 1
        /\ \A k \in 1 .. n : seen'[k] = seen[k]
        /\ seen'[n + 1] = v.text
        /\ DOMAIN seen' = 1 .. n + 1
    BY <1>5, <2>1, AppendSeq, SeqFacts
  <2>5. /\ IsSeq(left') /\ Len(left') = m - 1
        /\ \A k \in 1 .. m - 1 : left'[k] = left[k + 1]
    BY <1>2, <1>5, <2>1, TailSeq
  <2>6. IsName(v) /\ v.text \notin Range(seen)
    BY <1>5, <1>7, ContainsRange DEF NewDependency
  <2>7. \A k \in 1 .. n : seen[k] # v.text
    BY <1>5, <2>6, SeqFacts
  <2> HIDE DEF s, n, m, v
  <2>8. \A k \in 1 .. n + 1 : k \in 1 .. n \/ k = n + 1
    BY <1>5
  <2>9. IsInjective(seen')
    <3> SUFFICES ASSUME NEW a \in 1 .. n + 1, NEW b \in 1 .. n + 1,
                        seen'[a] = seen'[b]
                 PROVE  a = b
      BY <2>4 DEF IsInjective
    <3>1. CASE a \in 1 .. n /\ b \in 1 .. n
      BY <1>5, <2>4, <3>1 DEF IsInjective
    <3>2. CASE a = n + 1 \/ b = n + 1
      BY <2>4, <2>7, <2>8, <3>2
    <3>3. QED
      BY <2>8, <3>1, <3>2
  <2>10. /\ n + 1 <= Len(s)
         /\ \A k \in 1 .. n + 1 : IsName(s[k]) /\ seen'[k] = s[k].text
    BY <1>5, <1>6, <2>4, <2>6, <2>8
  <2>11. TakenFrom(seen, entry)'
    BY <2>3, <2>4, <2>9, <2>10 DEF TakenFrom, s
  <2>12. \A k \in 1 .. m - 1 : left'[k] = s[(n + 1) + k]
    <3> SUFFICES ASSUME NEW k \in 1 .. m - 1 PROVE left'[k] = s[(n + 1) + k]
      OBVIOUS
    <3>1. k + 1 \in 1 .. m /\ n + (k + 1) = (n + 1) + k
      BY <1>5
    <3>2. QED
      BY <1>5, <2>5, <3>1
  <2>13. (n + 1) + (m - 1) = Len(s)
    BY <1>5
  <2>14. HalfRead'
    BY <2>3, <2>4, <2>5, <2>11, <2>12, <2>13 DEF HalfRead, s
  <2>15. QED
    BY <1>2, <2>1, <2>2, <2>14 DEF LoadInvariant, LoadedSoFar
<1>8. CASE ~NewDependency(v)
  <2>1. ASSUME IntegersFit, WellFormed PROVE FALSE
    <3>1. IsInjective(s) /\ \A k \in 1 .. Len(s) : IsName(s[k])
      BY <1>1, <1>3, <2>1, EntryWellFormed DEF WellFormed, entry, LoadedSoFar
    <3>2. IsName(v) /\ v.text \in Range(seen)
      BY <1>5, <1>6, <1>8, <3>1, ContainsRange DEF NewDependency
    <3>3. PICK k \in 1 .. n : seen[k] = v.text
      BY <1>5, <3>2, SeqFacts
    <3>4. k \in 1 .. Len(s) /\ k # n + 1
      BY <1>5
    <3>5. s[k].text = s[n + 1].text
      BY <1>5, <3>3
    <3>6. s[k] = Text(s[k].text) /\ s[n + 1] = Text(s[n + 1].text)
      BY <1>4, <1>6, <3>1, <3>4 DEF IsName, IsText
    <3>7. s[k] = s[n + 1]
      BY <3>5, <3>6
    <3>8. DOMAIN s = 1 .. Len(s)
      BY <1>4, SeqFacts
    <3>9. QED
      BY <1>6, <3>1, <3>4, <3>7, <3>8 DEF IsInjective
  <2>2. QED
    BY <1>1, <1>8, <2>1, RejectKeeps DEF TakeDependency
<1>9. QED
  BY <1>7, <1>8

LEMMA FinishTaskKeeps ==
  ASSUME LoadInvariant, FinishTask
  PROVE  LoadInvariant'
<1>1. LoadedSoFar
  BY DEF LoadInvariant, LoadedSoFar
<1>2. /\ load_pc = "dependencies" /\ left = <<>>
      /\ document.file = "task list"
      /\ HalfRead
  BY DEF FinishTask, LoadInvariant
<1> DEFINE n == Len(tasks)
           e == Entries[n + 1]
<1>3. /\ n \in Nat /\ n < Len(Entries) /\ n + 1 \in DOMAIN Entries
      /\ DOMAIN tasks = 1 .. n /\ entry = e
      /\ DOMAIN tasks \subseteq DOMAIN Entries
      /\ Len(Entries) \in Nat
  BY <1>1, <1>2, Sizes DEF HalfRead, entry
<1>4. CASE OptionalFieldsOK(e) /\ NewId(e)
  <2>1. /\ tasks' = Append(tasks, Task(e)) /\ load_pc' = "entry"
        /\ document' = document
    BY <1>3, <1>4 DEF FinishTask, Pushed
  <2>2. Entries' = Entries /\ IsDocument(document)'
    BY <1>1, <2>1, SameDocument DEF LoadedSoFar
  <2>3. /\ IsSeq(tasks') /\ Len(tasks') = n + 1
        /\ \A i \in 1 .. n : tasks'[i] = tasks[i]
        /\ tasks'[n + 1] = Task(e)
        /\ DOMAIN tasks' = 1 .. n + 1
    BY <1>1, <2>1, AppendSeq, SeqFacts DEF LoadedSoFar
  <2>4. Becomes(e, Task(e))
    <3>1. TakenFrom(seen, e) /\ Len(seen) = Len(DependencyItems(e))
      <4>1. Len(<<>>) = 0 /\ IsSeq(seen)
        BY <1>2 DEF HalfRead, TakenFrom
      <4>2. Len(seen) + 0 = Len(DependencyItems(e)) /\ Len(seen) \in Nat
        BY <1>2, <1>3, <4>1, SeqFacts DEF HalfRead
      <4>3. Len(seen) = Len(DependencyItems(e))
        <5> HIDE DEF e
        <5>1. PICK m \in Nat : m = Len(seen)
          BY <4>2
        <5>2. m + 0 = m
          OBVIOUS
        <5>3. QED
          BY <4>2, <5>1, <5>2
      <4>4. QED
        BY <1>2, <1>3, <4>3 DEF HalfRead
    <3>2. RequiredFieldsOK(e)
      BY <1>2, <1>3 DEF HalfRead
    <3>3. QED
      BY <1>4, <3>1, <3>2 DEF Becomes, Task
  <2>5. \A i \in 1 .. n : tasks[i].id # Task(e).id
    BY <1>3, <1>4 DEF NewId, task_ids, Task
  <2> HIDE DEF n, e
  <2>6. \A i \in 1 .. n + 1 : i \in 1 .. n \/ i = n + 1
    BY <1>3
  <2>7. \A i \in 1 .. n + 1 : Becomes(Entries[i], tasks'[i])
    BY <1>1, <1>3, <2>3, <2>4, <2>6 DEF LoadedSoFar, e
  <2>8. \A i, j \in 1 .. n + 1 : tasks'[i].id = tasks'[j].id => i = j
    BY <1>1, <1>3, <2>3, <2>5, <2>6 DEF LoadedSoFar
  <2>9. n + 1 <= Len(Entries)
    BY <1>3
  <2>10. LoadedSoFar'
    BY <2>2, <2>3, <2>7, <2>8, <2>9 DEF LoadedSoFar
  <2>11. QED
    BY <1>2, <2>1, <2>10 DEF LoadInvariant, LoadedSoFar
<1>5. CASE ~(OptionalFieldsOK(e) /\ NewId(e))
  <2>1. ASSUME IntegersFit, WellFormed PROVE FALSE
    <3>1. \A i \in DOMAIN Entries : WellFormedTask(Entries[i])
      BY <2>1 DEF WellFormed
    <3>2. OptionalFieldsOK(e) /\ e.kind = "object" /\ IsName(e.id)
      BY <1>1, <1>3, <2>1, <3>1, EntryWellFormed DEF LoadedSoFar, WellFormedTask
    <3>3. PICK i \in 1 .. n : tasks[i].id = e.id.text
      BY <1>3, <1>5, <3>2 DEF NewId, task_ids
    <3>4. i \in DOMAIN Entries /\ i # n + 1
      BY <1>3
    <3>5. /\ Entries[i].kind = "object" /\ IsName(Entries[i].id)
          /\ Entries[i].id.text = e.id.text
      BY <1>1, <1>3, <3>3 DEF LoadedSoFar, Becomes, RequiredFieldsOK
    <3>6. IsValue(Entries[i].id) /\ IsValue(e.id)
      BY <1>1, <1>3, <3>2, <3>4, <3>5, EntryFields DEF LoadedSoFar
    <3>7. Entries[i].id = e.id
      <4>1. Entries[i].id = Text(Entries[i].id.text)
        BY <3>5, <3>6, Kinds DEF IsName
      <4>2. e.id = Text(e.id.text)
        BY <3>2, <3>6, Kinds DEF IsName
      <4>3. QED
        BY <3>5, <4>1, <4>2
    <3>8. QED
      BY <1>3, <2>1, <3>4, <3>7 DEF WellFormed
  <2>2. QED
    BY <1>1, <1>3, <1>5, <2>1, RejectKeeps DEF FinishTask
<1>6. QED
  BY <1>4, <1>5

LEMMA CheckReferencesKeeps ==
  ASSUME LoadInvariant, CheckReferences
  PROVE  LoadInvariant'
<1>1. LoadedSoFar
  BY DEF LoadInvariant, LoadedSoFar
<1>2. load_pc = "entry" /\ Len(tasks) = Len(Entries)
      /\ document.file = "task list"
  BY DEF CheckReferences, LoadInvariant
<1>3. CASE ReferencesOK
  <2>1. load_pc' = "loaded" /\ UNCHANGED <<document, tasks>>
    BY <1>3 DEF CheckReferences, ReferencesOK
  <2>2. LoadedSoFar'
    BY <1>1, <2>1, LoadedSoFarKept
  <2>3. ReferencesOK' /\ (Len(tasks) = Len(Entries))'
    BY <1>2, <1>3, <2>1, SameDocument DEF ReferencesOK, task_ids
  <2>4. QED
    BY <1>2, <2>1, <2>2, <2>3 DEF LoadInvariant, LoadedSoFar
<1>4. CASE ~ReferencesOK
  <2>1. ASSUME IntegersFit, WellFormed PROVE FALSE
    <3>0. PICK i \in DOMAIN tasks :
            ~(Range(tasks[i].dependencies) \subseteq task_ids)
      BY <1>4 DEF ReferencesOK
    <3>1. PICK x \in Range(tasks[i].dependencies) : x \notin task_ids
      BY <3>0
    <3> DEFINE d == tasks[i].dependencies
               e == Entries[i]
               s == DependencyItems(e)
    <3>2. i \in DOMAIN Entries /\ DOMAIN tasks = DOMAIN Entries
      BY <1>1, <1>2, Sizes
    <3>3. /\ RequiredFieldsOK(e) /\ IsSeq(d) /\ Len(d) = Len(s)
          /\ \A k \in 1 .. Len(d) : IsName(s[k]) /\ d[k] = s[k].text
      BY <1>1 DEF LoadedSoFar, Becomes, TakenFrom
    <3>4. PICK k \in 1 .. Len(d) : d[k] = x
      BY <3>3, SeqFacts
    <3>5. e.kind = "object" /\ IsSeq(s) /\ IsText(s[k])
      BY <1>1, <3>2, <3>3, ItemsAre DEF LoadedSoFar, RequiredFieldsOK
    <3>6. s[k] = Text(x) /\ s[k] \in Range(s)
      BY <3>3, <3>4, <3>5, SeqFacts DEF IsText, IsName
    <3>7. e.dependencies.kind = "array" /\ s = e.dependencies.items
      <4>1. CASE e.dependencies.kind # "array"
        <5>1. s = <<>> /\ Len(<<>>) = 0
          BY <4>1 DEF DependencyItems
        <5>2. 1 .. Len(d) = {}
          BY <3>3, <5>1
        <5>3. QED
          BY <3>4, <5>2
      <4>2. QED
        BY <4>1 DEF DependencyItems
    <3>8. e.dependencies # Missing
      BY <3>7 DEF Missing
    <3>9. PICK j \in DOMAIN Entries : Entries[j].id = s[k]
      <4>1. \A v \in Range(Entries[i].dependencies.items) :
              \E j \in DOMAIN Entries : Entries[j].id = v
        BY <2>1, <3>2, <3>8 DEF WellFormed
      <4>2. s[k] \in Range(Entries[i].dependencies.items)
        BY <3>6, <3>7
      <4> HIDE DEF s
      <4>3. QED
        BY <4>1, <4>2
    <3>10. tasks[j].id = Text(x).text
      BY <1>1, <3>2, <3>6, <3>9 DEF LoadedSoFar, Becomes
    <3>11. x \in task_ids
      BY <3>2, <3>9, <3>10 DEF Text, task_ids
    <3>12. QED
      BY <3>1, <3>11
  <2>2. QED
    BY <1>1, <1>4, <2>1, RejectKeeps DEF CheckReferences, ReferencesOK
<1>5. QED
  BY <1>3, <1>4

LEMMA LoadKeeps ==
  ASSUME LoadInvariant, load_tasks_from_file \/ UNCHANGED loadVars
  PROVE  LoadInvariant'
<1>1. CASE UNCHANGED loadVars
  <2>1. /\ document' = document /\ load_pc' = load_pc
        /\ left' = left /\ seen' = seen /\ tasks' = tasks
    BY <1>1 DEF loadVars
  <2>2. /\ Entries' = Entries /\ (IsDocument(document)' <=> IsDocument(document))
        /\ (IntegersFit' <=> IntegersFit) /\ (WellFormed' <=> WellFormed)
    BY <2>1, SameDocument
  <2>3. (HalfRead' <=> HalfRead) /\ (ReferencesOK' <=> ReferencesOK)
    BY <2>1, <2>2 DEF HalfRead, entry, ReferencesOK, task_ids
  <2>4. QED
    BY <2>1, <2>2, <2>3 DEF LoadInvariant
<1>2. QED
  BY <1>1, OpenFileKeeps, BeginTaskKeeps, TakeDependencyKeeps, FinishTaskKeeps,
     CheckReferencesKeeps
  DEF load_tasks_from_file

\* The tasks of module Config are those of the entries read so far, and a file
\* is rejected only for what is wrong with it.
THEOREM LoadInvariantHolds == Spec => []LoadInvariant
<1>1. Init => LoadInvariant
  <2> SUFFICES ASSUME Init PROVE LoadInvariant
    OBVIOUS
  <2>1. /\ IsDocument(document) /\ load_pc = "open" /\ tasks = <<>>
    BY MainAssumption DEF Init, LoadInit
  <2>2. IsSeq(Entries) /\ IsSeq(<<>>) /\ Len(<<>>) = 0 /\ DOMAIN <<>> = {}
    BY <2>1 DEF IsDocument, Entries, IsSeq
  <2>3. Len(Entries) \in Nat
    BY <2>2, SeqFacts
  <2>4. Len(tasks) <= Len(Entries)
    BY <2>1, <2>2, <2>3
  <2>5. QED
    BY <2>1, <2>2, <2>4 DEF LoadInvariant
<1>2. LoadInvariant /\ [Next]_vars => LoadInvariant'
  <2>1. [Next]_vars => load_tasks_from_file \/ UNCHANGED loadVars
    BY DEF Next, TakeOption, PrintUsage, EnterTry, LoadStep, LoadTasks,
       ValidateGraph, WriteDot, CreatePool, RunTasks, Ended, vars
  <2>2. QED
    BY <2>1, LoadKeeps
<1>3. QED
  BY <1>1, <1>2, PTL DEF Spec

\* What the scheduler and its graph take for granted holds of what is loaded.
THEOREM LoadedTasksAreUsableHolds == Spec => []LoadedTasksAreUsable
<1>1. LoadInvariant => LoadedTasksAreUsable
  <2> SUFFICES ASSUME LoadInvariant, load_pc = "loaded", NEW i \in DOMAIN tasks
               PROVE  /\ \A j \in DOMAIN tasks : tasks[i].id = tasks[j].id => i = j
                      /\ Range(tasks[i].dependencies) \subseteq task_ids
                      /\ IsInjective(tasks[i].dependencies)
                      /\ tasks[i].duration >= 0 /\ tasks[i].retry_count >= 0
                      /\ tasks[i].fail_probability \in 0 .. 2
    BY DEF LoadedTasksAreUsable
  <2>1. Becomes(Entries[i], tasks[i])
    BY DEF LoadInvariant
  <2>2. IsInjective(tasks[i].dependencies)
    BY <2>1 DEF Becomes, TakenFrom
  <2>3. tasks[i].duration >= 0
    BY <2>1 DEF Becomes, RequiredFieldsOK
  <2>4. tasks[i].retry_count >= 0 /\ tasks[i].fail_probability \in 0 .. 2
    BY <2>1 DEF Becomes, OptionalFieldsOK
  <2>5. QED
    BY <2>2, <2>3, <2>4 DEF LoadInvariant, ReferencesOK
<1>2. QED
  BY <1>1, LoadInvariantHolds, PTL

\* As long as its integers fit, a file is loaded as it is written, and it is
\* rejected only if it is not well-formed.
THEOREM LoadsExactlyTheFileHolds == Spec => []LoadsExactlyTheFile
<1>1. LoadInvariant => LoadsExactlyTheFile
  <2> SUFFICES ASSUME LoadInvariant, IntegersFit
               PROVE  /\ load_pc = "loaded" => WellFormed
                      /\ load_pc = "rejected" => ~WellFormed
                      /\ load_pc = "loaded" => LoadsWhatIsWritten
    BY DEF LoadsExactlyTheFile, LoadsWellFormedFiles, LoadsWhatIsWritten
  <2>1. ASSUME load_pc = "loaded"
        PROVE  WellFormed /\ LoadsWhatIsWritten
    <3>1. LoadedSoFar /\ Len(tasks) = Len(Entries) /\ ReferencesOK
          /\ document.file = "task list"
      BY <2>1 DEF LoadInvariant, LoadedSoFar
    <3>2. DOMAIN tasks = DOMAIN Entries /\ IsDocument(document)
      BY <3>1, Sizes DEF LoadedSoFar
    <3>3. ASSUME NEW i \in DOMAIN Entries
          PROVE  LET e == Entries[i]
                     t == tasks[i]
                     s == DependencyItems(e)
                 IN  /\ e.kind = "object"
                     /\ e.id = Text(t.id)
                     /\ WellFormedTask(e)
                     /\ t.priority = e.priority.value
                     /\ t.duration = e.duration.value
                     /\ t.retry_count =
                          IF e.retry_count = Missing THEN 0 ELSE e.retry_count.value
                     /\ t.fail_probability =
                          IF e.fail_probability = Missing
                            THEN 0 ELSE Halves(e.fail_probability)
                     /\ e.dependencies # Missing => s = e.dependencies.items
                     /\ IsSeq(s) /\ IsSeq(t.dependencies)
                     /\ Len(s) = Len(t.dependencies)
                     /\ \A k \in 1 .. Len(s) : s[k] = Text(t.dependencies[k])
      <4> DEFINE e == Entries[i]
                 t == tasks[i]
                 s == DependencyItems(e)
      <4>1. Becomes(e, t)
        BY <3>1, <3>2 DEF LoadedSoFar
      <4>2. /\ RequiredFieldsOK(e) /\ OptionalFieldsOK(e)
            /\ e.kind = "object" /\ IsName(e.id)
            /\ TakenFrom(t.dependencies, e)
            /\ Len(t.dependencies) = Len(s)
        BY <4>1 DEF Becomes, RequiredFieldsOK
      <4>3. IsSeq(s) /\ \A k \in 1 .. Len(s) : IsText(s[k])
        BY <3>2, <4>2, ItemsAre
      <4>4. /\ IsSeq(t.dependencies) /\ IsInjective(t.dependencies)
            /\ \A k \in 1 .. Len(s) : IsName(s[k]) /\ t.dependencies[k] = s[k].text
        BY <4>2 DEF TakenFrom
      <4>5. \A k \in 1 .. Len(s) : s[k] = Text(t.dependencies[k])
        BY <4>3, <4>4 DEF IsName, IsText
      <4>6. IsInjective(s)
        <5>1. DOMAIN s = 1 .. Len(s) /\ DOMAIN t.dependencies = 1 .. Len(s)
          BY <4>2, <4>3, <4>4, SeqFacts
        <5>2. QED
          BY <4>4, <5>1 DEF IsInjective
      <4>7. WellFormedTask(e)
        BY <3>2, <4>2, <4>4, <4>6, EntryWellFormed
      <4>8. e.id = Text(t.id)
        <5>1. IsValue(e.id)
          BY <3>2, <4>2, EntryFields
        <5>2. e.id = Text(e.id.text)
          BY <4>2, <5>1, Kinds DEF IsName
        <5>3. QED
          BY <4>1, <5>2 DEF Becomes
      <4>9. t.priority = e.priority.value /\ t.duration = e.duration.value
        BY <3>2, <4>1, <4>2, Fits DEF Becomes, RequiredFieldsOK
      <4>10. t.retry_count =
               IF e.retry_count = Missing THEN 0 ELSE e.retry_count.value
        BY <3>2, <4>1, <4>2, Fits DEF Becomes, OptionalFieldsOK
      <4>11. e.dependencies # Missing => s = e.dependencies.items
        BY <4>7 DEF WellFormedTask, DependencyItems
      <4>12. QED
        BY <4>1, <4>2, <4>3, <4>4, <4>5, <4>7, <4>8, <4>9, <4>10, <4>11
        DEF Becomes
    <3>4. ASSUME NEW i \in DOMAIN Entries, NEW j \in DOMAIN Entries,
                 Entries[i].id = Entries[j].id
          PROVE  i = j
      <4>1. Text(tasks[i].id) = Text(tasks[j].id)
        BY <3>3, <3>4
      <4>2. tasks[i].id = tasks[j].id
        BY <4>1 DEF Text
      <4>3. QED
        BY <3>1, <3>2, <4>2 DEF LoadedSoFar
    <3>5. ASSUME NEW i \in DOMAIN Entries, Entries[i].dependencies # Missing,
                 NEW v \in Range(Entries[i].dependencies.items)
          PROVE  \E j \in DOMAIN Entries : Entries[j].id = v
      <4> DEFINE s == DependencyItems(Entries[i])
                 d == tasks[i].dependencies
      <4>1. /\ s = Entries[i].dependencies.items
            /\ IsSeq(s) /\ IsSeq(d) /\ Len(s) = Len(d)
            /\ \A k \in 1 .. Len(s) : s[k] = Text(d[k])
        BY <3>3, <3>5
      <4>2. v \in Range(s)
        BY <3>5, <4>1
      <4> HIDE DEF s
      <4>3. PICK k \in 1 .. Len(s) : s[k] = v
        BY <4>1, <4>2, SeqFacts
      <4>4. d[k] \in Range(d) /\ v = Text(d[k])
        BY <4>1, <4>3, SeqFacts
      <4>5. d[k] \in task_ids
        BY <3>1, <3>2, <4>4 DEF ReferencesOK
      <4>6. PICK j \in DOMAIN Entries : tasks[j].id = d[k]
        BY <3>2, <4>5 DEF task_ids
      <4>7. QED
        BY <3>3, <4>4, <4>6
    <3>6. WellFormed
      BY <3>1, <3>3, <3>4, <3>5 DEF WellFormed
    <3>7. ASSUME NEW i \in DOMAIN Entries, Entries[i].dependencies # Missing
          PROVE  Entries[i].dependencies.items =
                   [k \in DOMAIN tasks[i].dependencies |->
                      Text(tasks[i].dependencies[k])]
      <4> DEFINE s == DependencyItems(Entries[i])
                 d == tasks[i].dependencies
      <4>1. /\ s = Entries[i].dependencies.items
            /\ IsSeq(s) /\ IsSeq(d) /\ Len(s) = Len(d)
            /\ \A k \in 1 .. Len(s) : s[k] = Text(d[k])
        BY <3>3, <3>7
      <4>2. DOMAIN d = 1 .. Len(s) /\ DOMAIN s = 1 .. Len(s)
        BY <4>1, SeqFacts
      <4> HIDE DEF s, d
      <4>3. s = [k \in 1 .. Len(s) |-> s[k]]
        BY <4>1, <4>2 DEF IsSeq
      <4>4. s = [k \in DOMAIN d |-> Text(d[k])]
        BY <4>1, <4>2, <4>3
      <4>5. QED
        BY <4>1, <4>4 DEF d
    <3>8. ASSUME NEW i \in DOMAIN Entries PROVE tasks[i].id = Entries[i].id.text
      <4>1. Entries[i].id = Text(tasks[i].id)
        BY <3>3
      <4>2. QED
        BY <4>1 DEF Text
    <3>9. LoadsWhatIsWritten
      BY <3>1, <3>2, <3>3, <3>7, <3>8 DEF LoadsWhatIsWritten
    <3>10. QED
      BY <3>6, <3>9
  <2>2. QED
    BY <2>1 DEF LoadInvariant
<1>2. QED
  BY <1>1, LoadInvariantHolds, PTL

-----------------------------------------------------------------------------
(***************************************************************************)
(* The command line.                                                       *)
(***************************************************************************)

\* An option and its value are read.
LEMMA ReadOn ==
  ASSUME arguments \in Seq(DOMAIN Numeral),
         NEW n \in Nat, n % 2 = 1, n + 1 <= Len(arguments)
  PROVE  /\ n \in Options
         /\ (n + 2) % 2 = 1
         /\ \A i \in Options : i < n + 2 => i < n \/ i = n
         /\ \A i \in Options : i < n => i < n + 2
         /\ \A option, v : option # arguments[n] /\ LastRead(option, v, n)
              => LastRead(option, v, n + 2)
         /\ LastRead(arguments[n], arguments[n + 1], n + 2)
<1>1. /\ Len(arguments) \in Nat
      /\ Options = {i \in 1 .. Len(arguments) : i % 2 = 1}
  BY DEF Options
<1>2. n \in Options /\ (n + 2) % 2 = 1
  BY <1>1
<1>3. \A i \in Options : i < n + 2 => i < n \/ i = n
  BY <1>1
<1>4. \A i \in Options : (i < n => i < n + 2) /\ i <= i /\ (i < n => i <= n)
  BY <1>1
<1>5. n < n + 2
  OBVIOUS
<1>6. ASSUME NEW option, NEW v, option # arguments[n], LastRead(option, v, n)
      PROVE  LastRead(option, v, n + 2)
  BY <1>3, <1>4, <1>6 DEF LastRead
<1>7. LastRead(arguments[n], arguments[n + 1], n + 2)
  BY <1>2, <1>3, <1>4, <1>5 DEF LastRead
<1>8. QED
  BY <1>2, <1>3, <1>4, <1>6, <1>7

\* At the end of the arguments, what has been read last is what was given last.
LEMMA LastReadIs ==
  ASSUME arguments \in Seq(DOMAIN Numeral),
         NEW n \in Nat, n % 2 = 1, n <= Len(arguments) + 1, n > Len(arguments),
         NEW option, NEW v, LastRead(option, v, n)
  PROVE  /\ Len(arguments) % 2 = 0
         /\ \A i \in Options : i < n
         /\ v = LastValue(option, "")
<1>1. /\ Len(arguments) \in Nat
      /\ Options = {i \in 1 .. Len(arguments) : i % 2 = 1}
      /\ n = Len(arguments) + 1
  BY DEF Options
<1>2. Len(arguments) % 2 = 0 /\ \A i \in Options : i < n /\ i < Len(arguments)
  BY <1>1
<1>3. \A i : Given(option, i) <=> i \in Options /\ arguments[i] = option
  BY <1>2 DEF Given
<1>4. CASE \A i \in Options : i < n => arguments[i] # option
  <2>1. ~\E i \in Options : Given(option, i)
    BY <1>2, <1>3, <1>4
  <2>2. v = ""
    BY <1>4 DEF LastRead
  <2>3. QED
    BY <1>2, <2>1, <2>2 DEF LastValue
<1>5. CASE ~\A i \in Options : i < n => arguments[i] # option
  <2>1. PICK i \in Options :
          /\ arguments[i] = option
          /\ v = arguments[i + 1]
          /\ \A j \in Options : j < n /\ arguments[j] = option => j <= i
    BY <1>5 DEF LastRead
  <2>2. GivenLast(option, i)
    BY <1>2, <1>3, <2>1 DEF GivenLast
  <2>3. \A k \in Options : GivenLast(option, k) => k = i
    <3> SUFFICES ASSUME NEW k \in Options, GivenLast(option, k) PROVE k = i
      OBVIOUS
    <3>1. k <= i /\ i <= k
      BY <2>2 DEF GivenLast
    <3>2. QED
      BY <1>1, <3>1
  <2>4. LastValue(option, "") = arguments[1 + CHOOSE k \in Options : GivenLast(option, k)]
    BY <2>2 DEF LastValue, GivenLast
  <2>5. (CHOOSE k \in Options : GivenLast(option, k)) = i
    BY <2>2, <2>3
  <2>6. 1 + i = i + 1
    BY <1>1
  <2>7. QED
    BY <1>2, <2>1, <2>4, <2>5, <2>6
<1>6. QED
  BY <1>4, <1>5

\* The options with a value, one at a time.
LEMMA TakeOptionKeeps ==
  ASSUME ArgumentInvariant, TakeOption
  PROVE  ArgumentInvariant'
<1>1. /\ arguments \in Seq(DOMAIN Numeral) /\ arguments' = arguments
      /\ index \in Nat /\ index % 2 = 1 /\ index + 1 <= Len(arguments)
      /\ pc = "arguments"
      /\ Len(arguments) \in Nat
  BY DEF ArgumentInvariant, TakeOption
<1>2. Options' = Options
  BY <1>1 DEF Options
<1>3. \A option, v, n : LastRead(option, v, n)' <=> LastRead(option, v, n)
  BY <1>1, <1>2 DEF LastRead
<1>4. CASE RejectWorkers
  <2>1. UNCHANGED <<index, config_path, dot_output_path>> /\ pc' = "aborted"
    BY <1>4 DEF RejectWorkers, locals
  <2>2. QED
    BY <1>1, <1>2, <2>1 DEF ArgumentInvariant, LastRead, IsWorkerCount
<1>5. CASE TakeConfig \/ TakeDot \/ TakeWorkers
  <2>1. index' = index + 2 /\ pc' = "arguments"
    BY <1>1, <1>5 DEF TakeConfig, TakeDot, TakeWorkers, AfterValue
  <2>2. index' \in Nat /\ index' % 2 = 1 /\ index' <= Len(arguments) + 1
    BY <1>1, <2>1, ReadOn
  <2>3. /\ arguments[index] \in {"--config", "--workers", "--dot"}
        /\ arguments[index] = "--workers" => IsWorkerCount(arguments[index + 1])
        /\ index < Len(arguments)
    BY <1>1, <1>5 DEF TakeConfig, TakeDot, TakeWorkers, Argument, Value
  <2>4. \A i \in Options : i < index + 2 =>
          /\ i < Len(arguments)
          /\ arguments[i] \in {"--config", "--workers", "--dot"}
          /\ arguments[i] = "--workers" => IsWorkerCount(arguments[i + 1])
    BY <1>1, <2>3, ReadOn DEF ArgumentInvariant
  <2>5. LastRead("--config", config_path', index + 2)
    <3>1. CASE TakeConfig
      BY <1>1, <3>1, ReadOn DEF TakeConfig, Argument, Value
    <3>2. CASE TakeDot \/ TakeWorkers
      <4>1. config_path' = config_path /\ arguments[index] # "--config"
        BY <3>2 DEF TakeDot, TakeWorkers, Argument
      <4>2. QED
        BY <1>1, <4>1, ReadOn DEF ArgumentInvariant
    <3>3. QED
      BY <1>5, <3>1, <3>2
  <2>6. LastRead("--dot", dot_output_path', index + 2)
    <3>1. CASE TakeDot
      BY <1>1, <3>1, ReadOn DEF TakeDot, Argument, Value
    <3>2. CASE TakeConfig \/ TakeWorkers
      <4>1. dot_output_path' = dot_output_path /\ arguments[index] # "--dot"
        BY <3>2 DEF TakeConfig, TakeWorkers, Argument
      <4>2. QED
        BY <1>1, <4>1, ReadOn DEF ArgumentInvariant
    <3>3. QED
      BY <1>5, <3>1, <3>2
  <2>7. LastRead("--config", config_path, index)'
        /\ LastRead("--dot", dot_output_path, index)'
    BY <1>1, <1>2, <2>1, <2>5, <2>6 DEF LastRead
  <2>8. QED
    BY <1>1, <1>2, <2>1, <2>2, <2>4, <2>7 DEF ArgumentInvariant, IsWorkerCount
<1>6. QED
  BY <1>4, <1>5 DEF TakeOption

LEMMA ArgumentsKept ==
  ASSUME ArgumentInvariant,
         UNCHANGED <<arguments, index, config_path, dot_output_path>>,
         \/ pc' \in {"arguments", "usage", "aborted"}
         \/ pc \notin {"arguments", "usage", "aborted"}
         \/ index > Len(arguments) /\ config_path # ""
  PROVE  ArgumentInvariant'
<1>1. Options' = Options
  BY DEF Options
<1>2. QED
  BY <1>1 DEF ArgumentInvariant, LastRead, IsWorkerCount

\* What main has read of the command line are options with their values.
THEOREM ArgumentInvariantHolds == Spec => []ArgumentInvariant
<1>1. Init => ArgumentInvariant
  <2> SUFFICES ASSUME Init PROVE ArgumentInvariant
    OBVIOUS
  <2>1. /\ index = 1 /\ config_path = "" /\ dot_output_path = ""
        /\ pc = "arguments"
    BY DEF Init
  <2>2. arguments \in Seq(DOMAIN Numeral)
    BY MainAssumption DEF Init
  <2>3. Len(arguments) \in Nat /\ DOMAIN arguments = 1 .. Len(arguments)
    BY <2>2
  <2>4. \A i \in Options : ~(i < 1)
    BY <2>3 DEF Options
  <2>5. 1 \in Nat /\ 1 % 2 = 1 /\ 1 <= Len(arguments) + 1
    BY <2>3
  <2>6. LastRead("--config", "", 1) /\ LastRead("--dot", "", 1)
    BY <2>4 DEF LastRead
  <2>7. QED
    BY <2>1, <2>2, <2>4, <2>5, <2>6 DEF ArgumentInvariant
<1>2. ArgumentInvariant /\ [Next]_vars => ArgumentInvariant'
  <2> SUFFICES ASSUME ArgumentInvariant, [Next]_vars PROVE ArgumentInvariant'
    OBVIOUS
  <2>1. CASE TakeOption
    BY <2>1, TakeOptionKeeps
  <2>2. CASE PrintUsage
    BY <2>2, ArgumentsKept DEF PrintUsage, locals
  <2>3. CASE EnterTry
    BY <2>3, ArgumentsKept DEF EnterTry
  <2>4. CASE LoadStep \/ LoadTasks \/ ValidateGraph \/ WriteDot
    BY <2>4, ArgumentsKept
    DEF LoadStep, LoadTasks, ValidateGraph, WriteDot, Stage, locals
  <2>5. CASE CreatePool \/ RunTasks
    BY <2>5, ArgumentsKept DEF CreatePool, RunTasks, locals
  <2>6. CASE UNCHANGED vars
    BY <2>6, ArgumentsKept DEF vars, locals
  <2>7. QED
    BY <2>1, <2>2, <2>3, <2>4, <2>5, <2>6 DEF Next, Ended
<1>3. QED
  BY <1>1, <1>2, PTL DEF Spec

\* The argument loop is left with the values that were given.
LEMMA AllRead ==
  ASSUME ArgumentInvariant, index > Len(arguments)
  PROVE  /\ config_path = LastValue("--config", "")
         /\ dot_output_path = LastValue("--dot", "")
         /\ FollowsUsage <=> config_path # ""
         /\ \A i \in Options :
              Given("--workers", i) => IsWorkerCount(arguments[i + 1])
<1>1. /\ arguments \in Seq(DOMAIN Numeral)
      /\ index \in Nat /\ index % 2 = 1 /\ index <= Len(arguments) + 1
      /\ LastRead("--config", config_path, index)
      /\ LastRead("--dot", dot_output_path, index)
  BY DEF ArgumentInvariant
<1>2. /\ Len(arguments) % 2 = 0
      /\ \A i \in Options : i < index
      /\ config_path = LastValue("--config", "")
      /\ dot_output_path = LastValue("--dot", "")
  BY <1>1, LastReadIs
<1>3. QED
  BY <1>2 DEF ArgumentInvariant, FollowsUsage, Given

-----------------------------------------------------------------------------
(***************************************************************************)
(* The number of workers.                                                  *)
(***************************************************************************)

\* What an accepted number is in the word.
LEMMA WordsAre ==
  ASSUME NEW n, n.value \in Nat, strtoul(n) # 0
  PROVE  /\ n.value > WordMax => strtoul(n) = WordMax
         /\ n.value <= WordMax /\ ~n.minus => strtoul(n) = n.value
         /\ n.value <= WordMax /\ n.minus => strtoul(n) + n.value = 2 ^ WordBits
<1>1. PICK m \in Nat : m = 2 ^ WordBits
  BY MainAssumption
<1>2. PICK k \in Nat : k = n.value
  OBVIOUS
<1>3. WordMax = m - 1
  BY <1>1 DEF WordMax
<1>4. ASSUME k <= m - 1, n.minus
      PROVE  strtoul(n) + k = m
  <2>1. strtoul(n) = (m - k) % m
    BY <1>1, <1>2, <1>3, <1>4 DEF strtoul
  <2>2. k # 0
    <3>1. m # 0 => m % m = 0
      OBVIOUS
    <3>2. QED
      BY <1>4, <2>1, <3>1
  <2>3. \A x \in 0 .. m - 1 : x % m = x
    OBVIOUS
  <2>4. m - k \in 0 .. m - 1
    BY <1>4, <2>2
  <2>5. QED
    BY <2>1, <2>3, <2>4
<1>5. QED
  BY <1>1, <1>2, <1>3, <1>4 DEF strtoul

\* Reading an option with its value keeps to the last count.
LEMMA CountReadOn ==
  ASSUME ArgumentInvariant, CountRead(index), pc = "arguments", TakeOption,
         pc' = "arguments"
  PROVE  CountRead(index)'
<1>1. /\ arguments \in Seq(DOMAIN Numeral) /\ arguments' = arguments
      /\ index \in Nat /\ index % 2 = 1 /\ index + 1 <= Len(arguments)
  BY DEF ArgumentInvariant, TakeOption
<1>2. /\ index \in Options
      /\ \A i \in Options : i < index + 2 => i < index \/ i = index
      /\ \A i \in Options : i < index => i < index + 2 /\ i <= index
      /\ index < index + 2
  <2>1. Options \subseteq Nat
    BY <1>1 DEF Options
  <2>2. QED
    BY <1>1, <2>1, ReadOn
<1>3. Options' = Options
  BY <1>1 DEF Options
<1>4. index' = index + 2
  BY DEF TakeOption, TakeConfig, TakeDot, TakeWorkers, RejectWorkers, AfterValue
<1>5. CASE TakeWorkers
  <2>1. /\ arguments[index] = "--workers"
        /\ worker_count' = strtoul(Numeral[arguments[index + 1]])
    BY <1>5 DEF TakeWorkers, Argument, Value
  <2>2. \A j \in Options : j < index + 2 => j <= index
    BY <1>1, <1>2
  <2>3. QED
    BY <1>1, <1>2, <1>3, <1>4, <2>1, <2>2 DEF CountRead
<1>6. CASE TakeConfig \/ TakeDot
  <2>1. worker_count' = worker_count /\ arguments[index] # "--workers"
    BY <1>6 DEF TakeConfig, TakeDot, Argument
  <2>2. QED
    BY <1>1, <1>2, <1>3, <1>4, <2>1 DEF CountRead
<1>7. QED
  BY <1>5, <1>6 DEF TakeOption, RejectWorkers

\* When main has read the arguments, the number of workers is as they say.
LEMMA CountIsRead ==
  ASSUME ArgumentInvariant, CountInvariant, EnterTry
  PROVE  CountFollowsUsage'
<1>1. /\ arguments \in Seq(DOMAIN Numeral) /\ arguments' = arguments
      /\ index \in Nat /\ index % 2 = 1 /\ index <= Len(arguments) + 1
      /\ index > Len(arguments)
      /\ LastRead("--config", config_path, index)
      /\ CountRead(index) /\ threads = 0 /\ threads' = threads
      /\ worker_count' = IF worker_count = 0 THEN 1 ELSE worker_count
  BY DEF ArgumentInvariant, CountInvariant, EnterTry
<1>2. /\ Len(arguments) \in Nat
      /\ Options = {i \in 1 .. Len(arguments) : i % 2 = 1}
      /\ \A i \in Options : i < index /\ i < Len(arguments)
  <2>1. \A i \in Options : i < index
    BY <1>1, LastReadIs
  <2>2. \A i \in Options : i < index => i < Len(arguments)
    BY DEF ArgumentInvariant
  <2>3. /\ Len(arguments) \in Nat
        /\ Options = {i \in 1 .. Len(arguments) : i % 2 = 1}
    BY <1>1 DEF Options
  <2>4. QED
    BY <2>1, <2>2, <2>3
<1>3. \A i : Given("--workers", i) <=> i \in Options /\ arguments[i] = "--workers"
  BY <1>2 DEF Given
<1>4. /\ Options' = Options
      /\ \A i : Given("--workers", i)' <=> Given("--workers", i)
      /\ \A i : GivenLast("--workers", i)' <=> GivenLast("--workers", i)
  BY <1>1 DEF Options, Given, GivenLast
<1>5. ASSUME \A i \in Options : ~Given("--workers", i)
      PROVE  worker_count' = 1
  BY <1>1, <1>3, <1>5 DEF CountRead
<1>6. ASSUME NEW i \in Options, GivenLast("--workers", i)
      PROVE  LET n == Numeral[arguments[i + 1]]
             IN  /\ n.value > WordMax => worker_count' = WordMax /\ threads' = 0
                 /\ n.value <= WordMax /\ ~n.minus => worker_count' = n.value
                 /\ n.value <= WordMax /\ n.minus =>
                      worker_count' + n.value = 2 ^ WordBits
  <2> DEFINE n == Numeral[arguments[i + 1]]
  <2>1. Given("--workers", i) /\ arguments[i] = "--workers"
    BY <1>3, <1>6 DEF GivenLast
  <2>2. worker_count = strtoul(n)
    <3>1. PICK k \in Options :
            /\ arguments[k] = "--workers"
            /\ worker_count = strtoul(Numeral[arguments[k + 1]])
            /\ \A j \in Options : j < index /\ arguments[j] = "--workers" => j <= k
      BY <1>1, <1>2, <2>1 DEF CountRead
    <3>2. k <= i /\ i <= k
      BY <1>2, <1>3, <1>6, <2>1, <3>1 DEF GivenLast
    <3>3. k = i
      BY <1>2, <3>2
    <3>4. QED
      BY <3>1, <3>3
  <2>3. strtoul(n) # 0
    BY <1>2, <2>1 DEF ArgumentInvariant, IsWorkerCount
  <2>4. n.value \in Nat
    <3>1. i + 1 \in 1 .. Len(arguments)
      BY <1>2
    <3>2. arguments[i + 1] \in DOMAIN Numeral
      BY <1>1, <3>1
    <3>3. QED
      BY <3>2, MainAssumption
  <2>5. worker_count' = strtoul(n) /\ threads' = 0
    BY <1>1, <2>2, <2>3
  <2> HIDE DEF n
  <2>6. QED
    BY <2>3, <2>4, <2>5, WordsAre DEF n
<1>7. QED
  BY <1>1, <1>4, <1>5, <1>6 DEF CountFollowsUsage, WordMax

\* A step that starts no thread and reads no argument.
LEMMA CountKept ==
  ASSUME CountInvariant, UNCHANGED <<arguments, index, worker_count>>,
         threads' = threads \/ threads' = 0,
         \/ pc' = pc
         \/ pc' \in {"usage", "aborted"} /\ threads' = 0
         \/ /\ pc \notin {"arguments", "usage", "aborted"}
            /\ pc' # "arguments"
            /\ pc' \in {"usage", "load", "validate", "dot", "pool"}
                 => threads' = 0
  PROVE  CountInvariant'
<1>1. /\ CountFollowsUsage => CountFollowsUsage'
      /\ CountRead(index)' <=> CountRead(index)
  BY DEF CountFollowsUsage, CountRead, GivenLast, Given, Options, strtoul, WordMax
<1>2. QED
  BY <1>1 DEF CountInvariant

\* The number of workers is the last count that was given.
THEOREM CountInvariantHolds == Spec => []CountInvariant
<1>1. Init => CountInvariant
  <2> SUFFICES ASSUME Init PROVE CountInvariant
    OBVIOUS
  <2>1. /\ index = 1 /\ worker_count = 0 /\ pc = "arguments" /\ threads = 0
        /\ arguments \in Seq(DOMAIN Numeral)
    BY MainAssumption DEF Init
  <2>2. \A i \in Options : ~(i < 1)
    BY <2>1 DEF Options
  <2>3. QED
    BY <2>1, <2>2 DEF CountInvariant, CountRead
<1>2. ArgumentInvariant /\ CountInvariant /\ [Next]_vars => CountInvariant'
  <2> SUFFICES ASSUME ArgumentInvariant, CountInvariant, [Next]_vars
               PROVE  CountInvariant'
    OBVIOUS
  <2>1. CASE TakeOption
    <3>1. pc = "arguments" /\ threads' = threads /\ threads = 0
      BY <2>1 DEF TakeOption, CountInvariant
    <3>2. CASE RejectWorkers
      <4>1. /\ UNCHANGED <<arguments, index, worker_count>>
            /\ pc' = "aborted"
        BY <2>1, <3>2 DEF TakeOption, RejectWorkers, locals
      <4>2. QED
        BY <3>1, <4>1, CountKept
    <3>3. CASE TakeConfig \/ TakeDot \/ TakeWorkers
      <4>1. pc' = "arguments"
        BY <3>1, <3>3 DEF TakeConfig, TakeDot, TakeWorkers
      <4>2. CountRead(index)'
        BY <2>1, <3>1, <4>1, CountReadOn DEF CountInvariant
      <4>3. QED
        BY <3>1, <4>1, <4>2 DEF CountInvariant
    <3>4. QED
      BY <2>1, <3>2, <3>3 DEF TakeOption
  <2>2. CASE PrintUsage
    BY <2>2, CountKept DEF PrintUsage, locals, CountInvariant
  <2>3. CASE EnterTry
    <3>1. CountFollowsUsage' /\ pc' = "load" /\ threads' = 0
      BY <2>3, CountIsRead DEF EnterTry, CountInvariant
    <3>2. QED
      BY <3>1 DEF CountInvariant
  <2>4. CASE LoadStep \/ LoadTasks \/ ValidateGraph \/ WriteDot
    <3>1. UNCHANGED <<arguments, index, worker_count, threads>>
      BY <2>4 DEF LoadStep, LoadTasks, ValidateGraph, WriteDot, Stage, locals
    <3>2. /\ pc \in {"load", "validate", "dot"}
          /\ pc' \in {"load", "validate", "dot", "pool", "exit 1"}
      BY <2>4 DEF LoadStep, LoadTasks, ValidateGraph, WriteDot, Stage
    <3>3. QED
      BY <3>1, <3>2, CountKept DEF CountInvariant
  <2>5. CASE CreatePool
    <3>1. /\ pc = "pool" /\ threads = 0 /\ CountFollowsUsage
          /\ UNCHANGED <<arguments, index, worker_count>>
      BY <2>5 DEF CreatePool, locals, CountInvariant
    <3>2. CASE PoolThrows
      BY <3>1, <3>2, CountKept DEF PoolThrows
    <3>3. CASE PoolFails \/ PoolStarts
      <4>1. pc' \in {"aborted", "hung", "run"}
        BY <3>3 DEF PoolFails, PoolStarts
      <4>2. worker_count # WordMax
        <5>1. PICK m \in Nat : m = 2 ^ WordBits
          BY MainAssumption
        <5>2. WordMax = m - 1 /\ MaxPoolSize \in 0 .. m - 2
          BY <5>1, MainAssumption DEF WordMax
        <5>3. CASE worker_count = WordMax
          <6>1. ~(WordMax <= MaxPoolSize) /\ WordMax \notin ThreadLimit + 1 .. MaxPoolSize
            BY <5>1, <5>2, MainAssumption
          <6>2. QED
            BY <3>3, <5>3, <6>1 DEF PoolFails, PoolStarts
        <5>4. QED
          BY <5>3
      <4>3. CountFollowsUsage'
        BY <3>1, <4>2
        DEF CountFollowsUsage, GivenLast, Given, Options, WordMax
      <4>4. QED
        BY <4>1, <4>3 DEF CountInvariant
    <3>4. QED
      BY <2>5, <3>2, <3>3 DEF CreatePool
  <2>6. CASE RunTasks
    BY <2>6, CountKept DEF RunTasks, locals
  <2>7. CASE UNCHANGED vars
    BY <2>7, CountKept DEF vars, locals
  <2>8. QED
    BY <2>1, <2>2, <2>3, <2>4, <2>5, <2>6, <2>7 DEF Next, Ended
<1>3. QED
  BY <1>1, <1>2, ArgumentInvariantHolds, PTL DEF Spec

-----------------------------------------------------------------------------
(***************************************************************************)
(* The stages.                                                             *)
(***************************************************************************)

LEMMA SameUsage ==
  ASSUME arguments' = arguments
  PROVE  /\ FollowsUsage' <=> FollowsUsage
         /\ Options' = Options
         /\ \A option, i : Given(option, i)' <=> Given(option, i)
  BY DEF FollowsUsage, LastValue, GivenLast, Options, Given

LEMMA ValidKept ==
  ASSUME UNCHANGED <<arguments, load_pc, tasks>>
  PROVE  Valid' <=> Valid
<1>1. Graph!Acyclic' <=> Graph!Acyclic
  BY DEF Graph!Acyclic, Graph!Tasks
<1>2. QED
  BY <1>1, SameUsage DEF Valid

\* Each stage of run() is reached through the ones before it.
THEOREM StageInvariantHolds == Spec => []StageInvariant
<1>1. Init => StageInvariant
  BY DEF Init, StageInvariant
<1>2. ArgumentInvariant /\ StageInvariant /\ [Next]_vars => StageInvariant'
  <2> SUFFICES ASSUME ArgumentInvariant, StageInvariant, [Next]_vars
               PROVE  StageInvariant'
    OBVIOUS
  <2>same. /\ arguments' = arguments
           /\ FollowsUsage' <=> FollowsUsage
           /\ Options' = Options
           /\ \A option, i : Given(option, i)' <=> Given(option, i)
    <3>1. arguments' = arguments
      BY DEF Next, TakeOption, PrintUsage, EnterTry, LoadStep, LoadTasks,
         ValidateGraph, WriteDot, Stage, CreatePool, RunTasks, Ended, vars
    <3>2. QED
      BY <3>1, SameUsage
  <2>kept. ASSUME UNCHANGED <<load_pc, tasks>> PROVE Valid' <=> Valid
    BY <2>same, <2>kept, ValidKept
  <2>1. CASE TakeOption
    <3>1. /\ pc = "arguments" /\ UNCHANGED <<load_pc, tasks, dot_written, threads>>
          /\ index + 1 <= Len(arguments)
      BY <2>1 DEF TakeOption, loadVars
    <3>2. CASE RejectWorkers
      <4>1. pc' = "aborted" /\ arguments[index] = "--workers"
            /\ ~IsWorkerCount(arguments[index + 1])
        BY <3>2 DEF RejectWorkers, Argument, Value
      <4>2. index \in Options /\ index < Len(arguments)
        BY <3>1, ReadOn DEF ArgumentInvariant
      <4>3. Given("--workers", index)
        BY <4>1, <4>2 DEF Given
      <4>4. QED
        BY <2>same, <2>kept, <3>1, <4>1, <4>2, <4>3
        DEF StageInvariant, IsWorkerCount
    <3>3. CASE pc' = "arguments"
      BY <2>kept, <3>1, <3>3 DEF StageInvariant
    <3>4. QED
      BY <2>1, <3>1, <3>2, <3>3 DEF TakeOption, TakeConfig, TakeDot, TakeWorkers
  <2>2. CASE PrintUsage
    <3>1. /\ pc = "arguments" /\ pc' = "usage"
          /\ UNCHANGED <<load_pc, tasks, dot_written, threads>>
      BY <2>2 DEF PrintUsage, loadVars
    <3>2. ~FollowsUsage
      <4>0. /\ index \in Nat /\ index % 2 = 1
            /\ Len(arguments) \in Nat /\ DOMAIN arguments = 1 .. Len(arguments)
        <5>1. arguments \in Seq(DOMAIN Numeral) /\ index \in Nat /\ index % 2 = 1
          BY DEF ArgumentInvariant
        <5>2. QED
          BY <5>1
      <4>1. CASE index > Len(arguments) /\ config_path = ""
        BY <4>1, AllRead
      <4>2. CASE index = Len(arguments)
        <5>1. Len(arguments) % 2 # 0
          BY <4>0, <4>2
        <5>2. QED
          BY <5>1 DEF FollowsUsage
      <4>3. CASE /\ index < Len(arguments)
                 /\ Argument \notin {"--config", "--workers", "--dot"}
        <5>1. index \in Options
          <6>1. index # 0
            BY <4>0
          <6>2. index \in 1 .. Len(arguments)
            BY <4>0, <4>3, <6>1
          <6>3. QED
            BY <4>0, <6>2 DEF Options
        <5>2. QED
          BY <4>3, <5>1 DEF FollowsUsage, Argument
      <4>4. QED
        BY <2>2, <4>1, <4>2, <4>3 DEF PrintUsage
    <3>3. QED
      BY <2>same, <2>kept, <3>1, <3>2 DEF StageInvariant
  <2>3. CASE EnterTry
    BY <2>3, <2>kept DEF EnterTry, StageInvariant, loadVars
  <2>4. CASE LoadStep
    BY <2>4 DEF LoadStep, StageInvariant
  <2>5. CASE LoadTasks
    BY <2>5, <2>kept DEF LoadTasks, Stage, StageInvariant, loadVars
  <2>6. CASE ValidateGraph
    <3>1. FollowsUsage
      BY <2>6, AllRead DEF ValidateGraph, Stage, ArgumentInvariant
    <3>2. QED
      BY <2>6, <2>kept, <3>1
      DEF ValidateGraph, Stage, StageInvariant, Valid, Validated, loadVars
  <2>7. CASE WriteDot
    BY <2>7, <2>kept DEF WriteDot, Stage, StageInvariant, loadVars
  <2>8. CASE CreatePool
    <3>1. /\ pc = "pool" /\ UNCHANGED <<load_pc, tasks, dot_written>>
          /\ Valid /\ threads = 0
      BY <2>8 DEF CreatePool, StageInvariant, loadVars
    <3>2. \/ pc' = "exit 1" /\ threads' = 0
          \/ pc' \in {"aborted", "hung"} /\ threads' # 0
          \/ pc' = "run"
      <4>1. ThreadLimit > 0 => ThreadLimit # 0
        BY MainAssumption
      <4>2. QED
        BY <2>8, <3>1, <4>1 DEF CreatePool, PoolThrows, PoolFails, PoolStarts
    <3>3. QED
      BY <2>kept, <3>1, <3>2 DEF StageInvariant
  <2>9. CASE RunTasks
    BY <2>9, <2>kept DEF RunTasks, StageInvariant, loadVars
  <2>10. CASE UNCHANGED vars
    BY <2>10, <2>same, <2>kept
    DEF vars, loadVars, locals, StageInvariant, IsWorkerCount
  <2>11. QED
    BY <2>1, <2>2, <2>3, <2>4, <2>5, <2>6, <2>7, <2>8, <2>9, <2>10
    DEF Next, Ended
<1>3. QED
  BY <1>1, <1>2, ArgumentInvariantHolds, PTL DEF Spec

\* Exactly the command lines that follow the usage line get past the loop of
\* main, with the two paths and the count that were given last; a count that is
\* left out is one, and a count beyond the word never gets a thread.
THEOREM ArgumentsFollowUsageHolds == Spec => []ArgumentsFollowUsage
<1>1. ArgumentInvariant /\ CountInvariant /\ StageInvariant
        => ArgumentsFollowUsage
  <2> SUFFICES ASSUME ArgumentInvariant, CountInvariant, StageInvariant
               PROVE  ArgumentsFollowUsage
    OBVIOUS
  <2>1. ASSUME pc \notin {"arguments", "usage", "aborted"}
        PROVE  /\ FollowsUsage
               /\ config_path = LastValue("--config", "")
               /\ dot_output_path = LastValue("--dot", "")
               /\ \A i \in Options :
                    Given("--workers", i) => IsWorkerCount(arguments[i + 1])
    <3>1. index > Len(arguments) /\ config_path # ""
      BY <2>1 DEF ArgumentInvariant
    <3>2. QED
      BY <3>1, AllRead
  <2>2. QED
    BY <2>1 DEF ArgumentsFollowUsage, StageInvariant, CountInvariant
<1>2. QED
  BY <1>1, ArgumentInvariantHolds, CountInvariantHolds, StageInvariantHolds, PTL

\* Nothing is written and no thread is started for bad input, and no thread
\* outlives an orderly exit.
THEOREM NoTraceOfBadInputHolds == Spec => []NoTraceOfBadInput
<1>1. StageInvariant => NoTraceOfBadInput
  <2> SUFFICES ASSUME StageInvariant PROVE NoTraceOfBadInput
    OBVIOUS
  <2>1. dot_written \/ threads > 0 => Valid
    BY DEF StageInvariant
  <2>2. pc \in {"usage", "exit 0", "exit 1"} => threads = 0
    BY DEF StageInvariant
  <2>3. QED
    BY <2>1, <2>2 DEF NoTraceOfBadInput, Valid
<1>2. QED
  BY <1>1, StageInvariantHolds, PTL
=============================================================================
