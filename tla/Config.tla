------------------------------- MODULE Config -------------------------------
(***************************************************************************)
(* Scheduler::load_tasks_from_file and parse_task (src/src/scheduler.cpp): *)
(* from the parsed configuration file to tasks_, or to an exception.       *)
(*                                                                         *)
(* A JSON value is its kind and as much of its content as the loader tells *)
(* apart.  Numbers are scaled down: an int has IntBits bits, the integers  *)
(* of the JSON library have JsonBits.  Which of the messages an exception  *)
(* carries is left out: all of them end the program in the same way.       *)
(* Module Main has the specification.                                      *)
(***************************************************************************)
EXTENDS Integers, Sequences, SequencesExt

CONSTANTS IntBits, JsonBits

\* The last two are facts of arithmetic, of which the provers know nothing.
ASSUME ConfigAssumption ==
  /\ IntBits \in Nat \ {0}
  /\ JsonBits \in Nat
  /\ IntBits < JsonBits
  /\ 2 ^ (IntBits - 1) \in Nat \ {0}
  /\ 2 ^ IntBits = 2 * 2 ^ (IntBits - 1)

VARIABLES document,  \* what there is at config_path
          load_pc,   \* where load_tasks_from_file is
          left,      \* the dependencies of a task still to be looked at
          seen,      \* the dependencies of that task so far
          tasks      \* tasks_

loadVars == <<document, load_pc, left, seen, tasks>>

-----------------------------------------------------------------------------
\* JSON values.
Missing == [kind |-> "missing"]
Other == [kind |-> "other"]             \* null, true, an object
Text(s) == [kind |-> "string", text |-> s]
Whole(n) == [kind |-> "number", half |-> FALSE, value |-> n]
Half(n) == [kind |-> "number", half |-> TRUE, value |-> n]   \* n + 1/2
List(s) == [kind |-> "array", items |-> s]

\* What there may be at config_path: the values of an entry are JSON values.
IsText(v) == v.kind = "string" => v = Text(v.text)

IsValue(v) ==
  \/ v \in {Missing, Other}
  \/ v.kind = "string" /\ IsText(v)
  \/ v.kind = "number" /\ v.value \in Int /\ v \in {Whole(v.value), Half(v.value)}
  \/ /\ v.kind = "array" /\ v = List(v.items)
     /\ v.items \in Seq(Range(v.items))
     /\ \A w \in Range(v.items) : IsText(w)

IsDocument(d) ==
  /\ d.entries \in Seq(Range(d.entries))
  /\ \A e \in Range(d.entries) : e.kind = "object" =>
       \A v \in {e.id, e.name, e.priority, e.duration, e.dependencies,
                 e.retry_count, e.fail_probability} : IsValue(v)

IsName(v) == v.kind = "string" /\ v.text # ""
is_number(v) == v.kind = "number"

\* A literal without fraction and exponent becomes an integer of JsonBits bits,
\* signed or unsigned, and a floating-point number when neither can hold it.
is_number_integer(v) ==
  /\ is_number(v)
  /\ ~v.half
  /\ v.value \in -(2 ^ (JsonBits - 1)) .. 2 ^ JsonBits - 1

IntRange == -(2 ^ (IntBits - 1)) .. 2 ^ (IntBits - 1) - 1

\* get<int>() is a static_cast: it keeps the low bits.
get_int(v) == CHOOSE n \in IntRange : (v.value - n) % 2 ^ IntBits = 0

\* get<double>(), in halves.
Halves(v) == 2 * v.value + (IF v.half THEN 1 ELSE 0)

-----------------------------------------------------------------------------
LoadInit ==
  /\ load_pc = "open"
  /\ left = <<>>
  /\ seen = <<>>
  /\ tasks = <<>>

Reject ==
  /\ load_pc' = "rejected"
  /\ UNCHANGED <<document, left, seen, tasks>>

\* The file is opened, read and parsed, and has to be {"tasks": [...]}.
OpenFile ==
  /\ load_pc = "open"
  /\ IF document.file = "task list"
       THEN load_pc' = "entry" /\ UNCHANGED <<document, left, seen, tasks>>
       ELSE Reject

Entries == document.entries
entry == Entries[Len(tasks) + 1]
task_ids == {tasks[i].id : i \in DOMAIN tasks}

\* The fields of a task that parse_task requires.
RequiredFieldsOK(e) ==
  /\ e.kind = "object"
  /\ IsName(e.id) /\ IsName(e.name)
  /\ is_number_integer(e.priority) /\ is_number_integer(e.duration)
  /\ get_int(e.duration) >= 0
  /\ e.dependencies.kind \in {"missing", "array"}

BeginTask ==
  /\ load_pc = "entry"
  /\ Len(tasks) < Len(Entries)
  /\ IF RequiredFieldsOK(entry)
       THEN /\ load_pc' = "dependencies"
            /\ left' = IF entry.dependencies.kind = "array"
                         THEN entry.dependencies.items ELSE <<>>
            /\ seen' = <<>>
            /\ UNCHANGED <<document, tasks>>
       ELSE Reject

\* A mistake to detect: a dependency that is listed twice.
AnyDependency(v) == IsName(v)

NewDependency(v) == IsName(v) /\ ~Contains(seen, v.text)

TakeDependency ==
  /\ load_pc = "dependencies"
  /\ left # <<>>
  /\ IF NewDependency(Head(left))
       THEN /\ seen' = Append(seen, Head(left).text)
            /\ left' = Tail(left)
            /\ UNCHANGED <<document, load_pc, tasks>>
       ELSE Reject

OptionalFieldsOK(e) ==
  /\ \/ e.retry_count = Missing
     \/ is_number_integer(e.retry_count) /\ get_int(e.retry_count) >= 0
  /\ \/ e.fail_probability = Missing
     \/ is_number(e.fail_probability) /\ Halves(e.fail_probability) \in 0 .. 2

\* Task::Task and the assignments that follow it.
Task(e) ==
  [id |-> e.id.text,
   priority |-> get_int(e.priority),
   duration |-> get_int(e.duration),
   dependencies |-> seen,
   retry_count |->
     IF e.retry_count = Missing THEN 0 ELSE get_int(e.retry_count),
   fail_probability |->
     IF e.fail_probability = Missing THEN 0 ELSE Halves(e.fail_probability)]

\* A mistake to detect: the id is not looked up.
AnyId(e) == TRUE

NewId(e) == e.id.text \notin task_ids

Pushed(e) == Append(tasks, Task(e))

FinishTask ==
  /\ load_pc = "dependencies"
  /\ left = <<>>
  /\ IF OptionalFieldsOK(entry) /\ NewId(entry)
       THEN /\ tasks' = Pushed(entry)
            /\ load_pc' = "entry"
            /\ UNCHANGED <<document, left, seen>>
       ELSE Reject

\* Dependencies are looked up when all tasks are known.
CheckReferences ==
  /\ load_pc = "entry"
  /\ Len(tasks) = Len(Entries)
  /\ IF \A i \in DOMAIN tasks : Range(tasks[i].dependencies) \subseteq task_ids
       THEN load_pc' = "loaded" /\ UNCHANGED <<document, left, seen, tasks>>
       ELSE Reject

load_tasks_from_file ==
  \/ OpenFile
  \/ BeginTask
  \/ TakeDependency
  \/ FinishTask
  \/ CheckReferences

-----------------------------------------------------------------------------
\* Whatever the file says, what is loaded is what the scheduler and its graph
\* take for granted: ids tell tasks apart, every dependency is a task and is
\* listed once (so that the in-degree is the number of notifications a task
\* waits for), and no duration, retry budget or probability is out of range.
LoadedTasksAreUsable ==
  load_pc = "loaded" =>
    \A i \in DOMAIN tasks :
      /\ \A j \in DOMAIN tasks : tasks[i].id = tasks[j].id => i = j
      /\ Range(tasks[i].dependencies) \subseteq task_ids
      /\ IsInjective(tasks[i].dependencies)
      /\ tasks[i].duration >= 0 /\ tasks[i].retry_count >= 0
      /\ tasks[i].fail_probability \in 0 .. 2

-----------------------------------------------------------------------------
\* The input format of the README, for the document as a whole.
NaturalNumber(v) == is_number_integer(v) /\ v.value >= 0

WellFormedTask(e) ==
  /\ e.kind = "object"
  /\ IsName(e.id) /\ IsName(e.name)
  /\ is_number_integer(e.priority)
  /\ NaturalNumber(e.duration)
  /\ e.retry_count = Missing \/ NaturalNumber(e.retry_count)
  /\ \/ e.fail_probability = Missing
     \/ e.fail_probability \in {Whole(0), Half(0), Whole(1)}
  /\ e.dependencies # Missing =>
       /\ e.dependencies.kind = "array"
       /\ \A v \in Range(e.dependencies.items) : IsName(v)
       /\ IsInjective(e.dependencies.items)

WellFormed ==
  /\ document.file = "task list"
  /\ \A i \in DOMAIN Entries : WellFormedTask(Entries[i])
  /\ \A i, j \in DOMAIN Entries : Entries[i].id = Entries[j].id => i = j
  /\ \A i \in DOMAIN Entries : Entries[i].dependencies # Missing =>
       \A v \in Range(Entries[i].dependencies.items) :
         \E j \in DOMAIN Entries : Entries[j].id = v

\* No integer in the file is wider than an int.
IntegersFit ==
  \A i \in DOMAIN Entries : Entries[i].kind = "object" =>
    \A v \in {Entries[i].priority, Entries[i].duration,
              Entries[i].retry_count} :
      is_number_integer(v) => v.value \in IntRange

\* Exactly the well-formed files are loaded; a file is rejected for nothing
\* else, such as a dependency on a task that comes later in the file.
LoadsWellFormedFiles ==
  IntegersFit => /\ load_pc = "loaded" => WellFormed
                 /\ load_pc = "rejected" => ~WellFormed

\* The tasks are loaded in file order with the values that are written there, and
\* no retries and no failures where none are.
LoadsWhatIsWritten ==
  load_pc = "loaded" /\ IntegersFit =>
    /\ Len(tasks) = Len(Entries)
    /\ \A i \in DOMAIN tasks :
         /\ tasks[i].id = Entries[i].id.text
         /\ tasks[i].priority = Entries[i].priority.value
         /\ tasks[i].duration = Entries[i].duration.value
         /\ tasks[i].retry_count =
              IF Entries[i].retry_count = Missing
                THEN 0 ELSE Entries[i].retry_count.value
         /\ tasks[i].fail_probability =
              IF Entries[i].fail_probability = Missing
                THEN 0 ELSE Halves(Entries[i].fail_probability)
         /\ Entries[i].dependencies # Missing =>
              Entries[i].dependencies.items =
                [k \in DOMAIN tasks[i].dependencies |->
                   Text(tasks[i].dependencies[k])]

\* What is loaded is what the file says: nothing but a mistake in the file keeps
\* it out, and it gets in unchanged.
LoadsExactlyTheFile == LoadsWellFormedFiles /\ LoadsWhatIsWritten

\* README, of the field priority: "higher values run first when dependencies are
\* satisfied".  The scheduler compares what has been loaded, so the order of the
\* values in the file has to be kept.
HigherValuesRankHigher ==
  load_pc = "loaded" =>
    \A i, j \in DOMAIN tasks :
      Entries[i].priority.value > Entries[j].priority.value =>
        tasks[i].priority > tasks[j].priority
=============================================================================
