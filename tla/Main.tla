-------------------------------- MODULE Main --------------------------------
(***************************************************************************)
(* The program from its arguments to its end: main and parse_worker_count  *)
(* (src/src/main.cpp), and the order in which Scheduler::run               *)
(* (src/src/scheduler.cpp) goes through its stages.  Loading is done by    *)
(* module Config, step by step, and the graph of what has been loaded is   *)
(* that of TaskGraph.  What the pool and the scheduler do is the subject   *)
(* of WorkerPool and Scheduler; here they succeed or throw.                *)
(*                                                                         *)
(* What strtoul makes of an argument is given by Numeral.  Machine words   *)
(* have WordBits bits.                                                     *)
(***************************************************************************)
EXTENDS Config, FiniteSets

CONSTANTS
  Inputs,         \* pairs: the arguments, and what config_path leads to
  Numeral,        \* text -> [digits, minus, value, rest], as strtoul reads it
  WordBits,
  MaxPoolSize,    \* std::vector<std::thread>::max_size()
  ThreadLimit     \* the threads the operating system grants

WordMax == 2 ^ WordBits - 1

\* A vector can hold fewer elements than a word has values.
ASSUME MainAssumption ==
  /\ \A t \in DOMAIN Numeral : Numeral[t].value \in Nat
  /\ \A in \in Inputs : in[1] \in Seq(DOMAIN Numeral) /\ IsDocument(in[2])
  /\ WordBits \in Nat /\ 2 ^ WordBits \in Nat
  /\ MaxPoolSize \in 0 .. WordMax - 1
  /\ ThreadLimit \in Nat

VARIABLES
  arguments,     \* argv[1], argv[2], ...
  index, config_path, dot_output_path, worker_count,  \* the locals of main
  pc,
  dot_written,   \* the graph has been written to a file
  threads        \* the threads of the pool

locals == <<index, config_path, dot_output_path, worker_count>>
vars == <<arguments, locals, pc, dot_written, threads, loadVars>>

-----------------------------------------------------------------------------
\* A mistake to detect: the digits beyond the word are dropped.
Truncated(n) ==
  IF n.minus THEN (2 ^ WordBits - n.value) % 2 ^ WordBits
  ELSE n.value % 2 ^ WordBits

\* strtoul: a value out of range is the largest one, whatever its sign, and a
\* minus sign negates in unsigned arithmetic.
strtoul(n) ==
  IF n.value > WordMax THEN WordMax
  ELSE IF n.minus THEN (2 ^ WordBits - n.value) % 2 ^ WordBits
  ELSE n.value

\* The tests of parse_worker_count: a number up to the end, and not zero.
\* There is no value of size_t that an unsigned long exceeds.
IsWorkerCount(t) ==
  /\ Numeral[t].digits /\ ~Numeral[t].rest
  /\ strtoul(Numeral[t]) # 0

Init ==
  /\ \E in \in Inputs : arguments = in[1] /\ document = in[2]
  /\ LoadInit
  /\ index = 1 /\ config_path = "" /\ dot_output_path = "" /\ worker_count = 0
  /\ pc = "arguments"
  /\ dot_written = FALSE
  /\ threads = 0

Argument == arguments[index]
Value == arguments[index + 1]

AfterValue == index + 2

\* One turn of the argument loop, for an option with a value.
TakeConfig ==
  /\ Argument = "--config"
  /\ config_path' = Value
  /\ index' = AfterValue
  /\ UNCHANGED <<dot_output_path, worker_count, pc>>

TakeDot ==
  /\ Argument = "--dot"
  /\ dot_output_path' = Value
  /\ index' = AfterValue
  /\ UNCHANGED <<config_path, worker_count, pc>>

TakeWorkers ==
  /\ Argument = "--workers"
  /\ IsWorkerCount(Value)
  /\ worker_count' = strtoul(Numeral[Value])
  /\ index' = AfterValue
  /\ UNCHANGED <<config_path, dot_output_path, pc>>

\* parse_worker_count throws, and no handler is active: std::terminate.
RejectWorkers ==
  /\ Argument = "--workers"
  /\ ~IsWorkerCount(Value)
  /\ pc' = "aborted"
  /\ UNCHANGED locals

TakeOption ==
  /\ pc = "arguments"
  /\ index + 1 <= Len(arguments)
  /\ TakeConfig \/ TakeDot \/ TakeWorkers \/ RejectWorkers
  /\ UNCHANGED <<arguments, dot_written, threads, loadVars>>

PrintUsage ==
  /\ pc = "arguments"
  /\ \/ index > Len(arguments) /\ config_path = ""
     \/ index = Len(arguments)
     \/ /\ index < Len(arguments)
        /\ Argument \notin {"--config", "--workers", "--dot"}
  /\ pc' = "usage"
  /\ UNCHANGED <<arguments, locals, dot_written, threads, loadVars>>

EnterTry ==
  /\ pc = "arguments"
  /\ index > Len(arguments)
  /\ config_path # ""
  /\ worker_count' = IF worker_count = 0 THEN 1 ELSE worker_count
  /\ pc' = "load"
  /\ UNCHANGED <<arguments, index, config_path, dot_output_path,
                 dot_written, threads, loadVars>>

-----------------------------------------------------------------------------
\* run(): a stage succeeds or throws, and main turns an exception into exit
\* code 1.
Stage(from, succeeds, to) ==
  /\ pc = from
  /\ pc' = IF succeeds THEN to ELSE "exit 1"
  /\ UNCHANGED <<arguments, locals, threads>>

LoadStep ==
  /\ pc = "load"
  /\ load_tasks_from_file
  /\ UNCHANGED <<arguments, locals, pc, dot_written, threads>>

LoadTasks ==
  /\ load_pc \in {"loaded", "rejected"}
  /\ Stage("load", load_pc = "loaded", "validate")
  /\ UNCHANGED <<dot_written, loadVars>>

\* The graph of the tasks, numbered in file order.
Graph ==
  INSTANCE TaskGraph WITH
    TaskCount <- Len(tasks),
    Dependencies <- [t \in DOMAIN tasks |->
      {d \in DOMAIN tasks : Contains(tasks[t].dependencies, tasks[d].id)}]

\* A mistake to detect: a cycle is not an error.
CyclesAccepted == TRUE

\* The constructor of Graph and validate_acyclic: TopologicalOrder.
Validated == Graph!Acyclic

ValidateGraph ==
  /\ Stage("validate", Validated, "dot")
  /\ UNCHANGED <<dot_written, loadVars>>

\* If there is a path for the graph, the file may or may not open.
WriteDot ==
  \E is_open \in BOOLEAN :
    /\ Stage("dot", dot_output_path = "" \/ is_open, "pool")
    /\ dot_written' = (dot_output_path # "" /\ is_open)
    /\ UNCHANGED loadVars

\* The vector of threads cannot be reserved, or there is no thread at all.
PoolThrows ==
  /\ worker_count > MaxPoolSize \/ ThreadLimit = 0
  /\ pc' = "exit 1"
  /\ UNCHANGED threads

\* The system grants only some threads: WorkerPool, UnwindConstructor.
PoolFails ==
  /\ worker_count \in ThreadLimit + 1 .. MaxPoolSize
  /\ ThreadLimit > 0
  /\ threads' = ThreadLimit
  /\ pc' \in {"aborted", "hung"}

PoolStarts ==
  /\ worker_count <= MaxPoolSize
  /\ worker_count <= ThreadLimit
  /\ threads' = worker_count
  /\ pc' = "run"

CreatePool ==
  /\ pc = "pool"
  /\ PoolThrows \/ PoolFails \/ PoolStarts
  /\ UNCHANGED <<arguments, locals, dot_written, loadVars>>

\* The tasks are run, and pool.shutdown() joins the workers; the exit code is
\* the subject of Scheduler.
RunTasks ==
  /\ pc = "run"
  /\ threads' = 0
  /\ pc' \in {"exit 0", "exit 1"}
  /\ UNCHANGED <<arguments, locals, dot_written, loadVars>>

Ended ==
  /\ pc \in {"usage", "aborted", "hung", "exit 0", "exit 1"}
  /\ UNCHANGED vars

Next ==
  \/ TakeOption \/ PrintUsage \/ EnterTry
  \/ LoadStep \/ LoadTasks \/ ValidateGraph \/ WriteDot \/ CreatePool \/ RunTasks
  \/ Ended

Spec == Init /\ [][Next]_vars

-----------------------------------------------------------------------------
\* The usage line: --config <path> [--workers <count>] [--dot <path>], in any
\* order; an option that is given twice counts the last time.  Every odd
\* argument is an option and every even one its value, whatever it looks like.
Options == {i \in DOMAIN arguments : i % 2 = 1}

Given(option, i) ==
  i \in Options /\ i < Len(arguments) /\ arguments[i] = option

GivenLast(option, i) ==
  Given(option, i) /\ \A j \in Options : Given(option, j) => j <= i

LastValue(option, default) ==
  IF \E i \in Options : Given(option, i)
    THEN arguments[1 + CHOOSE i \in Options : GivenLast(option, i)]
    ELSE default

FollowsUsage ==
  /\ Len(arguments) % 2 = 0
  /\ \A i \in Options : arguments[i] \in {"--config", "--workers", "--dot"}
  /\ LastValue("--config", "") # ""

\* The number of workers is one if it is left out, and the number that was given
\* last if that is in the range of the word; with a minus sign it is what that
\* leaves in unsigned arithmetic.  A count beyond the word, which strtoul
\* replaces by the largest word so that the test of main.cpp:25 cannot see it,
\* never gets a thread.
CountFollowsUsage ==
  /\ (\A i \in Options : ~Given("--workers", i)) => worker_count = 1
  /\ \A i \in Options : GivenLast("--workers", i) =>
       LET n == Numeral[arguments[i + 1]]
       IN  /\ n.value > WordMax => worker_count = WordMax /\ threads = 0
           /\ n.value <= WordMax /\ ~n.minus => worker_count = n.value
           /\ n.value <= WordMax /\ n.minus =>
                worker_count + n.value = 2 ^ WordBits

\* Exactly the command lines that follow the usage line get past main's loop,
\* and what it has read are the two paths and the count that were given last;
\* the others end in the usage message, unless a bad count comes first and ends
\* the program there.
ArgumentsFollowUsage ==
  /\ pc = "usage" => ~FollowsUsage
  /\ pc = "aborted" /\ threads = 0 =>
       \E i \in Options : Given("--workers", i) /\ ~IsWorkerCount(arguments[i + 1])
  /\ pc \notin {"arguments", "usage", "aborted"} =>
       /\ FollowsUsage
       /\ config_path = LastValue("--config", "")
       /\ dot_output_path = LastValue("--dot", "")
       /\ \A i \in Options :
            Given("--workers", i) => IsWorkerCount(arguments[i + 1])
       /\ CountFollowsUsage

\* A file is written and threads are started only for a configuration that has
\* been loaded and validated, and no thread outlives an orderly exit.
NoTraceOfBadInput ==
  /\ dot_written \/ threads > 0 =>
       FollowsUsage /\ load_pc = "loaded" /\ Graph!Acyclic
  /\ pc \in {"usage", "exit 0", "exit 1"} => threads = 0

\* main.cpp, parse_worker_count: "Worker count must be greater than zero".  A
\* count that is accepted is the number that was written, and positive.
AcceptedCountIsPositive ==
  pc \notin {"arguments", "usage", "aborted"} =>
    \A i \in Options : Given("--workers", i) =>
      Numeral[arguments[i + 1]].value > 0 /\ ~Numeral[arguments[i + 1]].minus
=============================================================================
