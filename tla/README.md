# Verification of the concurrent task scheduler

TLA+ models of the program in `src/`, the TLC configurations that check them on
small instances, and TLAPS proofs that hold for every instance.

    tlc -config MCScheduler.cfg MCScheduler      # and the other runs below
    tlapm SchedulerProofs.tla

## The system

One process reads a JSON list of tasks, checks that their dependencies form an
acyclic graph, and runs them on a pool of threads. Nothing is persisted and
there is no network: what is hard is the concurrency of the main thread with the
workers, the bookkeeping that decides when the run is over, and what a bad
command line or a bad file leads to.

| component | state | operations | interacts with | what makes it correct |
|---|---|---|---|---|
| Scheduler (`scheduler.cpp`, `scheduler.h`) | task states, remaining dependency counts, attempts, ready queue, four counters, `mutex_`, `state_changed_` | `run`, `initialize_scheduler_state`, `dispatch_ready_tasks`, `execute_task`, `mark_task_completed`, `cancel_dependents` | submits jobs to the pool; workers call `execute_task` back and share all of its state | dependencies complete first; a failure cancels exactly what is downstream; every task is accounted for once; no lost wake-up; `run` returns; the outcome does not depend on the schedule |
| WorkerPool (`worker_pool.cpp`) | job queue, `stopping_`, its own mutex and condition variable, threads | constructor, `submit`, `shutdown`, destructor, `worker_loop` | called by the main thread, runs the scheduler's jobs | every accepted job runs once; no job waits for a sleeping worker; `shutdown` drains the queue and returns; no thread outlives the pool |
| Graph (`graph.cpp`) | adjacency, in-degrees, durations | constructor, `topological_order`, `validate_acyclic`, `critical_path_length`, `to_dot` | built twice by the scheduler, read by the summary | accepts exactly the acyclic graphs; the order is topological; the critical path is the longest |
| Task (`task.h`, `task.cpp`) | fields of a task | constructor, `to_string`, `is_terminal` | owned by the scheduler | see Scheduler |
| Configuration loader (`scheduler.cpp` 25-205) | the task list | `load_tasks_from_file`, `parse_task`, `require_string`, `require_int` | `run` calls it first | loads exactly the well-formed files, with the values written there; whatever it loads, the scheduler and the graph can rely on |
| Command line (`main.cpp`) | path, DOT path, worker count | `main`, `parse_worker_count` | constructs the scheduler | follows the usage line; nothing is written or started for a bad configuration |
| Logging and summary (`scheduler.cpp` 419-488) | `log_mutex_` | `log_event`, `print_summary` | called by workers and by `run` | reports the final states, read when no worker can change them |
| JSON parser (`nlohmann/json.hpp`, vendored) | the lexer's position, the parser's and the builder's stacks, the value | `parse`, the destructor of a value | used by the loader | accepts exactly JSON and builds the value the text denotes; destroys it once, at any depth |

The hard behaviours are listed one by one, at their lines, in `PROJECT.json`
under `hazards`, with the properties that cover each of them.

## Modules

| module | models |
|---|---|
| `TaskGraph` | the dependency graph of the `Graph` constructor; reachability along dependents |
| `JobQueue` | what the pool promises: a FIFO of jobs, each run once, drained by shutdown |
| `Scheduler` | the main thread in `run()` and the workers in `execute_task`, on a `JobQueue` |
| `SchedulerProperties` | the properties of `Scheduler`, and the refinement mapping to `TaskRun` |
| `TaskRun` | what a run is without threads, locks, queues and counters |
| `SchedulerProofs` | proofs about `Scheduler`: its bookkeeping, what a run comes to, and that it is a `TaskRun` |
| `WorkerPool` | the pool with its mutex, condition variable and client, its properties, and the refinement mapping to `JobQueue` |
| `System` | `Scheduler` on `WorkerPool`: two mutexes, two condition variables; the refinement mapping to `Scheduler` |
| `Cancellation` | `cancel_dependents` as the recursion it is |
| `TopologicalOrder`, `CriticalPath` | graph construction, Kahn's algorithm in `validate_acyclic`, and `critical_path_length` after it |
| `TimedRun` | `TaskRun` with a clock |
| `Config`, `Main` | the loader step by step, inside the program from its arguments to its end |
| `JsonString`, `JsonLexer` | bytes into strings; characters into tokens |
| `JsonParser`, `JsonDestroy` | tokens into a value; the destruction of that value |
| `JsonGrammar` | the JSON grammar over tokens, which the parser is compared with |
| `WorkerPoolProofs`, `SystemProofs` | proofs about the pool, and about the two components together |
| `CancellationProofs`, `GraphProofs`, `TimedRunProofs`, `MainProofs` | proofs about `Cancellation`; `TopologicalOrder` and `CriticalPath`; `TimedRun`; `Config` and `Main` |
| `JsonProofs` | proofs about `JsonString`, `JsonLexer`, `JsonParser` and `JsonDestroy` |
| `MC...` | constants for TLC |

How they compose. `Scheduler` instantiates `JobQueue` (`Pool == INSTANCE
JobQueue`), `WorkerPool` is shown to implement it, and `System` puts the two
together from the actions of both and shows the result to be a `Scheduler`: the
interface is checked from both sides and across. `Scheduler` takes the result of
`cancel_dependents` for granted, which `Cancellation` justifies, and starts from
a validated graph and usable tasks, which `TopologicalOrder` and `Config` justify.
`Main` runs `Config` to its end before the graph is validated, files are written
and threads are started. Where one module EXTENDS another that has no
specification of its own (`Main` and `Config`, `CriticalPath` and
`TopologicalOrder`, `JsonLexer` and `JsonString`, `JsonDestroy` and `JsonParser`),
the second one is the first part of the behaviour of the first.

Definitions whose comment begins with "A mistake to detect" are not used by any
specification: each is a faulty variant of the definition that follows it, which
makes a property fail when it is put in its place.

### Scheduler

A task is its position in the file, and its id is identified with it: ids are
unique. `Dependencies[t]` is a set because the loader rejects duplicates.

| model | code |
|---|---|
| `state`, `has_started`, `has_finished` | the fields of `Task` |
| `remaining_dependencies`, `attempts_by_task`, `ready_queue`, `enqueue_sequence`, the counters | the members of `Scheduler` of the same name |
| `main_pc`, `to_launch` | where the main thread is in `run()`; the local of `dispatch_ready_tasks` |
| `exec[w]`, `success[w]`, `active[w]` | where worker `w` is in `execute_task`; its local; its job |
| `terminated` | an exception has left a worker: `std::terminate` |
| `fails` | the attempts `should_fail` answers yes to: fixed in `Init`, never changed |

The main thread holds `mutex_` exactly while `main_pc` is in `MainHoldsMutex`;
its critical section is many steps (one for each turn of the dispatch loop, each
`pool.submit`, the predicate test, and the sleep), because workers take jobs from
the pool and run outside `mutex_` meanwhile. A worker's critical section is one
step. That is sound because it touches only data `mutex_` protects, and cannot
block inside (`log_mutex_` is a leaf lock). Between the sections the worker is
interleaved freely: the three sections of `execute_task` are `StartTask`,
`DecideTask` and one of `CompleteTask`, `RetryTask`, `FailTask`; `notify_all`,
sent after the mutex is released, is `NotifyMain`, a step of its own. Waiting on
the condition variable is `WaitTest` (the predicate, mutex held), `Block` (release
and sleep, atomic as the standard requires), `SpuriousWakeup` or a notification,
and `Relock`.

`cancel_dependents` is modelled by its result: the pending tasks reached from the
failed one through pending tasks, which is the least closed set
`ReachedFrom({t}, InState("Pending"))`. The exception of `mark_task_completed` is
modelled by setting `terminated`, after which nothing moves. The hash in
`should_fail` is fixed for a build but otherwise unknown, so `fails` is any table
compatible with the probability: none for 0, all attempts for 1, any set between.
(A probability below 1 may still reject every attempt and one above 0 none.)

### TaskRun and TimedRun

The abstract specification has three variables. A runnable task of the highest
priority is launched while fewer than `WorkerCount` tasks run; a running task
succeeds, is retried, or fails and cancels all that is downstream in the same
step; and the run does not stop before every task has come to its end. That
`cancel_dependents`, which stops at tasks that are not pending, cancels everything
downstream is part of what the refinement shows.

`TimedRun` adds `now` and the moment each sleep of `execute_task` is over. Time may
pass anywhere, and a tick that is spent on nothing but sleep is told apart from
one that is not (`delayed`), so that a bound on the run time can be stated without
assuming that threads are fast.

### WorkerPool

One client thread runs the constructor and then calls `submit`, `shutdown` and the
destructor in any legal order; a second `shutdown` is the destructor's
(`Destroy`). Jobs are opaque. Each of the client's critical sections is one step;
a worker's is two or three, since a worker that finds the predicate false holds
the mutex until it sleeps (`Refuse`, `Block`). `notify_one` and `notify_all` are
steps of their own outside the lock.

The constructor starts the threads one by one, and each enters `worker_loop` while
the others are still to be created (`SpawnThread`). With `ThreadsMayFail` any of
the `std::thread` constructors may throw. Then the members are destroyed in
reverse order: the condition variable first, which waits for as long as a thread
sleeps on it (what glibc does; the standard leaves it undefined), then the vector
of threads, where a joinable one calls `std::terminate`. Only if there is no
thread yet does the exception reach `run()`. Otherwise, and this is
`SpawnFailureIsFatal`, the program comes to an end of one of two kinds whatever its
threads do: it is terminated, or all of them are asleep on the condition variable
for good and the constructor waits for them.

### System

The steps of `run()` and `execute_task` that leave the pool alone are the actions of
`Scheduler`; the steps of the pool are the actions of `WorkerPool`; the module
adds how a thread goes from one into the other. `submit` and `shutdown` thereby
take several steps each, and a worker that has left `execute_task` still has to
return to `worker_loop` and to take the pool's mutex before it is free again.
`WorkerView` and `ActiveView` are the refinement mapping: to the scheduler, such a
worker is idle already.

### Cancellation, TopologicalOrder, CriticalPath

In all three the graph is a variable that never changes, so that one run covers all
graphs. `Cancellation` has a stack with an entry for each nested call of
`cancel_dependents`; the other tasks are in any states the invariants of
`SchedulerProperties` allow while a worker finishes a task.

`unordered_map` has no specified order, so the initial queue of Kahn's algorithm is
any listing of the tasks without dependencies; dependents follow in file order. The
in-degrees are integers in the model and unsigned in the code; a task that is
decremented once too often is queued twice or too early, which
`OrderIsTopological` excludes. `critical_path_length` computes the order afresh;
the model lets any order that validation could have found stand for it.

### Config and Main

A JSON value is its kind and what the loader tells apart of it. The loader takes one
step per task up to its dependencies (`BeginTask`), one per dependency, and one for
the rest of a task. All exceptions of the loader are one, since `main` treats them
alike. Integers keep their widths, scaled down: `get<int>()` keeps the low `IntBits`
bits of an integer of the library, which has `JsonBits`.

`Main` takes one step per option, then the stages of `run()` in the order in which
they can fail: load, validate, write the DOT file, create the pool, run.
`parse_worker_count` is called outside the `try` block, so that what it throws
ends in `"aborted"`; `strtoul` wraps a negative number and replaces one beyond the word
by the largest. What the pool and the
scheduler do is left to their own modules: here they succeed, throw, terminate or
hang, and the threads are counted.

### JsonString and JsonLexer

`JsonLexer` is `lexer::scan`: one action per branch, one step per character, with
`unget` as a flag. `false` is left out (a literal like `true`), one letter stands for
the end of each class of characters, and the digits are 0 and 1. `JsonString` is
`scan_string`, byte by byte, with the ranges of UTF-8 and the two halves of a
surrogate pair. A string is one character of the lexer's text; only the first one is
scanned in detail, since `scan` resets all it uses.

### JsonParser and JsonDestroy

`JsonParser` is the loop of `sax_parse_internal` over tokens together with the
events of `json_sax_dom_parser`: the parser's stack, the builder's stack of
references, and the pointer to the member whose value is due. A reference is the
number of a node. `JsonDestroy` is `json_value::destroy`, with its vector, the
nested destructors, and the half-built value that is left when the parser throws.

The reference they are compared with is `JsonGrammar`. It says which stretches of a token
sequence are a value, elements of an array or members of an object, and what they denote
in a table of values; it derives these phrases in rounds from the rules of RFC 8259 and
knows neither stacks nor the order in which a parser reads. What was built is looked up
in the table of all nodes; a text that was rejected must have no derivation at all, which is
asked of a table with a single value that stands for any.

## Runs

| run | question | bounds | distinct states |
|---|---|---|---|
| `scheduler` | is the bookkeeping right at every step, is it a `TaskRun`, and does `run()` return? | 6 tasks, 2 workers, 2 tasks with a retry, every failure table | 173 000 |
| `start_order` | is start order priority order? (violated, see Findings) | 4 tasks, 2 workers | - |
| `pool` | is it a `JobQueue`, is no notification lost, does `shutdown` return, and how does a failed constructor end? | 3 workers, 3 jobs, a constructor that may fail | 6 300 |
| `system` | is the scheduler on the real pool still the `Scheduler`, do tasks start, are free slots filled, and does `run()` return? | 3 tasks at once, 2 workers, one retry | 107 000 |
| `cancellation` | does the recursion cancel what `Scheduler` says? | all acyclic graphs on 4 tasks, all states around the failure | 29 000 |
| `graph` | is validation exact and the critical path the longest? | all 65 536 graphs on 4 tasks, durations 0 to 2 | 581 000 |
| `timed` | is the run time between the critical path and the bound of list scheduling? | 4 tasks, 2 workers, durations 1 and 2, one retry, 8 ticks | 1 830 000 |
| `program` | which command lines and files are accepted, as what, and with what effects? | command lines of up to 4 arguments; files of up to 2 tasks | 294 000 |
| `worker_count` | is an accepted worker count positive? (violated) | as `program` | - |
| `wide_priority` | is the order of priorities kept? (violated) | as `program` | - |
| `json_tokens` | are the tokens and strings those of JSON? | texts of 6 characters, strings over 36 bytes | 1 350 000 |
| `json_value` | is the value the one the text denotes, and is it destroyed once? | all sequences of 4 tokens, and texts nested up to 8 deep | 691 000 |

Why the bounds are enough to be interesting.

- `scheduler`: `MixedGraph` has three sources for two workers, so that the capacity
  test bites; task 3 joins 1 and 2, and 5 joins 3 and 4, so that two failures meet at
  one task, directly and further downstream; task 4 has two dependents, so that one
  completion or failure reaches several; 2 and 3 may be retried, so that a task
  re-enters the queue behind tasks of equal priority; 6 always fails if it runs. Two
  workers suffice for every race between a worker and the main thread and between
  two workers: the critical sections are serialised, and a third worker adds more of
  the same. No symmetry is used, since the run has temporal properties.
- `pool`: three jobs on three workers exercise a queue behind busy workers, a worker
  that takes the job another was woken for, several sleepers for one notification,
  and shutdown with a non-empty queue.
- `system`: one task more than there are workers, and a retry while another task runs,
  so that a slot is freed and filled again while its worker is on its way back.
- `cancellation`, `graph`: four tasks hold a diamond, a cycle behind an acyclic part, and
  two paths of different lengths to one task.
- `timed`: in `ZigzagGraph` the order in which tasks are taken decides who idles. A run
  without delays takes at most six ticks; two more leave room for delays.
- `program`: the literals lie at and around the ends of the int range and of both ranges of
  the library, and some wrap into the int range; words have three bits, and the pool may
  be refused by the vector and by the system. Each task of a file has at most one
  oddity, two tasks may have one each.
- `json_tokens`: `-1.1e1` and `1e+1 ,` have six characters. The bytes are the ends of every
  range the scanner tells apart. Four bits make 11 the largest number of these digits
  that is an integer, and 100 one that is not.
- `json_value`: after four tokens the parser has seen every pair of neighbours in every kind
  of container; the longer texts have mistakes behind two levels of nesting, and the
  deeper ones are there for the destructor.

The properties are described where they are stated. The main ones:

- `CountersMatchStates`, `CancelledExactlyDownstream`: whichever parents fail, in
  whichever order, a task is cancelled once and counted once.
- `ReadyQueueExact`, `DependenciesCompleteFirst`: queue and dependency counts agree
  with the states of the tasks at every step.
- `RunningHasOneHolder`: a running task is one job in one place. With the counters it
  follows that a submitted job never queues behind one that executes, although the
  capacity test counts running tasks and not free threads; on the real pool
  `DispatchedTasksStart` says so: an attempt starts even if no other task ever finishes.
- `NoLostWakeup`, `NoNotificationIsLost`: the wake-ups of the three notify calls.
- `OutcomeIsDeterministic`, `ReportIsTrue`: the final states are a function of the graph
  and the failure table, and attempts, durations and exit code agree with them.
- `QuietAfterLoop`: the summary reads tasks and counters without `mutex_`; after
  the loop no worker touches them, and the pool that shuts down has no job.
- `ShutdownDrains`, `ImplementsJobQueue`: every job that `submit` accepted is run, once,
  in order; with the fairness of `JobQueue`, it is run even if the pool is never stopped.
- `FreeSlotsAreFilled`: while a slot is free and a task could run, one is dispatched, even if
  those that run sleep for ever. A notification or a dispatch that is missed would otherwise
  only make the run slower. `RunTimeIsBounded` is about what the order of dispatch costs, and
  counts ticks with a slot that could be filled as delays.
- `SpawnFailureIsFatal`: `run()` gets the exception of a thread that does not start only if it
  was the first one.
- `LoadedTasksAreUsable`, `LoadsExactlyTheFile`: what the scheduler takes for granted holds
  of everything that is loaded, and exactly the well-formed files are loaded, with the fields
  that are there and the defaults of those that are not.
- `ArgumentsFollowUsage`, `NoTraceOfBadInput`: the command line and the order of the stages. Of the
  worker count the first says how it comes from what was given last: one if none was, the
  number itself if a word holds it, its complement with a minus sign; and that a
  count beyond the word never gets a thread.
- `ParsesExactlyJson`, `StacksAgree`: the parser's stack and the builder's are pushed and
  popped in different places, and one pointer serves all levels of nesting.

### Findings

`start_order`: the README says of `priority` that "higher values run first when
dependencies are satisfied", and promises deterministic logs. The scheduler
dispatches in that order, but the first thing a dispatched task does is lock
`mutex_` in `execute_task`, and two workers reach it in any order. So the lower of
two priorities may start, and log STARTED, first.

`worker_count`: `parse_worker_count` says "Worker count must be greater than zero", but
`strtoul` negates in unsigned arithmetic: `--workers -1` is taken as the largest
unsigned long. The program built from this source then ends with exit code 1, when the
pool cannot reserve its vector.

`wide_priority`: `require_int` accepts every integer of the JSON library and narrows it with
`get<int>()`. A priority beyond the range of int wraps, and a lower value in the file may
run first, against the sentence quoted above. (Durations and retry counts wrap the same
way; a negative one may so become valid, which is why `LoadsExactlyTheFile` is about files
whose integers fit.)

Known limits rather than disagreements. `parse_worker_count` is to reject a count that is "too
large" (`main.cpp:25`), but `strtoul` has replaced it by the largest unsigned long, which no size_t
is smaller than: the test never holds. The clamped count is refused all the same, by the vector
of the pool and with another message, and `ArgumentsFollowUsage` says that no thread is started.
`StackIsAPath` shows that `cancel_dependents`
nests as deep as the longest dependency chain, on a worker's stack. A build of this source
overflowed an 8 MB stack at about 65 000 levels. The README of the program lists "deep
dependency chains" among its edge cases without a length.

### Fairness

`FairSpec` of `Scheduler` assumes weak fairness of the main thread and of each
worker: a thread that can run does run, which any preemptive scheduler gives, and
a mutex that is free again and again is obtained (the main thread takes the mutex
finitely often between two sleeps, so weak fairness is enough). It assumes further
that spurious wake-ups are finite in number: with infinitely many the main thread
could alternate between waking up and going back to sleep at moments at which a
worker wants the mutex, and weak fairness would not let the worker in. Nothing is
assumed about retries or failures. `FairSpec` of `WorkerPool` assumes the same of
its workers and of a client inside a function of the pool; the client is not
obliged to call anything, and no thread has to fail to start.

`FairSpec` of `System` assumes it of both condition variables, and assumes nothing of
the sleep in `execute_task`: `DispatchedTasksStart` and `FreeSlotsAreFilled` hold although the
other tasks may sleep for ever. `RunReturns` is there an implication, whose premise is that every
sleep ends. `TaskRun` demands only that the run comes to its end; the fairness of
threads is the business of the modules that have threads. `Cancellation`, `CriticalPath`,
`TimedRun`, `Main`, `JsonLexer` and `JsonDestroy` are sequential and have no liveness
property; their invariants speak of how they end, and deadlock is checked in every run.

## Proofs

Every invariant that a passing run checks, and the refinement of `Scheduler` by
`System`, is proved for all values of the constants; of the two other refinements the
safety part is. What remains to TLC alone is liveness. The theorems and the property each one states are listed in
`PROJECT.json`; here is what they assume and how they go.

### Assumptions

- `SchedulerAssumption`: a finite non-empty set of workers, dependency sets within the
  tasks, the types of the other fields. `ValidatedAssumption`, that the graph is acyclic, is
  used for `OutcomeIsDeterministic` and `ReportIsTrue` only (cancelled tasks have a failure as their
  cause, not each other); all else would hold of a cyclic graph too, whose
  tasks would never become runnable. `SystemAssumption` and `TimedRunAssumption` say the
  same of their modules. All of this is what the loader, the validation and the command line
  guarantee, and that is proved as well: `LoadedTasksAreUsable`, `ValidationIsExact`,
  `ArgumentsFollowUsage`.
- `WorkerPoolAssumption`: a finite non-empty set of workers, and jobs told apart from the
  value for none.
- `MainAssumption`: the arguments are strings, a configuration file holds JSON values of the
  shapes the library hands out (`IsDocument`), and `max_size()` of a vector of threads is below the
  largest word, as it is wherever a thread takes more than one byte. It also names a fact
  about powers of two, as `ConfigAssumption` names two that the loader depends on; the provers have
  no theory of exponentiation, and TLC evaluates them on every run of the program.
- `JsonParserAssumption`: tokens that are values and the other tokens are told apart, strings are
  values, and the end of the input is not one of its tokens (the lexer reports it when the input
  is used up). The input may otherwise be any finite sequence. `JsonStringAssumption`: bytes are numbers
  from 0 to 255, and the end of the input is not one of them. `JsonLexerAssumption`: integers have some
  positive width, and the length of texts has some bound.

### Scheduler

None of the properties is inductive alone. The argument is a chain of invariants,
each inductive relative to the ones before it:

1. `Typed`: types, and a worker inside `execute_task` has a job. The unsigned
   counters are only known to be integers at this stage.
2. `SleepInvariant` (gives `NoLostWakeup`): at `"block"` the predicate is false,
   because the mutex has been held since the test, so no critical section can have
   run.
3. `HeldOnce`: waiting launches, queued jobs and executing workers hold the current
   attempts of distinct running tasks. It is needed to know that the task a worker
   finishes is still `Running` and that no other worker will finish it again. `Held`
   is the converse, that no running task is forgotten; the two give
   `RunningHasOneHolder`.
4. `Counted`: the counters are the cardinalities of the sets of tasks. With 3,
   every decrement of `running_tasks` removes a member.
5. `RemainingExact`: `remaining_dependencies[t]` is the number of dependencies that
   have not completed, and nothing was thrown. A completing task is a member of the
   sets its dependents count, so no count is zero before its decrement.
6. `Ordered`: `DependenciesCompleteFirst`, `CancelledExactlyDownstream`, the queue
   holds the runnable tasks, its entries are distinct. The four need each other: a
   dependent that is released is pending because it is not cancelled, and it is not
   cancelled because no other dependency has failed; a failure cancels all that is
   downstream because no task there can have started. The two directions for
   `cancel_dependents` are the lemmas `ReachedClosed` and `ReachedHasParent`.
7. `LoopOver` (gives `QuietAfterLoop`): the loop is left when the counters say that all
   tasks have ended; by 4 they have, and by 3 no worker can then be inside `execute_task`
   with one.
8. `Accounted` (gives `ReportIsTrue`): all attempts but the latest failed, the budget was
   spent before a task failed for good, and a worker between its critical sections holds
   the right verdict.

`OutcomeIsDeterministic` follows from 6 and 8 by a set argument: the tasks whose final
state is not the one that the graph and the failure table prescribe have, the graph being
acyclic, a first member, and that one would be right. `CoreSteps` sorts the steps: all but
five actions leave the variables of 4 to 6 alone.

`ImplementsTaskRunSafety`: every step of the scheduler is a step of `TaskRun` or none. A
dispatch is a launch: by 4 the capacity test counts running tasks, and by 6 the queue holds the
runnable ones, each with its priority (`QueuePriorities`). A failure is one, since
what `cancel_dependents` reaches through pending tasks is all that is downstream.

### Worker pool and system

`Sleepers` gives `NoNotificationIsLost`: from the test to the sleep the mutex is held, so
nothing is queued meanwhile, and while anyone sleeps there are as many workers on their
way to the queue, or announced by a pending notify call, as there are jobs. `NoJobLost`,
that an accepted job is queued, running or finished and that workers leave an empty
queue only, gives `ShutdownDrains` with the phases of the client (`Phases`), of which
the destructor is the last. `ImplementsJobQueueSafety` is the step simulation.

`SystemProofs` puts the theorems of both components to use. `SystemInvariant` is the conjunction of
what each keeps, read through the refinement mapping, with one link: a thread is inside
`execute_task` only while `worker_loop` runs a job. From it every step of the system
is a step of `Scheduler` under the mapping (`ImplementsSchedulerHolds`) and a step of
`WorkerPool` (`ImplementsPool`), so that the scheduler is one of the clients the pool is
proved for. `SchedulerKept` and `PoolKept` carry the invariants of the parts over to the whole.

### Cancellation and graph

`RecursionInvariant`: the calls on the stack are for tasks that failed or were
cancelled, what has been cancelled is reached from the failed task, and every pending task
below a cancelled one is still to be visited by some call (`NothingOverlooked`). When the
stack is empty the cancelled tasks are thus closed, and so all of those reached. Nothing
depends on the graph being acyclic.

`SortInvariant` is Kahn's algorithm: an in-degree is the number of dependencies not yet in the
result, the queue holds the tasks whose count is zero, and no set of ordered tasks is a
cycle. If the result lacks tasks, each of them waits for another one of them, which is a
cycle; if it lacks none, there is no cycle. `PathsInvariant`: the loop of
`critical_path_length` has dealt with a front of the order, and what it found solves the
recursion over the dependencies. `ResultIsLongestPath` speaks of sequences of tasks
instead: no path is longer than the recursion says, and the best predecessors make one that is as long.

### Timed run

`TimedInvariant` (gives `NoFasterThanCriticalPath`): the chain that ends with a running
task is no longer than the time when its sleep is over.
`ShareInvariant` (gives `ListSchedulingBound`, the other half of `RunTimeIsBounded`): for some number of
idle ticks, the time that was spent on nothing but sleep, taken once for each worker, is at
most the work done so far and one tick less than there are workers for each idle one; and each
running or runnable task ends a chain at least as long as the idle ticks, what it has still to sleep
not counted. In a tick of pure sleep either all workers have a sleeping task, or no task could be
launched; then something runs, as the graph is acyclic and a failure leaves nothing pending
below it (`SomethingRuns`), and all chains that end with a running task get one tick on. Sums
over the tasks are cardinalities of sets of cells (`CellsGrow`), so that the library's
theorems about finite sets do the counting.

### Loader and command line

`LoadInvariant`: the tasks so far are those of the entries so far, in order and with the values
of the file; the dependencies being read are a front of the entry's list; and a file that was
rejected is not well-formed. `ArgumentInvariant`: what has been read is an alternation of options and
values, the last of each kind counts. `CountInvariant` is the same of the worker count, and that a
clamped count is larger than a pool can be. `StageInvariant`: each stage of `run()`
is reached through the ones before it.

### JSON parser

`LexerInvariant` gives `EveryCharacterCounts` and `ScansExactlyJson`. The tokens so far stand in
order, each is right, and with the blanks between them and the byte order mark they account for
every character before the current token (`Scanned`). Of that one the label of the automaton says
what has been read (`NumberState`): where its integer part ends, where its fraction ends, and that the
rest is the beginning of an exponent. So it is known where a number could have gone on, and that the
character put back belongs to no token yet. What the digits amount to is the same
operator on both sides of the comparison, so that no fact about its value is needed.

`StringInvariant` gives `StringsAreExact`. In a sequence of UTF-8 the ranges still to be checked are
the rest of the entry of the leading byte; in an escape the digits and the first surrogate are those
of the source. `RangesAreExact`, that a sequence that passes the ranges is well-formed UTF-8, and no
other, is proved from the bits: the first byte determines the length, and the ranges of the second are
what excludes overlong forms, surrogates and what lies beyond the last code point. The lemmas
`Utf8Exact` and `JoinedExact` are about encoding a code point and joining two halves.

`ParserInvariant` gives `StacksAgree`: a node holds only nodes created after it, and is held at most
once (`Forest`), so that what is reached from the root is a tree; the parser's stack
lags behind the builder's by the container that has just been opened; and the place of the parser
says of what kind the innermost container is (`PlaceKnown`). `DestroyInvariant` gives
`DestructionIsSafe`: one destructor runs, or two of which the second finds its container
empty, and each value of the tree is in exactly one place: in the vector of a call, still among the
children of a container, running, or freed (`Apart`).

`ParsesExactlyJson` has an invariant for each direction.

- The phrases are the least set that the rules close. `PhrasesClosed`: a derivation has no more
  steps, one after the other, than there are rounds, because each rule makes a stretch longer or
  turns a value into a list. `ValueForms`, `ElementsForms` and `MembersForms` invert the rules.
- `CompleteInvariant`: if the text is JSON, then what has been read of it can be continued to all of it.
  Each open container has its end, and between the parser's place and the end of the innermost one
  there are as many items as the place still asks for (`Needed`). So `Reject` is never enabled.
- `SoundInvariant`: each open container holds what the tokens read of it denote, and the container or
  the member that is still to come (`Frames`, `Top`). The table of values leaves the open
  containers out, since they still change; as it only grows (`PhrasesGrow`), what has been denoted
  once stays so.

Neither needs an induction over the nesting: the invariant quantifies over the stack, and a step
changes its innermost entry.

### Without induction

The provers cannot instantiate an induction theorem. What the proofs need of recursion they
get from well-foundedness of the subsets of a finite set, which the library states as a
fact: a least counterexample (`LeastIndex`, `TotalsExist`), a largest set on which a recursion has a
solution (`ChainsExist`), a set of largest elements (`LargestNumber`). That is why `Length` in
`CriticalPath` and `ChainTo` in `TimedRun` are recursive functions. What holds after any number of
rounds of the grammar is proved from the least number for which it would fail (`LeastElement`).

### Only model-checked

`RunReturns`, `DispatchedTasksStart`, `FreeSlotsAreFilled`, `ShutdownReturns`, `SpawnFailureIsFatal`, and of `ImplementsTaskRun` and
`ImplementsJobQueue` the part beyond safety (`<>Over`, the fairness of `JobQueue`): they follow from
fairness, which the proof system cannot reason about, since it has no ENABLED. The proved
invariants exclude the ways in which they would most likely fail: a wake-up that is lost, a job that
is dropped, a counter that never reaches zero.

## Not modelled

- The text of logs, summary and DOT output, elapsed times as text, and `log_mutex_`: no
  property is about them. (`to_dot` writes ids between quotes without escaping them, so an
  id with a quote gives a file that is no DOT graph.)
- In `Scheduler`, time: durations do not matter to the order in which sections can
  interleave, and a sleep may end at any moment. `TimedRun` has the clock.
- Allocation failure, and what happens to a process after its stack has overflowed.
- The size of counters: `enqueue_sequence` and the counters are bounded by the number of
  tasks times the retry budget, far below 2^64. The attempts of one task are an int in the code
  and a number in the model; a task would have to fail 2^31 times to tell them apart.
- How long a dependency chain a worker's stack can hold (see Findings).
- Most of the vendored `json.hpp`, and with it most of the lines of the repository: the
  serialiser, the binary formats, JSON pointers and patches, SAX callbacks, comments,
  diagnostics, wide-character and file adapters, iterators, and the conversions to
  types other than int, double and string. The program calls none of it. What it does
  go through is modelled: scanning, parsing, building, integer conversion, destruction.
- In the scanner: the value of floating-point numbers beyond whether one is an integer and
  fits. A number such as `1e999`, which is JSON and no finite double, is refused by the parser
  (`json.hpp:12835`); in `JsonParser` it is a bad token, so that "exactly JSON" in
  `ParsesExactlyJson` is meant of tokens. The line counts of error messages
  are left out.

## Plan

What was planned is modelled, checked and proved. If the program changes:

- a caller of `cancel_dependents` other than `execute_task`, or a second thread that calls
  `submit`, changes what `Scheduler` and `WorkerPool` take for granted; start with `System`;
- an option or a field of a task is an action of `Main` or `Config`, and its well-formedness a
  conjunct of what these are compared with;
- a proof that fails after a change of a module names the step that no longer keeps its
  invariant. Check the invariant with TLC before repairing the proof.
