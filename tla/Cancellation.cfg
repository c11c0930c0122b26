\* Every acyclic graph on four tasks, every failed task, all states the other
\* tasks can be in.
SPECIFICATION Spec
CONSTANT
  TaskCount = 4
INVARIANTS
  CancelsExactlyReached
  NothingOverlooked
  StackIsAPath
