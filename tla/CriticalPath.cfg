\* Every graph on four tasks, with self-dependencies and cycles; the durations
\* zero to two for the acyclic ones.
SPECIFICATION Spec
CONSTANTS
  TaskCount = 4
  Durations = {0, 1, 2}
INVARIANTS
  ValidationIsExact
  OrderIsTopological
  ResultIsLongestPath
