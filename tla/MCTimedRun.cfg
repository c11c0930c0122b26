\* A run without delays takes at most six ticks; two more leave room for delays.
SPECIFICATION Spec
CONSTANTS
  TaskCount = 4
  Dependencies <- ZigzagGraph
  WorkerCount = 2
  Priority <- MixedPriority
  RetryCount <- RetryFirst
  Durations = {1, 2}
  MaxTime = 8
INVARIANTS
  RunTimeIsBounded
