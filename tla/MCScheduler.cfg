\* Two workers, two tasks retried, every failure table of the mixed graph.
SPECIFICATION FairSpec
CONSTANTS
  TaskCount = 6
  Dependencies <- MixedGraph
  Priority <- MixedPriority
  RetryCount <- MixedRetry
  FailProbability <- MixedFailure
  Workers = {w1, w2}
INVARIANTS
  TypeOK
  CountersMatchStates
  NeverTerminates
  ReadyQueueExact
  DependenciesCompleteFirst
  CancelledExactlyDownstream
  NoLostWakeup
  RunningHasOneHolder
  OutcomeIsDeterministic
  QuietAfterLoop
  ReportIsTrue
PROPERTIES
  ImplementsTaskRun
  RunReturns
