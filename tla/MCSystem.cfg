\* Two workers, three tasks that can run at once, one of them retried.
SPECIFICATION FairSpec
CONSTANTS
  TaskCount = 3
  Dependencies <- WideGraph
  Priority <- MixedPriority
  RetryCount <- RetrySecond
  FailProbability <- AnyFailure
  Workers = {w1, w2}
  Nobody = Nobody
PROPERTIES
  ImplementsScheduler
  RunReturns
  DispatchedTasksStart
  FreeSlotsAreFilled
