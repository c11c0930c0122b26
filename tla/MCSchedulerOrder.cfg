\* Two workers race to start two tasks that were dispatched together.
SPECIFICATION Spec
CONSTANTS
  TaskCount = 4
  Dependencies <- JoinGraph
  Priority <- JoinPriority
  RetryCount <- NoRetry
  FailProbability <- AnyFailure
  Workers = {w1, w2}
PROPERTIES
  HigherPriorityStartsFirst
