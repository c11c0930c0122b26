\* As many jobs as workers: a job may queue up behind busy workers or find
\* several of them asleep.
SPECIFICATION FairSpec
CONSTANTS
  Workers = {w1, w2, w3}
  Jobs = {j1, j2, j3}
  NoJob = NoJob
  Nobody = Nobody
  ThreadsMayFail = TRUE
INVARIANTS
  TypeOK
  NoNotificationIsLost
  ShutdownDrains
PROPERTIES
  ImplementsJobQueue
  ShutdownReturns
  SpawnFailureIsFatal
