SPECIFICATION MCSpec
CONSTANTS
  j1 = j1
  j2 = j2
  t1 = t1
  t2 = t2
  w1 = w1
  w2 = w2
  Jobs = {j1, j2}
  Threads = {t1, t2}
  Workers = {w1, w2}
  WorkerOf <- TwoProcesses
  Priority <- SamePriority
  MaxRetries <- TwoRetriesOrNone
  MaxFaults = 2
  NoJob = NoJob
INVARIANTS
  TypeOK
  ExclusiveUnlessOverrun
  RowsAgreeAtRest
PROPERTIES
  SettledIsFinal
  QueuedIsSettled
  Promise
CHECK_DEADLOCK FALSE
