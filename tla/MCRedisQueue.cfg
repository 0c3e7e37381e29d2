SPECIFICATION FairRedisSpec
CONSTANTS
  j1 = j1
  t1 = t1
  t2 = t2
  w1 = w1
  w2 = w2
  Jobs = {j1}
  Threads = {t1, t2}
  Workers = {w1, w2}
  WorkerOf <- TwoProcesses
  Priority <- OneJobPriority
  MaxRetries <- OneRetry
  MaxFaults = 1
  NoJob = NoJob
INVARIANT QueuedIsListed
PROPERTIES
  ListedIsSettled
  Promise
CHECK_DEADLOCK FALSE
