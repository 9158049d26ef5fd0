SPECIFICATION Spec
CONSTANTS
  t1 = t1
  t2 = t2
  t3 = t3
  c1 = c1
  c2 = c2
  Threads = {t1, t2, t3}
  Consumers = {c1, c2}
  NoThread = NoThread
  HashSize = 2
  hash_thread_id <- MCHash
  BlockSize = 2
  IndexSize = 2
  PoolSize = 1
  MaxOvercommit = 1
  Scenarios <- MCScenarios
INVARIANTS AssertsHold
PROPERTIES ImplementsRequestQueue
CHECK_DEADLOCK FALSE
