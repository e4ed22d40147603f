\* Calls of the stores and upkeep: what must go on.
CONSTANTS
  home = home  thread1 = thread1  thread2 = thread2
  \* two goroutines of one process; calls on one id do not overlap
  Procs = {home}
  Threads = {thread1, thread2}
  Home <- OneHome
  Ids = {a}
  FileIds = {a}
  Vecs = {v}
  BadVec = BadVec
  Null = Null
  Absent = Absent
  Nobody = Nobody
  Overlap = FALSE
  \* two goroutines, three connections, two locks
  PoolProcs = {home}
  PoolThreads = {thread1, thread2}
  PoolHome <- OneHome
  PoolSize = 3
  Names = {n}
  PoolFree = PoolFree
  \* three episodes, batches of two
  Eps = {1, 2, 3}
  BackfillBatch = 2
  LinkingBudget = 1
  MinEps = 2
  Alike <- MCAlike
SPECIFICATION MCSpec
CHECK_DEADLOCK FALSE
INVARIANTS TypesOK RefsAreFound
PROPERTIES EveryCallReturns KnownAreClassed
