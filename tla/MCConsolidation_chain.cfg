\* Three episodes, nothing fails: the second UPDATE of a chain cuts its first link.
CONSTANTS
  c1 = c1  c2 = c2  x = x  y = y  z = z
  Consolidators = {c1}
  Contents = {x, y, z}
  MaxId = 6
  MaxEpisodes = 3
  MaxForgets = 0
  MaxFailures = 0
  TopK = 8
  LLM = FALSE
  WorkerLock = TRUE
  None = None
SPECIFICATION Spec
INVARIANT NewestIsReached
