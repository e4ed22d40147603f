\* One consolidator, offline classification, a failure and a forgotten memory.
CONSTANTS
  c1 = c1  c2 = c2  x = x  y = y  z = z
  Consolidators = {c1}
  Contents = {x, y}
  MaxId = 7
  MaxEpisodes = 3
  MaxForgets = 1
  MaxFailures = 1
  TopK = 8
  LLM = FALSE
  WorkerLock = TRUE
  None = None
SPECIFICATION FairSpec
INVARIANTS StampedIsLearned OneFindableFact SupersededIsRetired ForgottenStaysDead
PROPERTIES ImplementsKnowledge BacklogDrains
