\* Two consolidators taking turns under the worker lock, a classifier configured: DELETE, and UPDATE with rewritten text.
CONSTANTS
  c1 = c1  c2 = c2  x = x  y = y  z = z
  Consolidators = {c1, c2}
  Contents = {x, y}
  MaxId = 6
  MaxEpisodes = 2
  MaxForgets = 1
  MaxFailures = 1
  TopK = 8
  LLM = TRUE
  WorkerLock = TRUE
  None = None
SPECIFICATION Spec
INVARIANT SingleSuccessor
SYMMETRY Symmetry
