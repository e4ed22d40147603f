\* Two projects have the same path.
CONSTANTS
  i1 = i1  i2 = i2  w1 = w1  w2 = w2  m = m  n = n
  Indexers = {i1}
  Workspaces = {w1, w2}
  Paths <- OneFile
  Module <- Distinct
  Versions <- TwoVersions
  Names = {m, n}
  Symbols <- MCSymbols
  Calls <- MCCalls
  MaxFailures = 0
  None = None
SPECIFICATION Spec
INVARIANT ReportIsTrue
