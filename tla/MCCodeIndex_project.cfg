\* One project, two indexers, edits, forced passes and a failure.
CONSTANTS
  i1 = i1  i2 = i2  w1 = w1  w2 = w2  m = m  n = n
  Indexers = {i1, i2}
  Workspaces = {w1}
  Paths <- OneProject
  Module <- Distinct
  Versions <- TwoVersions
  Names = {m, n}
  Symbols <- MCSymbols
  Calls <- MCCalls
  MaxFailures = 1
  None = None
SPECIFICATION Spec
INVARIANTS ReportIsTrue CallsAreEdges
