\* Calls and merge passes overlap.
CONSTANTS
  c1 = c1  c2 = c2  p1 = p1  p2 = p2  x = x  y = y  z = z
  Clients = {c1, c2}
  Procs = {p1, p2}
  Home <- MCHome
  WorkerHome = p1
  Names = {x, y}
  WriteNear <- MCNear
  ReadNear <- MCNear
  MergeNear <- MCMerge
  Overlap = TRUE
  InOrder = TRUE
  MaxId = 3
  MaxOps = 3
  MaxFailures = 0
  NoResource = NoResource
SPECIFICATION RegistrySpec
INVARIANTS OperationsLinked
