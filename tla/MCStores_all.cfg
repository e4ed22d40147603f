\* What an engine stands on, each on its smallest interesting instance.
CONSTANTS
  small_dict = small_dict  small_chars = small_chars  small_http = small_http
  large_dict = large_dict  large_chars = large_chars  large_http = large_http
  p1 = p1  p2 = p2  t1 = t1  t2 = t2  t3 = t3
  \* two processes on one database of one row, two goroutines in the first
  Procs = {p1, p2}
  Threads = {t1, t2, t3}
  Home <- TwoHomes
  Ids = {a}
  FileIds = {a}
  Vecs = {v, w}
  BadVec = BadVec
  Null = Null
  Absent = Absent
  Nobody = Nobody
  Overlap = FALSE
  \* one engine at a time, six configurations, three memories
  Engines = {e1}
  Configs = {small_dict, small_chars, large_dict, large_chars, small_http, large_http}
  Dim <- MCDim
  Tokenizer <- MCTokenizer
  Hosted = "hosted"
  EmbIds = {a, b, c}
  Resume = TRUE
  NoVector = NoVector
  NoRow = NoRow
  None = None
  \* two engines on Postgres, two dimensions, one memory
  PgEngines = {e1, e2}
  PgDims = {small, large}
  PgIds = {a}
  PgLapse = FALSE
  PgNull = PgNull
  PgNone = PgNone
  \* a global and a project file
  CfFiles = 2
  \* two processes, two downloads or removals
  DictProcs = {p1, p2}
  DictCalls = 2
  NoVariant = NoVariant
  \* two processes, one entry, two master keys
  SecretProcs = {p1, p2}
  SecretNames = {n}
  KeyChanges = 1
  NoKey = NoKey
  BlankKey = BlankKey
  Torn = Torn
  \* four ids, two vectors
  Items = {a, b, c, d}
  Vectors = {v, w}
SPECIFICATION MCSpec
CHECK_DEADLOCK FALSE
INVARIANTS TypesOK IndexFollowsOwnWrites OneSpace SetupNeverRaces WritesFit
  NumbersFollowPrecedence SegmenterIsRight SecretsOpen IndexIsTheMap
PROPERTY ImplementsVectorStore
