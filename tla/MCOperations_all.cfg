\* Every operation on its smallest interesting instance.
CONSTANTS
  a1 = a1  a2 = a2  c1 = c1  c2 = c2  p1 = p1  p2 = p2  text1 = text1  text2 = text2  text3 = text3
  \* one memory, two editors and a stamp
  Editors = {a1, a2}
  Stampers = {s1}
  Contents = {text1, text2, text3}
  First = text1
  Keep = Keep
  None = None
  \* two requests on two accounts
  Clerks = {a1, a2}
  Accounts = {u1, u2}
  Founder = u1
  Hashes = {h1}
  Workspaces = {w1}
  NoUser = NoUser
  Anyone = Anyone
  \* four memories, one of another workspace
  Mems = {1, 2, 3, 4}
  Foreign = {4}
  FileOf <- MCFileOf
  Hops = 2
  TopK = 2
  GraphWrites = 1
  \* two threads, two workspaces
  RThreads = {a1, a2}
  RSpaces = {w1, w2}
  OwnSpace = w1
  Texts = {text1}
  Noise = {}
  NoteRoom = 1
  MaxRemembers = 3
  NoBuffer = NoBuffer
  \* three members, three models
  Members = {f, g, h}
  Models = {m1, m2, m3}
  MinCluster = 1
  MergeEvery = 2
  MaxChanges = 1
  NoModel = NoModel
  \* three episodes, one shown at a time
  Episodes = {f, g, h}
  Intents = {m1}
  L6Spaces = {w1}
  MaxShown = 1
  MaxTime = 3
  \* three episodes, of which two are the same step; one makes a habit
  Habits = {1, 2, 3}
  PlaybookIds = {m1, m2, m3}
  MinHabit = 1
  NoPlaybook = NoPlaybook
  Stories <- MCStories
  NoStory = NoStory
  Tells <- MCTells
  StoriesAlike <- MCAlike
  \* two processes; calls and merge passes one after the other
  Clients = {c1, c2}
  Procs = {p1, p2}
  Home <- MCHome
  WorkerHome = p1
  Names = {text1, text2, text3}
  WriteNear <- MCNear
  ReadNear <- MCNear
  MergeNear <- MCMerge
  Overlap = FALSE
  InOrder = TRUE
  MaxId = 3
  MaxOps = 3
  MaxFailures = 2
  NoResource = NoResource
  \* two requests and the MCP server, two rows
  Requests = {a1, a2}
  MCP = mcp
  Spaces = {w1, w2}
  ConfiguredSpace = w1
  RowIds = {m1, m2}
  NoSpace = NoSpace
SPECIFICATION MCSpec
SYMMETRY Symmetry
CHECK_DEADLOCK FALSE
INVARIANTS TypesOK VectorFollowsContent EditsSurvive ChangesAddUp GraphIsFollowed NotesAreShared
  OneModelPerMember MergeLosesNobody NoneSkipped HabitsHavePlaybooks NamesLeadToOperations
PROPERTIES ActsWhereAsked ImplementsRegistry
