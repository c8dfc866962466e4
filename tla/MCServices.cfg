SPECIFICATION Spec
SYMMETRY Interchangeable
CONSTANTS
  None = None
  one = one
  two = two
  \* StorePool
  Threads = {"a", "b", "c"}
  Nests = {"a"}
  Conns = {"conn1", "conn2"}
  PoolMax = 2
  MaxOpenFaults = 1
  \* ToolCalls
  Calls <- MCCalls
  ToolOf <- MCToolOf
  Workspaces = {"ws"}
  WorkspaceOf <- MCWorkspaceOf
  Resources = {"path", "proc"}
  ResourceOf <- MCResourceOf
  IdemKeys = {"key"}
  KeyOf <- MCKeyOf
  MaxInFlight = 3
  MaxGiveUps = 1
  MaxForgets = 1
  \* Approvals
  Askers = {one, two}
  Phones = {"phone"}
  Consoles = {"console"}
  ToolNames = {}
  Elevation = "__agent_elevation__"
  Domain = "set_domain_access_decision"
  MaxAsks = 2
  MaxTroubles = 1
  \* TelegramIngress
  Workers = {"w1", "w2"}
  QueueCap = 1
  WindowCap = 1
  MaxUpdates = 3
  MaxMishaps = 1
  \* CliGateway
  Sessions = {"a", "b"}
  Lanes = {"lane1", "lane2"}
  LaneOfKey <- MCLaneOfKey
  LaneCap = 2
  Adapters = {"telegram"}
  MaxLines = 3
  \* SessionStore
  Nodes = {"n1", "n2"}
  Writers <- MCWriters
  NodeOf <- MCNodeOf
  Window = 2
  KeepTurns = 1
  MaxMessages = 2
  MaxUpkeep = 2
  MaxUnwritten = 1
  \* McpPool
  McpOps = {"call", "setup", "import", "cli"}
  KindOf <- MCKindOf
  McpClients = {"m1", "m2"}
  MaxMcpFaults = 2
  \* WebStorage
  WebCalls <- MCWebCalls
  WebTool <- MCWebTool
  Asked <- MCAsked
  FileOf <- MCFileOf
  Keep <- MCKeep
  WatchLimit = 1
  MaxAtOnce = 2
  MaxSetbacks = 1
INVARIANTS
  PoolAccounted
  LockListAgrees
  GuardsReturned
  EffectOnce
  AnsweredOnce
  EachUpdateOnce
  LanesInOrder
  CopyFollowsLog
  CompactionMarked
  OwnAnswer
  PooledIsCurrent
  StorageBounded
  FilesFollowRows
PROPERTIES OrphansHaveCause
\* Each part has its bound, and stops when it is reached.
CHECK_DEADLOCK FALSE
