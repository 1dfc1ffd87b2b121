SPECIFICATION Spec
CONSTANTS
  Parts = {"sessions", "todos", "memories", "providers", "mcp", "specialists"}
  kA = kA  kB = kB  None = None  s1 = s1  s2 = s2  w1 = w1  NoRoot = NoRoot
  StoreSessions = {s1, s2}  FirstSession = s1
  KeepTurns = 1  CompactRequests <- SomeRequests  ForkPoints = {0, 1, 3}
  Page = 3  ConversationLimit = 2  MaxMessages = 4  MaxRequests = 2
  TodoSessions = {s1, s2}  Keys = {kA, kB}  PayloadItems <- Items
  MaxPayload = 2  MaxTodos = 3  MaxIds = 3  ContextLines = 2
  Agents <- Callers  NewStatuses = {"active", "disabled", "deleted"}
  MaxRecords = 1  ContextRecords = 1
  Profiles = {p1, p2}  Editors = {e1, e2}
  Servers = {m1, m2}  ServerNames = {n1, n2}  Clients = {c1, c2}
  Definitions = {d1, d2}  Builtin = d1  DefinitionKeys = {k1}  SeedKey = k2
INVARIANTS HistoryIntact SummaryCoversRange WellFormedLists NoOrphanTodos NoRevival SettingsSound
PROPERTIES MergeKeepsRows AgentStaysInside
CHECK_DEADLOCK FALSE
