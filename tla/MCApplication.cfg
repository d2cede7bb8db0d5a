CONSTANTS
  Runs = {b1, b2, b3}
  NoRun = NoRun
  Slots = {s1, s2}
  NoSlot = NoSlot
  MaxConcurrency = 1
  TerminateMayFail = TRUE
  Paths <- MCPaths
  Checkouts <- MCCheckouts
  Manifests <- MCManifests
  Detected <- MCDetected
  RootPaths <- MCRootPaths
  Volatile <- MCVolatile
  Ids = {1, 2, 3, 4, 5, 6}
  MaxProjects = 2
  MaxOperations = 4
  TaskNames <- MCTaskNames
  TaskDirs <- MCTaskDirs
  IndexProjects = {p}
  IndexCalls = {c1, c2}
  IndexSearches = {q1}
  MaxGeneration = 2
  MaxEntries = 1
  Walkers = {w1}
  NoCall = NoCall
  Pids = {1, 2}
  ProtectedPids = {2}
  PortSets <- MCPortSets
  ManagedRuns = {r1}
  NoManagedRun = NoManagedRun
  PortProjects = {pp}
  Tokens = {t1, t2}
  MaxPending = 1
  MaxBirths = 2
  UsageProviders = {u}
  UsageCallers = {k1, k2}
  MaxConnections = 3
  NoCaller = NoCaller
  MaxRequestsToWindows = 2
  MaxPendingNavigation = 1
  MonitorRuns = {m1}
  TaskPorts = {80}
  MaxLoad = 2
  MaxPortEdits = 2
  Mismatches = {"node", "python"}
  MaxClock = 4
  AuditWindow = 2
  Dirs = {"a", "b"}
  Shelves = {"c"}
  MaxTransferEdits = 4
  LoggedRuns = {"r1", "r2"}
  MaxLogCrashes = 2
  Inspectors = {n1, n2}
  Candidates <- MCCandidates
  Installable <- MCInstallable
  Absent = Absent
  Undeclared = Undeclared
  Disjunction = Disjunction
  DeclaredRanges <- MCRanges
  VersionTimeout = 1
  CacheTtl = 2
  MaxTime = 4
  MaxInstalls = 1
SPECIFICATION ApplicationSpec
INVARIANTS
  ProcessesAreBounded
  ReadyProjectsAreSearchable
  OriginsFollowRoots
  AbandonedIndexesAreCanceled
  StopsAreReviewed
  QuotasAreOfTheConnection
  WindowsFollowTheLastRequest
  VanishedProjectsAreShown
  RemovedRunsLeaveNoLog
  VerdictsAreJustified
PROPERTIES
  UserEntriesSurvive
  ImportsRestoreEntries
CHECK_DEADLOCK FALSE
