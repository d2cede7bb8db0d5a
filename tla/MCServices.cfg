CONSTANTS
  McpLines = {"notification", "initialize", "unknown method", "list_projects",
              "add_task", "remove_project", "update_task", "scan_root"}
  MaxRequests = 2
  MaxEdits = 1
  r1 = r1
  Projects = {p1, p2}
  Paths = {d1, d2}
  Roots = {r1}
  RootOf <- MCRootOf
  MaxVersion = 1
  NoPath = NoPath
  Operations = {o1, o2}
  NoLock = NoLock
  NoSnapshot = NoSnapshot
  MaxOutput = 2
  MaxLogChunks = 1
SPECIFICATION ServicesSpec
INVARIANTS
  DisconnectCancelsActiveWork
  AnswersTellWhatHappened
  OneOperationPerRepository
  CacheIsOfTheRecordedPath
  FinishedOperationsStayVisible
PROPERTIES
  SessionsEnd
  OperationsEnd
  ExitsAreReported
CHECK_DEADLOCK FALSE
