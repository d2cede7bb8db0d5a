CONSTANTS
  r1 = r1
  h1 = h1
  h2 = h2
  Projects = {p1, p2}
  Paths = {d1, d2}
  Roots = {r1}
  RootOf <- MCRootOf
  MaxVersion = 1
  NoPath = NoPath
  Heads = {h1, h2}
  NoHead = NoHead
  HeadOf <- MCHeadOf
  Commits = {1, 2}
  LogOf <- MCLogOf
  Ranges <- MCRanges
  BatchSize = 1
  Workers = {w1, w2}
  MaxJobs = 2
  NoRow = NoRow
  NoTarget = NoTarget
  FootprintProjects = {g1}
  RecordIds = {1, 2, 3}
  Forms <- MCForms
  Instants <- MCInstants
  Days <- MCDays
  Spans <- MCSpans
  Queries <- MCQueries
  Unfiltered = Unfiltered
  PageSize = 1
  MaxPages = 2
  MaxReloads = 1
  NoRecord = NoRecord
  Gone = Gone
  NoCursor = NoCursor
SPECIFICATION ActivitySpec
SYMMETRY Symmetry
INVARIANTS
  CoverageIsComplete
  CompletedMeansCovered
  SummariesCountRecords
  PagesMissNothing
CHECK_DEADLOCK FALSE
