CONSTANTS
  s1 = s1
  f1 = f1
  e1 = e1
  Sources = {s1}
  Files = {f1}
  SourceOf <- MCSourceOf
  Sessions = {e1}
  FileOf <- MCFileOf
  MaxVersion = 1
  Holds <- MCHolds
  MaxRevisions = 2
  WritesMayFail = TRUE
  NoRow = NoRow
  NoSource = NoSource
  Cancels = TRUE
  MaxRebuilds = 1
  MaxCrashes = 1
SPECIFICATION Spec
INVARIANTS
  PublishedSessionsAreIndexed
  MissingSessionsCanReturn
PROPERTIES
  ForcedPassesRun
CHECK_DEADLOCK FALSE
