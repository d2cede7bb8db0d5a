CONSTANTS
  s1 = s1
  f1 = f1
  e1 = e1
  Sources = {s1}
  Files = {f1}
  SourceOf <- MCSourceOf
  Sessions = {e1, e2}
  FileOf <- MCFileOf
  MaxVersion = 2
  Holds <- MCHolds
  MaxRevisions = 3
  WritesMayFail = TRUE
  NoRow = NoRow
  NoSource = NoSource
  Cancels = FALSE
  MaxRebuilds = 0
  MaxCrashes = 0
SPECIFICATION Spec
INVARIANTS
  RevokedSourcesKeepNothing
  ManualAssociationsWin
  CheckpointsAreUpToDate
CHECK_DEADLOCK FALSE
