CONSTANTS
  Dirs = {"a", "b"}
  Shelves = {"c"}
  MaxTransferEdits = 3
SPECIFICATION TransferSpec
INVARIANT RecordsAreSearchable
CHECK_DEADLOCK FALSE
