SPECIFICATION FilesSpec
CONSTANTS
  Stamps = {1, 2}
  MaxSuffix = 2
  SyncEvery = 3
  MaxSessions = 4
  MaxBatches = 4
INVARIANTS ExportFindsSession
PROPERTIES EarlierSessionsKept BoundedLoss
CHECK_DEADLOCK TRUE
