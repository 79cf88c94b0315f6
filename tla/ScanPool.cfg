SPECIFICATION Spec
CONSTANTS
  PoolSize = 2
  ScanBufMax = 2
  QueueDepth = 2
  HistoryLen = 2
  MaxSweeps = 2
  Hidden = Hidden
  NoBeacon = NoBeacon
  NoPattern = NoPattern
  a1 = a1
  a2 = a2
  a3 = a3
  home = home
  Beacons <- MCBeacons
  MinRssiRequests <- MCMinRssiRequests
  Patterns <- MCPatterns
INVARIANTS TypeOK SweepRetained QueueKeepsSweepPrefix SnapshotFaithful
PROPERTIES RingIsSlidingWindow RefinesApTable
CHECK_DEADLOCK TRUE
