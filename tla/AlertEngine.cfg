SPECIFICATION AlertSpec
CONSTANTS
  LogLen = 2
  MaxTargets = 2
  MaxEdits = 1
  Chars = {"a", "b", "x", "y", "1", "2"}
  Aps <- MCAps
  Ssids <- MCSsids
  Bssids <- MCBssids
  Thresholds <- MCThresholds
INVARIANTS AlertJustified
PROPERTIES LogIsNewestFirst UndisturbedVerdict
CHECK_DEADLOCK TRUE
