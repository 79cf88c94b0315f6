SPECIFICATION PowerSpec
CONSTANTS
  ClockMod = 6
  Timeouts = {0, 2}
  DimPcts = {25, 60}
  AutoOffs = {0, 5}
INVARIANTS FullMeansLit
PROPERTIES DarkOnlyWhenIdle SleepOnlyWhenIdle LeftAloneGoesDark
CHECK_DEADLOCK TRUE
