SPECIFICATION Spec
CONSTANTS
  ScanCap = 2
  EnvCap = 2
  BleCap = 2
  FixMod = 4
INVARIANTS SetMatchesQueues
PROPERTIES FixIsTheNewestBefore EveryQueueServed HomeAppears
CHECK_DEADLOCK TRUE
