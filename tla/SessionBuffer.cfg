SPECIFICATION Spec
CONSTANTS
  BufEntries = 2
  MaxRows = 5
  MaxExports = 2
INVARIANTS TypeOK FileIsTheLog
PROPERTIES EveryCallReturns
CHECK_DEADLOCK FALSE
