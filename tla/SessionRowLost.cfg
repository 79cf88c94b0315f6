SPECIFICATION Spec
CONSTANTS
  BufEntries = 2
  MaxRows = 5
  MaxExports = 2
INVARIANT NoRowLost
CHECK_DEADLOCK FALSE
