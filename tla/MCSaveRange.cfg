CONSTANTS
  Files <- MCFiles
  Header <- MCHeader
SPECIFICATION Spec
INVARIANT ReportsExact
CHECK_DEADLOCK FALSE
