SPECIFICATION MCSpec
CONSTANTS
  MaxQueries = 4
  PageSize = 2
  MaxPages = 2
  MaxTrouble = 3
INVARIANTS
  OutputInOrder
PROPERTIES
  ImplementsLog
  CatchesUp
CHECK_DEADLOCK TRUE
