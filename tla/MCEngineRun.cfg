SPECIFICATION FairRun
CONSTANTS
  Partitions = 4
  Workers = 2
  KeepTemp = FALSE
  Windows = TRUE
INVARIANTS
  RunKeepsItsWord
PROPERTIES
  ImplementsContract
  RunReturns
CHECK_DEADLOCK FALSE
