SPECIFICATION Spec
CONSTANTS
  Keys = {1, 2}
  Rows = {1, 2, 3, 4}
  Records <- MCRecords
  Tolerances <- MCTolerances
  MaxRows = 3
INVARIANTS
  EveryRowOnce
  OnlyMeansAbsent
  NoPairMissed
  SummaryIsBest
CHECK_DEADLOCK FALSE
