SPECIFICATION Spec
CONSTANTS
  PageSets <- MCPageSets
  MaxRuns = 2
  MaxActs = 2
INVARIANTS RedrawShowsResult
CHECK_DEADLOCK FALSE
