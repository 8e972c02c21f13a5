SPECIFICATION BothSpec
CONSTANTS
  Size = 4
  Workers = 3
  MinChunk = 1
  Records = {1, 2, 3}
  MaxRecords = 5
  Chunk = 2
  FanIn = 2
INVARIANTS
  RoutedOnce
  EveryRowRouted
  NothingLost
PROPERTIES
  StagesEnd
CHECK_DEADLOCK FALSE
