SPECIFICATION Spec
CONSTANTS
  NoValue = NoValue
  NaN = NaN
  Switched = Switched
  WhitespaceChange = WhitespaceChange
  WhitespaceAll = WhitespaceAll
  MaxActs <- MCMaxActs
  MaxPanelActs <- MCMaxPanelActs
  RenderPages <- MCRenderPages
  MaxRenders = 2
  EventKinds <- MCEventKinds
  InputPaths <- MCInputPaths
  Output = "c"
  UndoLimit = 2
  MaxRequests = 2
  Layouts <- MCLayouts
  LineCounts = {0, 2}
  ExpandChunk = 1
  BatchRanges = 2
  BatchLines = 3
  Sizes = {0, 4}
  Limit = 3
  Ahead = 1
  Behind = 1
  MessageTexts = {"a", "b"}
  DismissDelay = 1
  MaxEntries = 2
  Plan <- MCPlan
  Pairs = {"wide", "narrow"}
  LeftNames <- MCLeftNames
  RightNames <- MCRightNames
  AlignColumns = TRUE
  MaxRows = 1
  TableResults <- MCTableResults
  PageSize = 2
  Columns <- MCColumns
  ChangedCells <- MCChangedCells
  Summaries <- MCSummaries
  MaxApplied = 2
  FolderEntries <- MCFolderEntries
  FoundIn <- MCFoundIn
  Names <- MCNames
  ExpandLimit = 2
  Patterns = {"", "a", "b"}
  Finds <- MCFinds
  SearchPages <- MCSearchPages
  MaxHits = 3
  MaxSearches = 2
INVARIANTS
  FinishedIsShown
  OneTimeline
  PreviewOfChoices
  ContextWhole
  ReadingIsReady
  LanesAreTrue
  FilterMeansTheSame
  RequestFitsInspection
  
  FolderTrue
  HitsAreOfScreen
PROPERTIES
  AdvanceGoesOn
CHECK_DEADLOCK FALSE
