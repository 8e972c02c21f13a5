SPECIFICATION Spec
CONSTANTS
  MaxContent = 3
  MaxOthers = 1
INVARIANT
  ReloadShowsFiles
