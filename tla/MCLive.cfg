SPECIFICATION LiveSpec
CONSTANTS
  MaxRuns = 12
  Lines = {l1, l2}
  Texts = {old, new}
  Loaded = old
  Nothing = nothing
  MaxContent = 3
  MaxOthers = 1
  Tabs = {s, t}
  LeaseTimeout = 3
  CloseGrace = 1
  DefaultGrace = 1
  Interval = 1
  Delay = 1
  MaxNow = 7
  MaxActs = 3
INVARIANTS
  SingleFlight
  NothingForgotten
  EditorSafe
  WatchSafe
PROPERTIES
  CoordinatorServes
  ChangeIsShown
  LeaseDecides
