SPECIFICATION KeptSpec
CONSTANTS
  Writers = {w1, w2, w3}
  Original = original
  Windows = TRUE
  Cmps = {a, b}
  None = None
  Conds = {0, 1}
  Cond0 = 0
  StoreLimit = 1
  UrlTabs = 2
  Tasks = {t1, t2}
  MaxTabs = 3
  MaxActs = 3
INVARIANTS
  DestinationWhole
  InstalledByTheFinished
  EntriesAgree
  RestoresSettle
PROPERTIES
  CallsEnd
CHECK_DEADLOCK FALSE
