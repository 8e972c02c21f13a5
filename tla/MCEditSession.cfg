SPECIFICATION BothSpec
CONSTANTS
  Texts = {t0, t1}
  Original = t0
  Loads = {l1, l2}
  Saves = {s1, s2}
  MaxStamp = 3
INVARIANTS
  CleanMeansOnDisk
  HunksRebuild
  CountsFit
  MergesFit
PROPERTIES
  NoSilentOverwrite
SYMMETRY Calls
CHECK_DEADLOCK FALSE
