SPECIFICATION Spec
CONSTANTS
  Texts = {t0, t1}
  Original = t0
  Loads = {l1}
  Saves = {s1}
  MaxStamp = 2
INVARIANT
  CleanMeansSaved
CHECK_DEADLOCK FALSE
