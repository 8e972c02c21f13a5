SPECIFICATION Spec
CONSTANTS
  Lines = {l1, l2}
  Texts = {old, new}
  Loaded = old
  Nothing = nothing
INVARIANT FinalEditShown
