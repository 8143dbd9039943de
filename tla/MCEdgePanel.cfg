SPECIFICATION Spec
CONSTANTS
  Names = {f}
  Spaces = {w1, w2}
  First = w1
  LogMax = 2
  MaxEvents = 3
  None = None
CHECK_DEADLOCK FALSE
INVARIANTS
  
  LogShowsRing
PROPERTIES
  PanelSettles
