SPECIFICATION Spec
CONSTANTS
  Folders = {home, other}
  Default = home
  Ids = {a, b, c}
  MaxConnections = 2
  MaxOps = 3
  MaxFaults = 2
  None = None
SYMMETRY IdSymmetry
CHECK_DEADLOCK FALSE
INVARIANTS
  ConnectionsSane

  
  
