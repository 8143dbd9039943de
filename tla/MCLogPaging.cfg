SPECIFICATION Spec
CONSTANTS
  Filters = {f1}
  NoFilter = NoFilter
  Handlers = {h1, h2}
  Main = main
  Windows = 2
  MaxInputs = 1
  MaxOpens = 1
  MaxFaults = 1
  LateOpen = TRUE
SYMMETRY HandlerSymmetry
INVARIANTS
  VersionNamesView
  CacheFresh
  FilterNotLost
