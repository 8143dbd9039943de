SPECIFICATION FairProgressSpec
CONSTANTS
  MaxCalls = 2
  MaxLines = 1
  MaxBlank = 1
  MaxPanels = 2
  MaxUpsets = 1
  MaxWire = 1
CHECK_DEADLOCK FALSE
INVARIANTS
  OneBridgePerPanel
  RefreshedTotalKept
PROPERTIES
  BarCloses
