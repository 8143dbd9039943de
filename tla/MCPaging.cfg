SPECIFICATION PagingSpec
CONSTANTS
  Stores <- MCStores
  Terms <- MCTerms
  PageSize = 3
  WindowSize = 4
  ReadWindow = 2
  CountWindow = 3
  SearchWindow = 2
  MaxIndex = 6
  Sizes <- MCSizes
  Filters <- MCFilters
  WarmSizes = {0, 3}
INVARIANTS
  PageExact
  SearchExact
  TotalIsReadable
