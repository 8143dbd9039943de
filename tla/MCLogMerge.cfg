SPECIFICATION FairSpec
CONSTANTS
  NoTs = NoTs
  HostYear = 1
  Year = 100
  Second = 2
  Jitter = 3
  NL = NL
  CR = CR
  NeededFields = {"time", "message"}
  MinMatch = 50
  SampleLines = 2
  FileNames <- MCFileNames
  Unlisted <- MCUnlisted
  RuleFiles <- MCRuleFiles
  Texts <- MCTexts
  Options <- MCOptions
  Breakable <- MCBreakable
  BatchSize = 2
  Refill = 2
  WarmChunk = 2
  MaxFaults = 1
INVARIANTS
  SeriesDescends
  MergeOrdered
  EachLineOnce
  WarmNewest
PROPERTIES
  MergeEnds
