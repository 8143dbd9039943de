SPECIFICATION FairSpec
CONSTANTS
  Main = main
  Callers = {main, t1, t2}
  Savers = {main, t1, t2}
  NumLines = 4
  MaxBatch = 2
  BatchSize = 2
  ChunkMaxLines = 2
  StartIndex = 1
  OldParts = {2, 3}
  OldLines <- MCOldLines
  LoadedChunks <- MCLoadedChunks
  MaxAttempts = 2
  MaxFaults = 1
  MaxManifestFaults = 1
  Torn = Torn
  NoReader = NoReader
INVARIANTS
  ManifestPartsExist
  LineStoredOnce
  NoLineVanishes
  OvershootBounded
PROPERTIES
  PartsImmutable
  ImplementsMergedLog
  EverythingEnds
