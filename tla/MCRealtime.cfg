SPECIFICATION Spec
CONSTANTS
  Main = main
  Callers = {main, p1, p2}
  Savers = {main, p1, p2}
  NumLines = 3
  MaxBatch = 4
  ChunkMaxLines = 2
  StartIndex = 0
  OldParts = {1}
  OldLines <- MCOldLines
  LoadedChunks <- MCLoadedChunks
  MaxAttempts = 2
  MaxFaults = 1
  Torn = Torn
  NoReader = NoReader
  Window = 2
SYMMETRY PulseSymmetry
INVARIANTS
  EndWritesAll
  NoLineStranded

  
