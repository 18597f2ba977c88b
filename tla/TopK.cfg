SPECIFICATION Spec
CONSTANTS
  a = a
  b = b
  c = c
  d = d
  Chunks <- MCChunks
  Batches <- MCBatches
  Column <- MCColumn
  Depth = 2
  Width = 2
  TopK = 3
  ContainerMax = 2
  MaxBatches = 4
  MaxUploads = 2
  MaxStarts = 3
  MaxKills = 2
INVARIANTS
  HeapSound
  HeapBelowSketch
  FoundOnce
CHECK_DEADLOCK FALSE
