SPECIFICATION Spec
CONSTANTS
  co = co
  cd = cd
  cn = cn
  cp = cp
  cx = cx
  cy = cy
  Chunks = {co, cd, cn, cp, cx, cy}
  NoChunk = NoChunk
  Garbage = Garbage
  Features <- MCFeatures
  SFs <- MCSFs
  Size <- MCSize
  CLen <- MCCLen
  DSize <- SmallDeltas
  GarbleSmall = TRUE
  Hdr = 1
  MaxContainer = 5
  ThNum = 1
  ThDen = 2
  IndexType = "FORWORD"
  CacheSize = 1
  QueueCap = 2
  Batches <- PipelineBatches
  MaxCid = 16
  MaxSessions = 2
  MaxBatches = 3
  MaxBroken = 0
INVARIANTS
  EntriesFound
  OneHolder
  Restorable
CHECK_DEADLOCK FALSE
