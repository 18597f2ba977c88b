SPECIFICATION Spec
CONSTANTS
  co = co
  cd = cd
  cn = cn
  cp = cp
  cx = cx
  cy = cy
  Chunks = {co, cd, cn, cx, cy}
  NoChunk = NoChunk
  Garbage = Garbage
  Features <- MCFeatures
  SFs <- MCSFs
  Size <- MCSize
  CLen <- MCCLen
  DSize <- SmallDeltas
  GarbleSmall = TRUE
  Hdr = 1
  MaxContainer = 8
  ThNum = 1
  ThDen = 2
  IndexType = "FREQ_INDEX"
  CacheSize = 1
  QueueCap = 2
  Batches <- LossBatches
  MaxCid = 14
  MaxSessions = 3
  MaxBatches = 3
  MaxBroken = 1
INVARIANTS
  HeadersCurrent
  EntriesFound
  DeltasTracked
  ColdMarksExact
PROPERTIES
  IndexMonotone
CHECK_DEADLOCK FALSE
