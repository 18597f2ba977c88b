SPECIFICATION Spec
CONSTANTS
  co = co
  cd = cd
  cn = cn
  cp = cp
  cx = cx
  cy = cy
  Chunks = {co, cd, cn, cp, cx}
  NoChunk = NoChunk
  Garbage = Garbage
  Features <- MCFeatures
  SFs <- MCSFs
  Size <- MCSize
  CLen <- MCCLen
  DSize <- MixedDeltas
  GarbleSmall = TRUE
  Hdr = 1
  MaxContainer = 8
  ThNum = 1
  ThDen = 2
  IndexType = "ONLY_FORWORD"
  CacheSize = 1
  QueueCap = 2
  Batches <- CoreBatches
  MaxCid = 16
  MaxSessions = 3
  MaxBatches = 3
  MaxBroken = 0
PROPERTIES
  NoRewrite
CHECK_DEADLOCK FALSE
