SPECIFICATION Spec
CONSTANTS
  co = co
  cd = cd
  cn = cn
  cp = cp
  cx = cx
  cy = cy
  Chunks = {co, cd, cn, cx, cy}
  NoChunk = NoChunk
  Garbage = Garbage
  Features <- MCFeatures
  SFs <- MCSFs
  Size <- MCSize
  CLen <- MCCLen
  DSize <- SmallDeltas
  GarbleSmall = FALSE
  Hdr = 1
  MaxContainer = 8
  ThNum = 1
  ThDen = 2
  IndexType = "FREQ_INDEX"
  CacheSize = 1
  QueueCap = 2
  Batches <- LossBatches
  MaxCid = 14
  MaxSessions = 2
  MaxBatches = 2
  MaxBroken = 1
INVARIANTS
  DownloadIdentical
CHECK_DEADLOCK FALSE
