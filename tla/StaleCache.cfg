SPECIFICATION Spec
CONSTANTS
  co = co
  cd = cd
  cn = cn
  cp = cp
  cx = cx
  cy = cy
  Chunks = {co, cd, cn, cx, cy}
  NoChunk = NoChunk
  Garbage = Garbage
  Features <- MCFeatures
  SFs <- MCSFs
  Size <- MCSize
  CLen <- MCCLen
  DSize <- SmallDeltas
  GarbleSmall = FALSE
  Hdr = 1
  MaxContainer = 16
  ThNum = 1
  ThDen = 2
  IndexType = "FREQ_INDEX"
  CacheSize = 1
  QueueCap = 2
  Batches <- StaleBatches
  MaxCid = 16
  MaxSessions = 4
  MaxBatches = 4
  MaxBroken = 0
INVARIANTS
  DownloadIdentical
CHECK_DEADLOCK FALSE
