SPECIFICATION FairSpec
CONSTANTS
  co = co
  cd = cd
  cn = cn
  cp = cp
  cx = cx
  cy = cy
  Chunks = {co, cd, cn, cp, cx}
  NoChunk = NoChunk
  Garbage = Garbage
  Features <- MCFeatures
  SFs <- MCSFs
  Size <- MCSize
  CLen <- MCCLen
  DSize <- MixedDeltas
  GarbleSmall = TRUE
  Hdr = 1
  MaxContainer = 8
  ThNum = 1
  ThDen = 2
  IndexType = "FREQ_INDEX"
  CacheSize = 1
  QueueCap = 2
  Batches <- CoreBatches
  MaxCid = 16
  MaxSessions = 3
  MaxBatches = 4
  MaxBroken = 0
INVARIANTS
  TypeOK
  HeadersCurrent
  EntriesFound
  NoChain
  SimilarAreBases
  DeltaIndexExact
  DeltasTracked
  PairsFlat
  Tiled
  OneHolder
  ColdMarksExact
  CodedAgainstBase
  Restorable
  NoStaleRead
PROPERTIES
  SessionEnds
CHECK_DEADLOCK FALSE
