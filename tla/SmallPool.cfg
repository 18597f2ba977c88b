SPECIFICATION FairSpec
CONSTANTS
  b1 = b1
  b2 = b2
  d1 = d1
  d2 = d2
  k1 = k1
  k2 = k2
  k3 = k3
  MaxLen = 3
  NoChunk = NoChunk
  FileHead = FileHead
  Garbage = Garbage
  NoContainer = NoContainer
  Chunks <- MCChunks
  Containers <- MCContainers
  ContainerOf <- MCContainerOf
  BaseOf <- MCBaseOf
  Recipes <- MCRecipes
  RecipeBatch = 2
  SendBatch = 2
  Cap = 3
  QueryMax = 1
  ArraySlots = 4
  LruMax = 2
  PoolSize = 1
  NetMax = 1
  QueueMax = 1
PROPERTY DownloadFaithful
CHECK_DEADLOCK FALSE
