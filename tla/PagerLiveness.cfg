SPECIFICATION FairSpec
CONSTANTS
  Chunks = {c1, c2}
  Workers = {w1, w2}
  AppThreads = {t1}
  Dispatcher = d
  NoOne = none
  NoChunk = noChunk
  ChunkLen <- OneByteEach
  budget_bytes = 1
  prefetch_depth = 1
  MaxRetry = 1
  prefetch_enabled = TRUE
  prefetch_retention_pinned = TRUE
  AdmissionGuarded = TRUE
  TimeoutMayFire = FALSE
  Big = c3
PROPERTY FaultAnswered
PROPERTY PoolDrains
