SPECIFICATION Spec
CONSTANTS
  Chunks = {c1, c2}
  Workers = {w1}
  AppThreads = {t1}
  Dispatcher = d
  NoOne = none
  NoChunk = noChunk
  ChunkLen <- OneByteEach
  budget_bytes = 1
  prefetch_depth = 1
  MaxRetry = 0
  prefetch_enabled = FALSE
  prefetch_retention_pinned = FALSE
  AdmissionGuarded = FALSE
  TimeoutMayFire = TRUE
  Big = c3
SYMMETRY FullSymmetry
INVARIANT NoAbort
