SPECIFICATION Spec
CONSTANTS
  Chunks = {c1, c2, c3}
  Workers = {w1, w2}
  AppThreads = {t1}
  Dispatcher = d
  NoOne = none
  NoChunk = noChunk
  ChunkLen <- OneTwice
  budget_bytes = 2
  prefetch_depth = 2
  MaxRetry = 1
  prefetch_enabled = TRUE
  prefetch_retention_pinned = TRUE
  AdmissionGuarded = TRUE
  TimeoutMayFire = FALSE
  Big = c3
SYMMETRY SmallSymmetry
INVARIANT EvictionSafe
INVARIANT NoLockCycle
INVARIANT PinsOwned
INVARIANT RetentionSound
INVARIANT ResidentIsReadable
INVARIANT BudgetRespected
INVARIANT AccountingExact
INVARIANT QueuesExact
PROPERTY InfeasibleIsTransient
PROPERTY KeepsPromise
