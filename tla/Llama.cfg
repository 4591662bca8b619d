SPECIFICATION LlamaSpec
CONSTANTS
  n_chunks = 8
  Options <- LlamaOptions
  RC_ALIGN = 4
  UINT64 = 64
  MAX_CHUNKS_PER_LAYER = 2
  MaxTokens = 16
  Files <- EveryModel
CHECK_DEADLOCK FALSE
INVARIANT LayoutSound
INVARIANT ReadsFollowTheCursor
INVARIANT AuditFindsSilence
