SPECIFICATION FairSpec
CONSTANTS
  Threads = {t0, t1, t2, t3}
  Coordinator = t0
  window = 1
  n_passes = 2
  n_chunks = 3
INVARIANT LookaheadBounded
INVARIANT SignalledInOrder
INVARIANT PositionTracksReaders
INVARIANT TraceFollowsCompletion
PROPERTY ReplayReturns
