SPECIFICATION Spec
CONSTANTS
  n_chunks = 3
  Options <- AllOptions
  Sequences <- ShortSequences
  MaxFaults = 6
  MaxPasses = 2
CHECK_DEADLOCK FALSE
INVARIANT FaultsRankVictims
INVARIANT DeclaredVictimIsFurthest
INVARIANT PredictionsFollow
