SPECIFICATION FairSpec
CONSTANTS
  n_chunks = 4
  Options <- EveryPolicy
  Setups <- EverySetup
  MaxFaults = 40
CHECK_DEADLOCK FALSE
INVARIANT NothingLeaked
INVARIANT RoomCanBeMade
PROPERTY KeepsPromise
PROPERTY PrefetchDisplacesNothing
PROPERTY ReplayFinishes
