SPECIFICATION FairSpec
CONSTANTS
  w1 = w1
  w2 = w2
  Workers <- Pool
  Handlers <- AllHandlers
  capacity = 3
  Readers = 2
  Faults = 2
  Speculations = 2
  GiveUps = 1
INVARIANT NothingUsedAfterClose
INVARIANT TracesWhole
PROPERTY ShutdownEnds
CHECK_DEADLOCK FALSE
