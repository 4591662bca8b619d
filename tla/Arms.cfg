SPECIFICATION ArmsSpec
CONSTANTS
  PageSize = 2
  UINT32 = 8
  Arguments <- EveryArgument
INVARIANT ReplayReadsAllOnce
INVARIANT ArmsComparable
CHECK_DEADLOCK FALSE
