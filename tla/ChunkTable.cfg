SPECIFICATION Spec
CONSTANTS
  RESIDCTL_ALIGN = 2
  UINT64 = 16
  UINT32_MAX = 3
  Configs <- AllConfigs
CHECK_DEADLOCK FALSE
INVARIANT StartupSound
INVARIANT FetchesWhole
PROPERTY LookupReturns
