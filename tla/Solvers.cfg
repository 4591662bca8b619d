SPECIFICATION SolversSpec
CONSTANTS
  Chunks = {0, 1, 2, 3}
  UINT64_MAX = 20
  Traces <- AllTraces
  Capacities <- AnyCapacity
  Inputs <- AnyInput
CHECK_DEADLOCK FALSE
INVARIANT SimulationSound
INVARIANT ResultIsMinimal
PROPERTY EndsWithResult
