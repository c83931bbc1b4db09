SPECIFICATION Spec
CONSTANTS
  Alignment = 256
  DeviceBytes = 1280
  MaximumCachedBytes = 512
  TensorSizes <- SizesOfTensors
  ScratchSize = 100
  ExpertSize = 300
  Experts = {e1, e2}
  Copiers = {"transfer"}
  MaxTensors = 2
  MaxCalls = 3
  MaxCallsFaulty = 2
  MaxFaults = 1
SYMMETRY ExpertsAlike
INVARIANTS
  TypeOK
  OrderedAccess
  PoolsAccount
CHECK_DEADLOCK FALSE
