SPECIFICATION Spec
CONSTANTS
  RecentWindow = 2
  MaximumPredictions = 2
  MinimumConfidence = 5
  MinimumPrefetchConfidence = 30
  LayerCount = 3
  RouterConfig <- Router
  ScoresAt <- Scores
  TokensAt <- Decode
  Modes <- CpuModes
  MaximumPrefetch = 1
  MaxPasses = 4
  MaxFaults = 0
CHECK_DEADLOCK FALSE
INVARIANT DemandConsumesWarmLoad
