SPECIFICATION Spec
CONSTANTS
  RecentWindow = 2
  MaximumPredictions = 2
  MinimumConfidence = 5
  MinimumPrefetchConfidence = 60
  LayerCount = 2
  RouterConfig <- Router
  ScoresAt <- ShortScores
  TokensAt <- Tokens
  Modes <- AllModes
  MaximumPrefetch = 1
  MaxPasses = 3
  MaxFaults = 1
CHECK_DEADLOCK FALSE
INVARIANTS
  TypeOK
  LeaseCoversUse
  EachAssignmentOnce
  FailuresExplained
  QualityAccounts
  AwaitsLiveTask
