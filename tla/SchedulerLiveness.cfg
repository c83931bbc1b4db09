SPECIFICATION Spec
CONSTANTS
  t1 = t1
  t2 = t2
  w1 = w1
  w2 = w2
  c1 = c1
  Expert <- TwoExperts
  LayerOf <- OneLayerEach
  Size <- UnitSize
  MaxPrefetch = 1
  Profiled = TRUE
  Request <- OvertakingRequests
  Location = {"Nvme"}
  Worker = {w1, w2}
  Client = {}
  Task = {t1, t2}
  MaxPushes = 2
PROPERTIES
  ShutdownDrains
  RequestsAnswered
