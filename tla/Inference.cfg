SPECIFICATION Spec
CONSTANTS
  c1 = c1
  c2 = c2
  Caller = {c1, c2}
  Geometry <- Geometries
  MemoryLimit = {100, 200}
  SizeMax = 511
  SessionIds = 2
  PromptLength = {1, 2, 5}
  NewTokens = {0, 2, 4}
INVARIANTS
  TypeOK
  Admission
  CacheFollowsTokens
  AcceptedIsServed
PROPERTY SessionsEnd
