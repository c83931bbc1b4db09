SPECIFICATION Spec
CONSTANTS
  Transfer = {x, y}
  Worker = {w1, w2}
  Request <- MixedRequests
INVARIANTS
  TypeOK
  HandlesReturned
  CompleteIsCopied
PROPERTIES
  Implements
  Answered
  ShutdownReturns
