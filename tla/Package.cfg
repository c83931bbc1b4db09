CONSTANTS
  Checkpoints <- MCCheckpoints
  Tools = {"convert", "real"}
  Encodings = {"PRESERVE", "INT8"}
  Alignment = 8
  ExecutionBudget = 16
  Attempts = 2
SPECIFICATION Spec
INVARIANTS TypeOK OpenIsFaithful ConvertedOpens
PROPERTY TouchesOnlyItsOwn
CHECK_DEADLOCK FALSE
