CONSTANTS
  Checkpoints <- MCCheckpoints
  Tools = {"convert", "real"}
  Encodings = {"PRESERVE", "INT8"}
  Alignment = 8
  ExecutionBudget = 16
  Attempts = 2
SPECIFICATION Spec
INVARIANT ConversionIsTransactional
CHECK_DEADLOCK FALSE
