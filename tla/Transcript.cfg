SPECIFICATION Spec
CONSTANTS
  Iterations = 3
  DOORMAN_FIRE_LIMIT = 1
  Batch = 2
  MaxRows = 4
  MaxFaults = 1
INVARIANTS SentWhole InStep
PROPERTIES TranscriptKept
CHECK_DEADLOCK FALSE
