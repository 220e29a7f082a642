SPECIFICATION Spec
CONSTANTS
  MAX_BATCHES_PER_CHUNK = 1
  DefaultBatch = 2
  Batches = {1}
  MaxSessions = 1
  MaxSamples = 3
  MaxClicks = 2
  MaxFailures = 0
  MaxEdits = 0
INVARIANTS
  StopSavesUnsavedLogs
CHECK_DEADLOCK FALSE
