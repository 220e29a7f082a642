SPECIFICATION FairSpec
CONSTANTS
  MAX_BATCHES_PER_CHUNK = 1
  DefaultBatch = 2
  Batches = {0, 3}
  MaxSessions = 2
  MaxSamples = 4
  MaxClicks = 3
  MaxFailures = 1
  MaxEdits = 1
INVARIANTS
  NothingLost
  StopSavesPostedLines
  ExactlyOnceInOrder
  SummaryLag
  ChunkBound
PROPERTIES
  StopReturns
CHECK_DEADLOCK FALSE
