CONSTANTS
  Patience = 2
  Prompt = TRUE
  MaxRuns = 2
  MaxSessions = 2
  MaxTicks = 1
SPECIFICATION FairSpec
INVARIANTS  RunsRecordedOnce
PROPERTIES SessionEnds StopStopsIperf 
CHECK_DEADLOCK FALSE
