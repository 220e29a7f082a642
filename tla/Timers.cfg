SPECIFICATION FairSpec
CONSTANTS
  Usecs = 2
  Streams = {"send1"}
  Tests <- MCTests
  grace_period = 1
  pacing_timer = 1
  Cells = 5
  MaxClock = 6
  MaxTests = 2
INVARIANTS ListsWhole TimeoutExact
PROPERTIES ImplementsDeadlines DueTimersRun
CHECK_DEADLOCK FALSE
