SPECIFICATION Spec
CONSTANTS
  Usecs = 2
  Streams = {"send1"}
  Tests <- MCServerSends
  grace_period = 1
  pacing_timer = 1
  Cells = 5
  MaxClock = 6
  MaxTests = 2
PROPERTY ImplementsDeadlines
CHECK_DEADLOCK FALSE
