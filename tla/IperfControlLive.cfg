CONSTANTS
  Clients = {c1, c2}
  NoClient = NoClient
  N = 1
  Processes = TRUE
  EndTests = FALSE
  MaxInterrupts = 0
SPECIFICATION FairSpec
PROPERTIES ServerFrees RunReturns
CHECK_DEADLOCK FALSE
