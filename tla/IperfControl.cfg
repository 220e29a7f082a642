CONSTANTS
  Clients = {c1, c2}
  NoClient = NoClient
  N = 2
  Processes = TRUE
  EndTests = TRUE
  MaxInterrupts = 1
SPECIFICATION Spec
INVARIANTS OwnConnections RunsTogether ResultsAgree
PROPERTIES ImplementsService 
SYMMETRY ClientSymmetry
CHECK_DEADLOCK FALSE
