SPECIFICATION FairSpec
CONSTANTS
  Modes = {"up", "down", "rrc"}
  MaxPackets = 2
  EndCopies = 2
  MaxLosses = 1
  MaxDoubles = 1
  MaxBackground = 1
INVARIANTS
  
  NumbersInStep
PROPERTIES
  HandshakeCompletes
  ProbesReturn
  StopEnds
CHECK_DEADLOCK FALSE
