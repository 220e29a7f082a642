SPECIFICATION Spec
CONSTANTS
  MaxOptions = 3
  MaxTests = 2
INVARIANTS ServerMirrors RetransmitsKnown
CHECK_DEADLOCK FALSE
