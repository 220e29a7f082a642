CONSTANTS
  Cells = {a, b}
  MaxSwitches = 2
  MaxMoves = 2
  MaxSessions = 2
SPECIFICATION Spec
INVARIANTS CountsCover  SteadyChangesCount
SYMMETRY CellSymmetry
