SPECIFICATION Spec
CONSTANTS
  MaxBlocks = 6
  MaxCalls = 5
  CJSON_NESTING_LIMIT = 2
INVARIANTS
  OwnedOnce
  PrintedParses
  FailedParseFreesAll
PROPERTY
  ImplementsForest
CHECK_DEADLOCK FALSE
