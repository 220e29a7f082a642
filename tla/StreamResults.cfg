SPECIFICATION Spec
CONSTANTS
  Configs <- MCConfigs
  IntBits = 3
  MaxBlocks <- MCMaxBlocks
  MaxDups = 1
  MaxStats = 1
INVARIANTS  LossCounted IntervalsAddUp SummariesAgree
CHECK_DEADLOCK FALSE
