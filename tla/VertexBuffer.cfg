CONSTANTS
  Sizes = {1, 2}
  MaxVersion = 5
SPECIFICATION FairSpec
CHECK_DEADLOCK FALSE
INVARIANTS
  DrawnIsNewest
  OverflowNeedsTwoSizes
PROPERTIES
  TurnLeavesGPUAlone
  TurnsGoOn
