SPECIFICATION Spec
CONSTANTS
  Blocks = 3
  FirstReward = 3
  Starts <- MCStarts
  MaxForeign = 3
  MaxHeight = 6
INVARIANT GeneratesBlocks
CHECK_DEADLOCK FALSE
