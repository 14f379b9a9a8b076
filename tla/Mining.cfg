SPECIFICATION FairSpec
CONSTANTS
  Blocks = 3
  FirstReward = 3
  Starts <- MCStarts
  MaxForeign = 3
  MaxHeight = 6
INVARIANTS TypeOK GrowsByBlocks NoticedEarly
PROPERTY GetsGoing
CHECK_DEADLOCK FALSE
