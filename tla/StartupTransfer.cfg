SPECIFICATION FairSpec
CONSTANTS
  Histories <- Fresh
  Confirmation = 1
  Maturity = 1
  Enough = 1
  PoolLimit = 2
  MaxHeight = 5
PROPERTY AllTransferred
CHECK_DEADLOCK FALSE
