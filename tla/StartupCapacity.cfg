SPECIFICATION Spec
CONSTANTS
  Histories <- Restarted
  Confirmation = 1
  Maturity = 1
  Enough = 3
  PoolLimit = 2
  MaxHeight = 6
INVARIANT CapacityEnsured
CHECK_DEADLOCK FALSE
