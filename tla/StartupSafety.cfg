SPECIFICATION Spec
CONSTANTS
  Histories <- Settled
  Confirmation = 1
  Maturity = 1
  Enough = 2
  PoolLimit = 2
  MaxHeight = 7
INVARIANTS TypeOK CountedIsLive NothingLeftOut SpendsOnce
CHECK_DEADLOCK FALSE
