SPECIFICATION FairSpec
CONSTANTS
  g = g
  pay = pay
  NE = 2
  Block <- TwoBodies
  Genesis = g
  ReorgDepth = 1
  MaxHeight = 4
  TxOuts <- OnePayment
  CbOuts <- OneReward
  RollbackSpan = 1
  Maturity = 1
  Capacity = 1
INVARIANTS TypeOK NothingMissed NoImmatureReward
PROPERTIES NoRepeat FeedSpec Delivered
CHECK_DEADLOCK FALSE
