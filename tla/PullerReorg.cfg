SPECIFICATION Spec
CONSTANTS
  g = g
  pay = pay
  NE = 1
  Block <- TwoBodies
  Genesis = g
  ReorgDepth = 2
  MaxHeight = 4
  TxOuts <- OnePayment
  CbOuts <- OneReward
  RollbackSpan = 2
  Maturity = 1
  Capacity = 1
CONSTRAINT FewCells
INVARIANTS Coverage HeldBack NeverPanics
CHECK_DEADLOCK FALSE
