SPECIFICATION Spec
CONSTANTS
  empty = empty
  full = full
  NE = 2
  Block <- MCBlock
  Genesis = empty
  ReorgDepth = 1
  MaxHeight = 5
  Confirmation = 1
  Methods <- ByTransactions
  TxCount <- MCTxCount
INVARIANTS QueueIsChain PanicsOnlyOnEmpty MeasuredIsNearly
CHECK_DEADLOCK FALSE
