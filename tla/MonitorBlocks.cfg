SPECIFICATION FairSpec
CONSTANTS
  empty = empty
  full = full
  NE = 2
  Block <- MCBlock
  Genesis = empty
  ReorgDepth = 1
  MaxHeight = 4
  Confirmation = 1
  Methods <- ByBlocks
  TxCount <- MCTxCount
INVARIANTS TypeOK TipIsCommon TotalIsExact RangeCovers MeasuredIsRecent PanicsOnlyOnEmpty
PROPERTY Returns
CHECK_DEADLOCK FALSE
