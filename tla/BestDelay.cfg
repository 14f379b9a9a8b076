SPECIFICATION FairSpec
CONSTANTS
  Second = 24
  Near = 6
  Top = 63
  Tps <- MCTps
  MaxCount = 4
INVARIANTS TypeOK PanicsAtFirst
PROPERTIES Halves Ends
CHECK_DEADLOCK FALSE
