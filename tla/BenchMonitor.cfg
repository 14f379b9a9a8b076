SPECIFICATION FairSpec
CONSTANTS
  MinCell = 3
  FeeRate = 1
  NE = 1
  Benchmarks <- OneRun
  InitialFeed <- Feed16
  ChanCap = 2
  QueueCap = 1
  PoolCap = 1
  MaxFaults <- OneReorg
PROPERTY MonitorSolvesIt
CHECK_DEADLOCK FALSE
