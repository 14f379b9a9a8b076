SPECIFICATION FairSpec
CONSTANTS
  MinCell = 3
  FeeRate = 2
  NE = 2
  Benchmarks <- OneThenTwo
  InitialFeed <- Feed13
  ChanCap = 1
  QueueCap = 1
  PoolCap = 1
  MaxFaults <- FaultThenPanic
INVARIANTS TypeOK NoneStranded NoDoubleSpend CapacityConserved Viable
PROPERTIES Returns EndsWithoutMonitor
CHECK_DEADLOCK FALSE
