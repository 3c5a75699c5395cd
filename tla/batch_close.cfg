SPECIFICATION FairSpec
CONSTANTS
  a1 = a1
  a2 = a2
  r1 = r1
  r2 = r2
  r3 = r3
  r4 = r4
  r5 = r5
  Ticker = ticker
  Closer = closer
  NoOne = noOne
  Adders <- TwoAdders
  Records <- FourRecords
  ConfigBatchSize = 5
  DefaultBatchSize = 3
  MaxBatchSize = 2
  CacheCapacity = 2
  AutoFlush = TRUE
  SendMayFail = TRUE
  LateAdds = FALSE
INVARIANTS
  InOrder
  BatchBounded
  CacheEmptyBetweenFlushes
  DrainedByClose
PROPERTIES
  ImplementsOrderedDelivery
  FullBufferSent
  CloseReturns
