SPECIFICATION FairSpec
CONSTANTS
  s1 = s1
  s2 = s2
  Senders <- TwoSenders
  Writer = writer
  Closer = closer
  NoData <- LastRecord
  ConfigMaxChannelSize = 1
  DefaultMaxChannelSize = 3
  ConfigMaxRetry = 0
  DefaultMaxRetry = 2
  ConfigRetryInterval = 1
  DefaultRetryInterval = 3
  ConfigTimeout = 5
  DefaultTimeout = 30
  BulkSize = 2
  LateSends = TRUE
  MaxRecords = 4
  MaxBatch = 2
INVARIANTS
  TypeOK
  OneFate
  CountersAgree
  BulkBounded
  InOrder
  DrainedByClose
PROPERTIES
  SendReturns
  CloseReturns
