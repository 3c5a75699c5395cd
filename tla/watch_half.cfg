SPECIFICATION Spec
CONSTANTS
  f1 = f1
  f2 = f2
  g1 = g1
  g2 = g2
  g3 = g3
  Paths <- OneFile
  Readers <- TwoReaders
  ConfigMaxReadCount = 3
  DefaultMaxReadCount = 4
  ObsoleteMaxReadCount = 2
  ProcessingSlots = 2
  Chunks <- LongLine
  FilesMove = FALSE
  MaxSize = 4
  MaxGeneration = 1
  MaxEvents = 2
  MaxBoots = 1
  MaxFaults = 0
INVARIANTS
  FinishedMeansRead
