SPECIFICATION FairSpec
CONSTANTS
  f1 = f1
  f2 = f2
  g1 = g1
  g2 = g2
  g3 = g3
  Paths <- OneFile
  Readers <- TwoReaders
  ConfigMaxReadCount = 2
  DefaultMaxReadCount = 4
  ObsoleteMaxReadCount = 2
  ProcessingSlots = 2
  Chunks <- WholeLine
  FilesMove = FALSE
  MaxSize = 3
  MaxGeneration = 1
  MaxEvents = 1
  MaxBoots = 1
  MaxFaults = 0
INVARIANTS
  LinesInOrder
  NothingSkipped
  NeverPanics
PROPERTIES
  OffsetsGrow
  EveryLineSent
