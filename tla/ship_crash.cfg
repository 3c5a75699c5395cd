SPECIFICATION PipeSpec
CONSTANTS
  f1 = f1
  g1 = g1
  Paths <- OneFile
  Readers <- OneReader
  ConfigMaxReadCount <- NoLimit
  DefaultMaxReadCount = 3
  ObsoleteMaxReadCount = 0
  ProcessingSlots = 2
  Chunks <- HalfLines
  FilesMove = FALSE
  MaxSize = 3
  MaxGeneration = 1
  MaxEvents = 1
  MaxBoots = 2
  MaxFaults = 1
INVARIANTS
  PipeTypeOK
  WholeLines
  NothingForgotten
CHECK_DEADLOCK FALSE
