SPECIFICATION FairPipe
CONSTANTS
  f1 = f1
  g1 = g1
  Paths <- OneFile
  Readers <- OneReader
  ConfigMaxReadCount <- NoLimit
  DefaultMaxReadCount = 3
  ObsoleteMaxReadCount = 2
  ProcessingSlots = 2
  Chunks <- WholeLine
  FilesMove = FALSE
  MaxSize = 1
  MaxGeneration = 1
  MaxEvents = 1
  MaxBoots = 2
  MaxFaults = 1
PROPERTY
  LostIsReadAgain
CHECK_DEADLOCK FALSE
