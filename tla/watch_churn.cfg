SPECIFICATION Spec
CONSTANTS
  f1 = f1
  f2 = f2
  g1 = g1
  g2 = g2
  g3 = g3
  Paths <- OneFile
  Readers <- ThreeReaders
  ConfigMaxReadCount = 3
  DefaultMaxReadCount = 4
  ObsoleteMaxReadCount = 2
  ProcessingSlots = 2
  Chunks <- WholeLine
  FilesMove = TRUE
  MaxSize = 1
  MaxGeneration = 2
  MaxEvents = 1
  MaxBoots = 1
  MaxFaults = 1
INVARIANTS
  TypeOK
  OneReaderPerFile
SYMMETRY Interchangeable
CHECK_DEADLOCK FALSE
