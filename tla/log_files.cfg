SPECIFICATION FairSpec
CONSTANTS
  a1 = a1
  a2 = a2
  Adders <- TwoAdders
  FileWriter = fileWriter
  Closer = closer
  NoOne = noOne
  ConfigChannelSize = 1
  DefaultChannelSize = 3
  FileSize = 2
  MaxRecordSize = 2
  MaxRecords = 4
  MaxDate = 2
  MaxBoots = 2
  MaxFaults = 2
INVARIANTS
  TypeOK
  Accounted
  OrderAcrossFiles
  FilesBounded
  NeverSendsOnClosed
PROPERTY CallsReturn
