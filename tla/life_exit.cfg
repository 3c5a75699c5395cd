SPECIFICATION FairSpec
CONSTANTS
  x1 = x1
  x2 = x2
  AllIndexes <- TwoIndexes
  Intervals <- SomeIntervals
  ChannelSize = 1
  FileSize = 1
  MaxLine = 1
  Leftovers <- OneFullFile
  MaxDay = 1
  MaxIndex = 2
  MaxLogged = 2
  MaxFaults = 1
INVARIANTS
  TypeOK
  StartsTogether
  StopsForAReason
  LoggedInOrder
PROPERTY EndsTogether
