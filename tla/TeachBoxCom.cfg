SPECIFICATION FairSpec
CONSTANTS
  MaxConnections = 3
  MaxMessages = 3
  FdLimit = 3
  Nothing = Nothing
INVARIANTS
  TypeOK
  NoLeftOver
PROPERTIES
  InOrderOnce
  GoneBoxLetGo
  LetGoNearer
CHECK_DEADLOCK FALSE
