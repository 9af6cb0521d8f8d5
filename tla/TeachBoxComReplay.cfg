SPECIFICATION FairSpec
CONSTANTS
  MaxConnections = 1
  MaxMessages = 1
  FdLimit = 1
  Nothing = Nothing
PROPERTY NoReplay
CHECK_DEADLOCK FALSE
