SPECIFICATION Spec
CONSTANTS
  Threads = {main, teachBox}
  MaxSuffix = 2
  MaxLogs = 6
  MaxRestarts = 1
INVARIANTS
  TypeOK
  NewestFirst
  SuffixesInUse
PROPERTY OnlyOldestDropped
CHECK_DEADLOCK FALSE
