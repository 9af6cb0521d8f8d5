SPECIFICATION Spec
CONSTANTS
  Clients = {teach}
  TeachBox = teach
  Targets = {0, 1, 2, 3}
  InLimits = {1, 2}
  UserZero = 10
  Home = 0
  NoTask = NoTask
  Empty = Empty
  ShowFirst = TRUE
  MaxAccepted = 3
  MaxRestarts = 0
PROPERTY NoTaskWhileRunning
