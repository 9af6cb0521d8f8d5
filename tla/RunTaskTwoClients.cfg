SPECIFICATION Spec
CONSTANTS
  Clients = {teach, keyboard}
  TeachBox = teach
  Targets = {0, 1, 2, 3}
  InLimits = {1, 2}
  UserZero = 10
  Home = 0
  NoTask = NoTask
  Empty = Empty
  ShowFirst = FALSE
  MaxAccepted = 2
  MaxRestarts = 0
PROPERTY NoTaskOverOwn
