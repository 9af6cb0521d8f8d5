SPECIFICATION Spec
CONSTANTS
  Clients = {teach}
  TeachBox = teach
  Targets = {0, 1, 2, 3}
  InLimits = {1, 2}
  UserZero = 10
  Home = 0
  NoTask = NoTask
  Empty = Empty
  ShowFirst = FALSE
  MaxAccepted = 3
  MaxRestarts = 1
INVARIANT TypeOK
PROPERTIES
  MailboxSpec
  RunsWhatWasAccepted
