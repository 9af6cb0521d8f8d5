SPECIFICATION FairSpec
CONSTANTS
  JogTimeOut = 3
  Axes = {a1, a2}
  Dirs = {d1, d2}
  Spaces = {joint, cartesian}
  ZeroAxis = a1
  ZeroDir = d1
  ZeroSpace = joint
  NoJog = NoJog
  MaxRestarts = 1
INVARIANTS
  TypeOK
  DeadMan
PROPERTIES
  LostBoxStopsJog
  JogRunsOut
