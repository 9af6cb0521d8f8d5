SPECIFICATION Spec
CONSTANTS
  MaxTimeoutCount = 10
  HeartbeatMod = 3
  QueueLimit = 1
  Robots = {r1, r2}
  NoRobot = NoRobot
  Torn = Torn
  Mixed = Mixed
  MaxRestarts = 1
SYMMETRY RobotSymmetry
INVARIANTS
  TypeOK
  ConnectFollowsHeartbeat
  DeadSlaveNoticed
  NoOutdatedData
  NoTornLimits
  OwnLimits
  OwnRobot
