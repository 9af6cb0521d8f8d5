SPECIFICATION TimedSpec
CONSTANTS
  MaxTimeoutCount = 3
  SlavePeriod = 2
  HeartbeatMod = 5
  SlaveBurst = 1
  QueueLimit = 1
  Robots = {r1}
  NoRobot = NoRobot
  Torn = Torn
  Mixed = Mixed
  MaxRestarts = 1
INVARIANT LiveSlaveConnected
PROPERTIES
  MasterHeartbeatMoves
  BeatNearer
