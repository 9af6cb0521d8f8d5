SPECIFICATION Spec
CONSTANTS
  MaxSpeed = 2
  MaxType = 1
  MaxCalls = 2
  MaxRestarts = 1
INVARIANTS
  TypeOK
  SettingsDurable
