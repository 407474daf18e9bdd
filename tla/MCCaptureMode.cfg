SPECIFICATION Spec
CONSTANTS
  MaxId = 4
  MaxLog = 3
  Capacity = 3
  PurgeSize = 1
  Requests = {r1}
  Settings <- AllSettings
  Worlds <- AllWorlds
INVARIANTS EveryLossIsFlagged ReadsModeInForce
CHECK_DEADLOCK FALSE
