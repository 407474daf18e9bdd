SPECIFICATION Spec
CONSTANTS
  MaxId = 2
  MaxTime = 2
  Gap = 0
  PerTick = 1
  Threads = 2
  MaxFaults = 1
  Allowed = {}
  None = None
INVARIANTS NothingPassedOver NeverExtended
PROPERTIES EveryVisitNamed

CHECK_DEADLOCK FALSE
