SPECIFICATION Spec
CONSTANTS
  MaxId = 2
  MaxArrivals = 2
  PerTick = 2
  Chunk = 1
  Threads = 2
  MaxJobs = 1
  MaxFaults = 1
  MaxClears = 1
  Allowed = {}
INVARIANTS NothingPassedOver
PROPERTIES EveryFrameCovered
CHECK_DEADLOCK FALSE
