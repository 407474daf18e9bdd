SPECIFICATION Spec
CONSTANTS
  MaxShots = 4
  Sizes <- TwoSizes
  MaxBytes = 3
  BatchSize = 2
  Stages <- TwoStages
  Worlds <- AllWorlds
INVARIANTS MirrorsExact UnderCap NothingOutlivesItsRow
PROPERTIES VictimOrder ImplementsFrameIndex
CHECK_DEADLOCK FALSE
