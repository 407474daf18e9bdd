SPECIFICATION Spec
CONSTANTS
  None = None
  yolo = yolo
  Analyzers = {yolo}
  Windows <- TwoDays
  Ranges <- SomeRanges
  Day = 2
  Gap = 1
  KeepDays = 0
  Cap = 2
  MaxTs = 3
  StepsBack = TRUE
  MaxWrites = 4
  MaxReads = 2
INVARIANTS MemoExact QuietRequest VisitsAddUp
CHECK_DEADLOCK FALSE
