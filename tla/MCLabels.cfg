SPECIFICATION LabelsSpec
CONSTANTS
    NULL = NULL
    MaxTime = 3
    Batch = 2
    Slots = {1, 2}
    Loads <- MCLoads
 
PROPERTIES DurableLabels MarkedUntilLabelled
CHECK_DEADLOCK FALSE
