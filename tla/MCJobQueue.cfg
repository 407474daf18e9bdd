SPECIFICATION Spec
CONSTANTS
    k1 = k1
    k2 = k2
    k3 = k3
    Keys <- ThreeKeys
    MaxJobs = 3
    MaxFrames = 1
    HistoryLimit = 2
INVARIANTS SerialDrain NoDuplicateWork CancelHitsItsTarget
PROPERTIES  AcceptedJobEnds ImplementsSerialQueue
CHECK_DEADLOCK FALSE
