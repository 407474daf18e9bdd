SPECIFICATION Spec
CONSTANTS
    Requests <- AllKinds
    MaxJobs = 3
    MaxFrame = 3
    Page = 2
    Batch = 2
    Keep = 1
    MaxFaults = 1
INVARIANTS RegistryHonest CanceledLeavesNothing PassCovers
CHECK_DEADLOCK FALSE
