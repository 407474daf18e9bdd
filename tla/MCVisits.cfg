SPECIFICATION Spec
CONSTANTS
    Gap = 2
    Window = 3
    MinArea = 20
    MaxArea = 80
    Dusk = 5
    NULL = NULL
    MaxEvents = 2
    ScanFrames = 4
    MaxStatsPages = 2
    Residents = {"tom"}
    MinConf = 3
    FloorArea = 5
    FloorFrames = 2
    QueueScan = 3
    GalleryScore = 6
    PoorScore = 4
    Loads <- MCLoads
INVARIANTS CardsAgree FeedsAgree QueuesAgree
CHECK_DEADLOCK FALSE
