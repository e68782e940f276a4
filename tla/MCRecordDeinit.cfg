SPECIFICATION FairSpec
CONSTANTS
    RecordMax = 9
    MaxBufNum = 2
    MaxOperateQueue = 3
    CheckPeriod = 2
    ErrorLimit = 3
    Sizes = {1}
    MaxDay = 2
    MaxRecord = 2
    MaxSearch = 1
    MaxFault = 0
    MaxCrash = 0
    MaxInit = 1
CHECK_DEADLOCK FALSE
INVARIANTS DeinitSavesAccepted SearchFindsSaved
PROPERTIES QueuedIsSaved StopWithoutSearch
