SPECIFICATION FairSpec
CONSTANTS
    RecordMax = 3
    MaxBufNum = 1
    MaxOperateQueue = 3
    CheckPeriod = 2
    ErrorLimit = 2
    Sizes = {1}
    MaxDay = 2
    MaxRecord = 2
    MaxSearch = 0
    MaxFault = 2
    MaxCrash = 0
    MaxInit = 2
CHECK_DEADLOCK FALSE
PROPERTY StallEnds
