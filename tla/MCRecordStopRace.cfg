SPECIFICATION FairSpec
CONSTANTS
    RecordMax = 9
    MaxBufNum = 2
    MaxOperateQueue = 3
    CheckPeriod = 2
    ErrorLimit = 3
    Sizes = {1}
    MaxDay = 1
    MaxRecord = 1
    MaxSearch = 1
    MaxFault = 0
    MaxCrash = 0
    MaxInit = 1
CHECK_DEADLOCK FALSE
PROPERTIES StopLeadsToExit
