SPECIFICATION Spec
CONSTANTS
    RecordMax = 4
    MaxBufNum = 2
    MaxOperateQueue = 3
    CheckPeriod = 2
    ErrorLimit = 3
    Sizes = {1}
    MaxDay = 3
    MaxRecord = 3
    MaxSearch = 0
    MaxFault = 0
    MaxCrash = 1
    MaxInit = 1
CHECK_DEADLOCK FALSE
INVARIANT NoForeignPhoto
