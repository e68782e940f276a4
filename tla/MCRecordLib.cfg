SPECIFICATION Spec
CONSTANTS
    RecordMax = 4
    MaxBufNum = 2
    MaxOperateQueue = 3
    CheckPeriod = 2
    ErrorLimit = 2
    Sizes = {2}
    MaxDay = 3
    MaxRecord = 3
    MaxSearch = 0
    MaxFault = 1
    MaxCrash = 1
    MaxInit = 1
CHECK_DEADLOCK FALSE
INVARIANTS LockMatchesPlace TodayPhotosIntact IndexedPhotoIsOwn SavedOnceInOrder NothingLost
PROPERTY FilesOnlyGrow
