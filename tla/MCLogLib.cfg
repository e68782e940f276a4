SPECIFICATION FairSpec
CONSTANTS
    N = 3
    Time <- MCTime
    UserNos = {1}
    DayLen = 3
    Nodes <- MCNodes
    ErrorLimit = 2
    Ranges <- MCRanges
    PageSizes = {1}
    MaxDelete = 1
    MaxSearch = 1
    MaxFault = 2
CHECK_DEADLOCK FALSE
INVARIANTS SavedIsKept SearchComplete SearchSound DeletedIsGone
PROPERTIES EntriesStay SearchEnds
