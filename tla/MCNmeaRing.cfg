SPECIFICATION FairSpec
CONSTANTS
    BufLen = 11
    HeadLen = 3
    PartLen = 4
    PacketLen = 5
    Lag = 8
    Layouts <- MCLayouts
INVARIANTS
    PartIsHeader
    InOrder
    SeenComesOut
PROPERTIES
    CatchesUp
CHECK_DEADLOCK FALSE
