SPECIFICATION FairSpec
CONSTANTS
    s1 = s1
    s2 = s2
    a1 = a1
    a2 = a2
    NIL = NIL
    Ifs = {"ra0", "wlan0"}
    IfType <- MCIfType
    Servers = {s1, s2}
    Pool <- MCPool
    Omits = {s2}
    Lease = 5
    Timeout = 2
INVARIANTS
    AddressGranted
    LeaseLag
    SavedIsInUse
    SuccessMeansGranted
PROPERTY
    PerformEnds
