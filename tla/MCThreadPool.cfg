SPECIFICATION FairSpec
CONSTANTS
    Workers = {w1, w2}
    Tasks = {t1, t2, t3}
    NIL = NIL
    MaxStartFail = 1
    MaxCreate = 2
INVARIANTS
    NodesAccounted
PROPERTIES
    PoolSpec
    QueuedIsStarted
    DestroyReturns
CHECK_DEADLOCK FALSE
