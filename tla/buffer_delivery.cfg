SPECIFICATION Spec
CONSTANTS
    Tasks = {t1}
    None = None
    MaxRows = 3
    Keys = {k1}
    Waiters = {w1, w2}
    Stoppers = {s1}
    InitialRows = 2
    ChunkRows = 1
    ReqCap = 1
    SerialLaunch = TRUE
SYMMETRY Symmetry
INVARIANTS
    SuccessMeansDelivered
    WaitersServed
    GridMatchesStream
CHECK_DEADLOCK FALSE
