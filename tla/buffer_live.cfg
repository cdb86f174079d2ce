SPECIFICATION SelectSpec
CONSTANTS
    Tasks = {t1}
    None = None
    MaxRows = 2
    Keys = {k1}
    Waiters = {w1}
    Stoppers = {s1}
    InitialRows = 1
    ChunkRows = 1
    ReqCap = 1
    SerialLaunch = TRUE
PROPERTIES
    StopReturns
    WaitersAnswered
CHECK_DEADLOCK FALSE
