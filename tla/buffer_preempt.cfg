SPECIFICATION LiveSpec
CONSTANTS
    Tasks = {t1, t2}
    None = None
    MaxRows = 1
    Keys = {k1, k2}
    Waiters = {w1}
    Stoppers = {}
    InitialRows = 1
    ChunkRows = 1
    ReqCap = 0
    SerialLaunch = TRUE
INVARIANTS
    OneCurrentWorker
PROPERTIES
    LaunchReturns
CHECK_DEADLOCK FALSE
