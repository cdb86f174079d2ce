SPECIFICATION BackSpec
CONSTANTS
    Nil = Nil
    MaxActions = 2
    MaxSessions = 2
    MaxEvents = 1
    TabsFull = TRUE
    Kinds = {"run", "batch", "bound", "explain", "sync"}
    Conns = {1, 2, 3}
    Loads = {1, 2}
    QueueCap = 1
    Profiles = {"A", "B"}
    MaxSteps = 1
    StTickets = {1, 2}
    StSavers = {s1}
    StClosers = {1, 2}
    HyEntries = {1, 2, 3, 4}
    HyAppends = {a1}
    HyCap = 1
    HyBatch = 2
    WmTables = {"t"}
    WmWarms = {1, 2}
    WmEagers = {e1}
    WmInvals = {i1}
    WmConns = {1, 2}
    MxCands = {1, 2}
    MxTunnel = TRUE
    MxOps = 2
    TxHandles = {1, 2}
    TxNames = {"a"}
    TxMaxSp = 2
    TxSteps = 6
INVARIANTS
    RunsAnswered
    CancelsHitTheirRun
    ConnectionsOwned
    StoreKeepsPromises
    RecordsKept
    MachineTruth
    OneHandleEnds
CHECK_DEADLOCK FALSE
