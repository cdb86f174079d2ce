SPECIFICATION Spec
CONSTANTS
    Calls = {c1, c2}
    None = None
    ChanCap = 1
    NoticeCap = 1
    MaxNotices = 2
    MaxRaised = 2
    Methods = {"stream", "silent stream", "execute", "explain", "begin"}
SYMMETRY Symmetry
INVARIANTS
    QueueGuards
    RunRecords
    NoticesSettled
    NoticesInOrder
PROPERTIES
    ImplementsService
CHECK_DEADLOCK FALSE
