SPECIFICATION Spec
CONSTANTS
    Calls = {c1, c2}
    None = None
    ChanCap = 1
    NoticeCap = 1
    MaxNotices = 0
    MaxRaised = 0
    Methods = {"stream"}
SYMMETRY Symmetry
INVARIANTS
    NoConcurrentUsePanic
CHECK_DEADLOCK FALSE
