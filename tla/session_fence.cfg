SPECIFICATION FairSpec
CONSTANTS
    Calls = {c1, c2}
    None = None
    ChanCap = 1
    NoticeCap = 1
    MaxNotices = 0
    MaxRaised = 0
    Methods = {"stream"}
PROPERTIES
    FenceLifts
CHECK_DEADLOCK FALSE
