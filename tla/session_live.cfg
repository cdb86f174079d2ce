SPECIFICATION LiveSpec
CONSTANTS
    Calls = {c1, c2}
    None = None
    ChanCap = 1
    NoticeCap = 1
    MaxNotices = 1
    MaxRaised = 1
    Methods = {"stream", "explain"}
PROPERTIES
    CloseReturns
    FinishCompletes
    AdmittedSettles
CHECK_DEADLOCK FALSE
