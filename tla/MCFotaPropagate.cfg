\* A failed operation leaves its update active: a request and a task overlap.
SPECIFICATION FSpec
CONSTANTS
    Op = {o1, o2, o3}
    NoOp = NoOp
    Task = {t1}
    MAX_ATTEMPTS = 1
    MaxQueue = 1
    MaxSends = 2
    MaxCrashes = 0
    Handler = {h1}
    Firmware = {f1}
    ReportedState = {"DOWNLOADING", "DOWNLOADED"}
    ReportedResult = {"SUCCESS", "OTHER"}
    Serial = FALSE
    MaxUpdates = 1
    MaxReports = 2
SYMMETRY FSymmetry
INVARIANT
    FailurePropagated
CHECK_DEADLOCK FALSE
