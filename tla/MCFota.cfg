\* Two requests and a task at a time, interleaved at every statement, and one failure.
SPECIFICATION FSpec
CONSTANTS
    Op = {o1, o2}
    NoOp = NoOp
    Task = {t1}
    MAX_ATTEMPTS = 1
    MaxQueue = 1
    MaxSends = 1
    MaxCrashes = 1
    Handler = {h1, h2}
    Firmware = {f1}
    ReportedState = {"DOWNLOADED"}
    ReportedResult = {"SUCCESS", "DEFAULT"}
    Serial = FALSE
    MaxUpdates = 1
    MaxReports = 2
SYMMETRY FSymmetry
INVARIANTS
    FinishedIsIdle
CHECK_DEADLOCK FALSE
