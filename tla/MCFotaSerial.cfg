\* Requests and tasks one after the other: what the design promises.
SPECIFICATION FSpec
CONSTANTS
    Op = {o1, o2, o3}
    NoOp = NoOp
    Task = {t1}
    MAX_ATTEMPTS = 1
    MaxQueue = 1
    MaxSends = 1
    MaxCrashes = 0
    Handler = {h1}
    Firmware = {f1, f2}
    ReportedState = {"DOWNLOADED", "UPDATING"}
    ReportedResult = {"SUCCESS"}
    Serial = TRUE
    MaxUpdates = 2
    MaxReports = 3
SYMMETRY FSymmetry
INVARIANTS
    FTypeOK
    FailurePropagated
    OwnerUnique
    ExactlyOneRemains
PROPERTIES
    LifeCycle
    NewestSurvives
CHECK_DEADLOCK FALSE
