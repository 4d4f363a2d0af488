\* One slot, two operations, no failures: every QUEUED operation settles.
SPECIFICATION FairSpec
CONSTANTS
    Op = {o1, o2}
    NoOp = NoOp
    Task = {t1}
    MAX_ATTEMPTS = 2
    MaxQueue = 1
    MaxSends = 6
    MaxCrashes = 0
PROPERTIES
    QueuedSettles
CHECK_DEADLOCK FALSE
