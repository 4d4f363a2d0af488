\* One operation, two slots of the worker that race for it, one failure.
SPECIFICATION Spec
CONSTANTS
    Op = {o1}
    NoOp = NoOp
    Task = {t1, t2}
    MAX_ATTEMPTS = 3
    MaxQueue = 2
    MaxSends = 5
    MaxCrashes = 1
SYMMETRY Symmetry
INVARIANTS
    TypeOK
    OutcomeJustified
    CounterNeverOvercounts
    QueuedHasAttemptsLeft
    StrandedOnlyByCrash
CHECK_DEADLOCK FALSE
