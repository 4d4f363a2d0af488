\* Three requests, room for one retry, three attempts each.
SPECIFICATION FairSpec
CONSTANTS
    Request = {r1, r2, r3}
    ATTEMPTS = 3
    MAX_PENDING_RETRIES = 1
INVARIANTS
    CountExact
    KeptBounded
PROPERTIES
    Implements
    Ends
CHECK_DEADLOCK FALSE
