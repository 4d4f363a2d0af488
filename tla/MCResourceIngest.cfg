\* Requests of up to three nodes and two attempts, which overlap.
SPECIFICATION Spec
CONSTANTS
    Bodies <- MCBodies
    MaxAttempts = 2
INVARIANTS
    AcceptedComplete
    StoredIsPrefix
    EventsWhole
    ValuesKept
CHECK_DEADLOCK FALSE
