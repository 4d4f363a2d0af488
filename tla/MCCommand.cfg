\* One command of every type and value, and every kind of other request.
SPECIFICATION FairSpec
CONSTANTS
    Bodies <- MCBodies
    None = None
    MaxCommands = 1
INVARIANTS
    WrittenAsStored
PROPERTIES
    OutcomeSpec
    ServletEnds
CHECK_DEADLOCK FALSE
