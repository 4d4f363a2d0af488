\* One request at a time, repeated, late and failing half-way.
SPECIFICATION FairSpec
CONSTANTS
    Handler = {h1}
    Site = {s1}
    NoSite = NoSite
    MaxEvents = 4
    MaxFailures = 1
    MaxDrops = 1
    MaxAssigns = 1
INVARIANTS
    TypeOK
    NewestEventWins
    NewestIsRead
    AssignmentKept
PROPERTY
    Converges
CHECK_DEADLOCK FALSE
