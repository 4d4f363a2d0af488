\* Two requests at a time: the older event writes last.
SPECIFICATION Spec
CONSTANTS
    Handler = {h1, h2}
    Site = {s1}
    NoSite = NoSite
    MaxEvents = 3
    MaxFailures = 0
    MaxDrops = 0
    MaxAssigns = 1
INVARIANT
    NewestEventWins
CHECK_DEADLOCK FALSE
