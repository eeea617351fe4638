CONSTANTS
    o1 = o1
    o2 = o2
    c1 = c1
    c2 = c2
    Owners = {o1, o2}
    Callers = {c1, c2}
    MaxInits = 3
    ReadersWait = TRUE

SPECIFICATION FairSpec

INVARIANTS
    NoEmissionOnClosed
    LiveOwnersKeepLogger

PROPERTIES
    CallsReturn
