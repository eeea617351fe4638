CONSTANTS
    Bad = Bad
    s1 = s1
    s2 = s2
    MaxI64 = 19
    MaxU64 = 40
    Hundred = 10
    Streams = {s1, s2}
    Sockets = 1
    Capacity = 2
    Analyses <- MCAnalyses
    Attempts = 3
    MaxEvents = 4
    MaxNoise = 1
    Quotes = {1, 2, 3, 4}
    Observed = 2
    OwnerOf <- MCOwnerOf
    Requests <- MCRequests
    Nobody = Nobody
    MaxLimit = 2
    MaxClock = 2

SPECIFICATION ReadsSpec

SYMMETRY MCSymmetry

INVARIANTS
    CaughtUpStreamsAreCurrent
    OrderWithinRun
    MessagesAgree
    UnreadableNeedsCause
    ReceiversConverge
    WalkComplete

\* A run may end with its replica, and clients may stay away.
CHECK_DEADLOCK FALSE
