SPECIFICATION FairSpec
CONSTANTS
    c1 = c1
    c2 = c2
    w1 = w1
    w2 = w2
    Clients = {c1, c2}
    Workers = {w1}
    Port <- EqualPorts
    MaxRequests = 1
    MayStop = TRUE
    Blank = Blank
CHECK_DEADLOCK FALSE
INVARIANTS
    TypeOK
    AcquireNeverBlocks
    WorkerToldFirst
PROPERTIES
    PairsUnlessDeadlocked
    TakenClientAnswered
