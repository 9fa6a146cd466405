SPECIFICATION Spec
CONSTANTS
    c1 = c1
    c2 = c2
    w1 = w1
    w2 = w2
    Clients = {c1, c2}
    Workers = {w1, w2}
    Port <- DistinctPorts
    MaxRequests = 1
    MayStop = FALSE
    Blank = Blank
CHECK_DEADLOCK FALSE
INVARIANTS
    QueuedSocketsLive
    WorkerServesOneClient
PROPERTY ImplementsPairingService
SYMMETRY Symmetry
CONSTRAINT FewLeave
