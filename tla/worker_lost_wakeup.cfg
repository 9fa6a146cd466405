SPECIFICATION Spec
CONSTANTS
    x1 = x1
    x2 = x2
    None = None
    Clients = {x1, x2}
    MayStop = FALSE
    MaxStale = 1
CHECK_DEADLOCK FALSE
INVARIANT AwaitedClientStillComes
