CONSTANTS
    a = a
    b = b
    g = g
    Workers = {k1, k2}
    AccountNames = {a, b}
    GroupNames = {g, b}
    Events <- FixedAndMovable
    Registered <- OneAccount
    Founded <- OneGroup
    MayFail = TRUE
    MaxCalls = 3
SPECIFICATION Spec
SYMMETRY WorkerSymmetry
INVARIANTS TypeOK AccountNamesUnique GroupNamesUnique RelationsOnce CalendarsApart
PROPERTIES ImplementsRegistry
CHECK_DEADLOCK FALSE
