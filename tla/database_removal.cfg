CONSTANTS
    a = a
    b = b
    g = g
    Workers = {k1}
    AccountNames = {a}
    GroupNames = {g}
    Events <- FixedAndMovable
    Registered <- OneAccount
    Founded <- OneGroup
    MayFail = FALSE
    MaxCalls = 3
SPECIFICATION Spec
PROPERTIES RemovalIsAllOrNothing
CHECK_DEADLOCK FALSE
