SPECIFICATION FairSpec
CONSTANTS
    x1 = x1
    x2 = x2
    None = None
    Clients = {x1, x2}
    MayStop = TRUE
    MaxStale = 1
CHECK_DEADLOCK FALSE
INVARIANTS TypeOK ConnectedClientOwnsTimer AnsweredOnce
PROPERTIES ConnectedClientReleases LoneClientTimesOut
