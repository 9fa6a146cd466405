SPECIFICATION FairSpec
CONSTANT MaxFields = 10
CHECK_DEADLOCK FALSE
INVARIANTS TypeOK ReadsWithinFields ChecksComeFirst HandlersReleaseRun SlotFollowsTheChain
PROPERTY ImplementsLineOutcome
