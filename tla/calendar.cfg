CONSTANTS
    Members <- TwoMembers
    Events <- SomeEvents
    Clocks <- SomeClocks
    Deadlines <- SomeDeadlines
    Lengths = {60, 150}
    Garbage = {0, 720}
    MaxEvents = 2
SPECIFICATION Spec
INVARIANTS TypeOK GroupTimesClear AnswerIsAhead
PROPERTIES ProposalsFit
CHECK_DEADLOCK FALSE
