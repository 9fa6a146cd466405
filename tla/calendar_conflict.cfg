CONSTANTS
    Members <- TwoMembers
    Events <- SomeEvents
    Clocks <- OneClock
    Deadlines <- SomeDeadlines
    Lengths = {60, 150}
    Garbage = {0, 720}
    MaxEvents = 2
SPECIFICATION Spec
INVARIANTS GroupTimesWorkForEveryone
CHECK_DEADLOCK FALSE
