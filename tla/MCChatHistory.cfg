CONSTANTS
    Fixture = {f1}
    Worker = {w1, w2}
    ThreadLimit = 3
    DayLimit = 3
    Kickoff = 3
    Day = 3
    IN_FLIGHT = 2
    MaxTime = 2
SPECIFICATION Spec
CHECK_DEADLOCK FALSE
INVARIANTS
    HistoryPairsMatch
