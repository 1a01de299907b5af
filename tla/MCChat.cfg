CONSTANTS
    Fixture = {f1, f2}
    Worker = {w1, w2}
    ThreadLimit = 2
    DayLimit = 2
    Kickoff = 2
    Day = 2
    IN_FLIGHT = 1
    MaxTime = 2
SPECIFICATION Spec
CHECK_DEADLOCK FALSE
SYMMETRY Symmetry
INVARIANTS
    TypeOK
    ThreadLimitHolds
    DayLimitNearlyHolds
    AnswersFollowQuestions
