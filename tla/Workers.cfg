SPECIFICATION MCSpec
CONSTANTS
    Workers = {x1, x2}
    Types = {}
    Schedules = {retried, daily}
    retried = retried
    daily = daily
    Tries = 1
    TypeCount = 1
    MaxTime = 1
    Nobody = Nobody
    DayLength = 2
    MaxCost = 2
    DailyLimit = 3
    Interval <- MCInterval
    MaxTries <- MCMaxTries
SYMMETRY Symmetry
INVARIANTS
    TestsPaidOnce
PROPERTIES
    ResultsAreFinal
CHECK_DEADLOCK FALSE
