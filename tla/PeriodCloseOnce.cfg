SPECIFICATION PeriodSpec
CONSTANTS
    p1 = p1
    c1 = c1
    c2 = c2
    c3 = c3
    Posters = {p1}
    Closers = {c1}
PROPERTY
    NothingLandsOnceResponded
CHECK_DEADLOCK FALSE
