SPECIFICATION Spec
CONSTANTS
    b1 = b1
    i0 = i0
    i1 = i1
    i2 = i2
    s1 = s1
    c1 = c1
    Requests <- MCRequests
    NoRequest = NoRequest
    KeyOf <- MCKeyOf
    BodyOf <- MCBodyOf
    Bulks = {b1}
    NoBulk = NoBulk
    Total <- MCTotal
    ItemOf <- MCItemOf
    Instances = {w1, w2}
    Chunk = 2
    Scheduled = {s1}
    Sweepers = {w1, w2}
    SweepBatch = 2
    Direct = {c1}
INVARIANTS
    ReportIsTrue
PROPERTIES
    StatusIsFinal
    EveryJobEnds
CHECK_DEADLOCK FALSE
