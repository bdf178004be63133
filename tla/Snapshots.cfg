SPECIFICATION SnapshotsSpec
CONSTANTS
    Rows = {1, 2, 3}
    Sealers = {s1, s2}
    SweepBatch = 2
    MaxCrashes = 1
    Posters = {p1}
    Closers = {c1, c2, c3}
INVARIANTS
    SealedIsPrefix
    ChainIsTrusted
PROPERTIES
    EverySealed
    NothingLandsOnceRepeated
    WaitEnds
CHECK_DEADLOCK FALSE
