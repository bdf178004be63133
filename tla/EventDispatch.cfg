SPECIFICATION Spec
CONSTANTS
    Rows = {1, 2}
    Endpoints = {w1, w2}
    Filters <- MCFilters
    Instances = {i1, i2}
    BatchSize = 2
    PruneBatch = 1
    MaxUpdates = 1
INVARIANTS
    NoneMissed
    DeliveriesBacked
PROPERTIES
    EveryDispatched
CHECK_DEADLOCK FALSE
