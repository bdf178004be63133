SPECIFICATION Spec
CONSTANTS
    Rows = {1}
    Endpoints = {w1}
    Filters <- MCFilters
    Instances = {i1, i2}
    BatchSize = 2
    PruneBatch = 1
    MaxUpdates = 1
PROPERTY
    PendingIsKept
CHECK_DEADLOCK FALSE
