SPECIFICATION KernelSpec
CONSTANTS
    c1 = c1
    c2 = c2
    c3 = c3
    r1 = r1
    r2 = r2
    r3 = r3
    Calls = {c1, c2, c3}
    NoCall = NoCall
    KeyOf <- MCKeyOf
    HashOf <- MCHashOf
    NoHash = "none"
    Secret = {c1, c2}
    MaxFaults = 3
    Hooks = {d1}
    Senders = {i1, i2}
    BatchSize = 1
    MaxAttempts = 3
    MaxLosses = 2
    MaxRequests = 1
    MaxToggles = 2
    Rate = 1
    Burst = 1
    TicksPerSecond = 3
    Visits = {v1, v2, v3, v4}
    Anonymous = {v4}
    MaxTicks = 5
    Starters = {r1, r2, r3}
    ReleaseOf <- MCReleaseOf
    Legacy = {1}
    NoChecksum = "none"
    MaxStops = 2
INVARIANTS
    RunsAlone
    AnswersAgree
    OutcomesEarned
    AdmitsWithinRate
    MigratedOnce
PROPERTIES
    Implements
    RetryAfterSuffices
    CallsAreAnswered
    DeliveriesSettle
CHECK_DEADLOCK FALSE
