SPECIFICATION Spec
CONSTANTS
    r1 = r1
    r2 = r2
    r3 = r3
    r4 = r4
    w1 = w1
    w2 = w2
    Requests = {r1, r3}
    NoRequest = NoRequest
    KeyOf <- MCKeyOf
    BodyOf <- MCBodyOf
    AccountsOf <- MCAccountsOf
    Workers = {w1, w2}
    QueueSize = 1
    MaxBatch = 2
    MaxAttempts = 2

PROPERTIES
    NothingHangs
    QueuedIsServed
CHECK_DEADLOCK FALSE
