SPECIFICATION Spec
CONSTANTS
    r1 = r1
    r2 = r2
    r3 = r3
    r4 = r4
    Requests = {r1, r2, r4}
    NoRequest = NoRequest
    KeyOf <- MCKeyOf
    BodyOf <- MCBodyOf
    AccountsOf <- MCAccountsOf
    w1 = w1
    w2 = w2
    Workers = {w1, w2}
    QueueSize = 1
    MaxBatch = 2
    MaxAttempts = 2
PROPERTY
    Implements
SYMMETRY WorkerSymmetry
CHECK_DEADLOCK FALSE
