SPECIFICATION Spec
CONSTANTS
    p1 = p1
    p2 = p2
    c1 = c1
    c2 = c2
    c3 = c3
    c4 = c4
    s1 = s1
    s2 = s2
    g1 = g1
    g2 = g2
    g3 = g3
    x1 = x1
    w1 = w1
    w2 = w2
    e1 = e1
    e2 = e2
    k1 = k1
    k2 = k2
    i1 = i1
    i2 = i2
    h1 = h1
    h2 = h2
    NoAnswer = NoAnswer
    NoCategory = NoCategory
    NoKey = NoKey
    Txns = {p1, p2, c1, c2, c3, c4}
    Posts = {p1, p2}
    Touches <- MCTouches
    AmountOf <- MCAmountOf
    EffectiveOf <- MCEffectiveOf
    Settles = {c1, c2, c3, c4}
    SettleOf <- MCSettleOf
    Times = {1, 2}
    MaxAttempts = 2
    Statements = {s1, s2}
    StatementOf <- MCStatementOf
    Categories = {g1, g2, g3, x1}
    Wallets = {w1, w2}
    LedgerOf <- MCLedgerOf
    CurrencyOf <- MCCurrencyOf
    BalanceOf <- MCBalanceOf
    Editors = {e1, e2}
    MaxDepth = 2
    MaxChanges = 3
    ApiKeys = {k1, k2}
    RoleOf <- MCRoleOf
    ExpiryOf <- MCExpiryOf
    Instances = {i1, i2}
    Handlers = {h1, h2}
    InstanceOf <- MCInstanceOf
    CacheTTL = 1
    MaxTime = 2
    fa = fa
    fb = fb
    tx = tx
    ty = ty
    d1 = d1
    d2 = d2
    d3 = d3
    q1 = q1
    q2 = q2
    q3 = q3
    q4 = q4
    q5 = q5
    q6 = q6
    q7 = q7
    b1 = b1
    b2 = b2
    b3 = b3
    b4 = b4
    m1 = m1
    NoItemKey = NoItemKey
    NoExternal = NoExternal
    NoTxn = NoTxn
    Purses = {1, 2, 3, 4}
    MayOverdraw = {2, 4}
    Items = {d1, d2, d3, q1, q2, q3, q4, q5, q6, q7}
    ItemOf <- MCItemOf
    Groups = {b1, b2, b3, b4}
    GroupOf <- MCGroupOf
    ItemKeys = {"k1", "k2", "k3", "k4", "k5", "k6", "k7"}
    Externals = {"e"}
    Slots = 1
    GroupAttempts = 2
    Alarms = {m1}
    AlarmOf <- MCAlarmOf
    Fields = {fa, fb}
    Scalars = {tx, ty}
    Absent = Absent
    Null = Null
    Patchers = {u1, u2}
    Patches <- MCPatches
    MaxMembers = 2
    MaxTries = 2
    WordBits = 4
    Radix = 3
    HalfDigits = 2
INVARIANTS
    SettledNetsToZero
    KeySettlesOnce
    StatementsStayTrue
    GraphIsSound
    RollUpCountsOnce
    RevokedIsRefused
    NoUpdateLost
    AmountsAreExact
PROPERTIES
    LastAdminStays
    BatchIsSerial
    AlertsAreCrossings
CHECK_DEADLOCK FALSE
SYMMETRY MCSymmetry
