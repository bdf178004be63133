SPECIFICATION MonitorsSpec
CONSTANTS
    d1 = d1
    d2 = d2
    d3 = d3
    q1 = q1
    q2 = q2
    q3 = q3
    q4 = q4
    q5 = q5
    q6 = q6
    q7 = q7
    b1 = b1
    b2 = b2
    b3 = b3
    b4 = b4
    m1 = m1
    NoItemKey = NoItemKey
    NoExternal = NoExternal
    NoTxn = NoTxn
    Purses = {1, 2, 3, 4}
    MayOverdraw = {2, 4}
    Items = {d1, d2, d3, q1, q2, q3, q4, q5, q6, q7}
    ItemOf <- MCItemOf
    Groups = {b1, b2, b3, b4}
    GroupOf <- MCGroupOf
    ItemKeys = {"k1", "k2", "k3", "k4", "k5", "k6", "k7"}
    Externals = {"e"}
    Slots = 1
    GroupAttempts = 2
    Alarms = {m1}
    AlarmOf <- MCAlarmOf
INVARIANT
    QuietOnesAreTold
CHECK_DEADLOCK FALSE
