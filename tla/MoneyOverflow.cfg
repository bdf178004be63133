SPECIFICATION MoneySpec
CONSTANTS
    WordBits = 4
    Radix = 3
    HalfDigits = 2
INVARIANT
    OverflowIsRefused
CHECK_DEADLOCK FALSE
