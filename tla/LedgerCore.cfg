SPECIFICATION Spec
CONSTANTS
    cash = cash
    user = user
    other = other
    Accounts <- MCAccounts
    Keys = {k1, k2, k3}
    HoldKeys = {h1, h2}
    NoKey = NoKey
    EntryInputs <- MCEntryInputs
    HoldAmounts = {1, 2}
    LedgerOf <- MCLedgerOf
    CurrencyOf <- MCCurrencyOf
    NormalSide <- MCNormalSide
    AllowNegative <- MCAllowNegative
    OverdraftLimit <- MCOverdraftLimit
    MaxAmount = 3
INVARIANTS
    LedgerVerifies
    AccountsAreSound
    LinksAreTrue
    PendingReleasable
PROPERTIES
    ResolvedIsFinal
    NotOpenOnlyDrains
CHECK_DEADLOCK FALSE
SYMMETRY Symmetry
