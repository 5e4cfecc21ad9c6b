SPECIFICATION TransactionsSpec
SYMMETRY Symmetry
CONSTANTS
    r1 = r1
    j1 = j1
    j2 = j2
    Grants = {1, 2}
    Requests = {r1}
    Jobs = {j1, j2}
    Cost <- CostOf
    HoldAmount <- HoldOf
    ExchangeAmounts = {1}
    Threshold = 2
    ExchangeRate = 2
    ConversionRatio = 1
    UnusedRatio = 1
    TemporaryRatio = 1
    PermanentRatio = 2
    GraceDays = 1
    Amounts = {2}
    MaxIncome = 4
    MaxDay = 2
    Transactions = {t1, t2, t3, t4}
    OrderPurchases = {o1, o2, o3, o4}
    MallPurchases = {}
    Rolling = TRUE
    PeriodLimit = 2
    TotalLimit = 3
    PeriodLength = 5
    MaxTime = 6
    MaxSkew = 1
INVARIANTS FrozenIsHeld CreditAddsUp BalanceIsBooked DebtIsOwed
INVARIANTS CirclesOutOfOrder RollingLimitButOvertaken
PROPERTIES PermanentLast MovesInWindow KeepsHoldPromise
CHECK_DEADLOCK FALSE
