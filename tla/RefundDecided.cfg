SPECIFICATION FairRefundSpec
CONSTANTS
    Orders = {o1}
    SubscriptionOrders = {}
    RejectedOrders = {}
    Attempts = {a1, a2}
    Subscriptions = {s1}
    Workers = {w1, w2}
    NoOrder = NoOrder
    NoAttempt = NoAttempt
    NoRow = NoRow
    Amount = 2
    MaxTerms = 0
    MaxFaults = 1
    HastyOrders = {}
    IntentOrders = {o1}
INVARIANT BalanceAddsUp
PROPERTY RefundDecided
CHECK_DEADLOCK FALSE
