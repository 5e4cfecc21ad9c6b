SPECIFICATION RefundSpec
CONSTANTS
    Orders = {o1, o2}
    SubscriptionOrders = {o1}
    RejectedOrders = {o2}
    Attempts = {a1, a2}
    Subscriptions = {s1, s2}
    Workers = {w1, w2}
    NoOrder = NoOrder
    NoAttempt = NoAttempt
    NoRow = NoRow
    Amount = 1
    MaxTerms = 2
    MaxFaults = 1
    HastyOrders = {o1}
    IntentOrders = {o2}
SYMMETRY RefundSymmetry
INVARIANT HoldFollowsOrder
INVARIANT RefundedOnce
PROPERTY KeepsRefundPromise
CHECK_DEADLOCK FALSE
