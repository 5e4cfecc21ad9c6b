SPECIFICATION OrderSpec
SYMMETRY Symmetry
CONSTANTS
    OrderPurchases = {o1}
    MallPurchases = {m1}
    Rolling = FALSE
    PeriodLimit = 1
    TotalLimit = 0
    PeriodLength = 1
    MaxTime = 1
    MaxSkew = 1
    Orders = {o1}
    SubscriptionOrders = {o1}
    Workers = {w1, w2}
    NoOrder = NoOrder
    MaxPending = 1
    MaxFaults = 2
INVARIANT DeliveredOnce
INVARIANT RejectedNeverDelivered
INVARIANT SlotMatchesStatus
INVARIANT WithinLimits
PROPERTY LimitSpec
CHECK_DEADLOCK FALSE
