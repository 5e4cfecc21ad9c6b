SPECIFICATION FairOrderSpec
CONSTANTS
    OrderPurchases = {}
    MallPurchases = {}
    Rolling = FALSE
    PeriodLimit = 0
    TotalLimit = 0
    PeriodLength = 1
    MaxTime = 0
    MaxSkew = 1
    Orders = {o1}
    SubscriptionOrders = {}
    Workers = {w1, w2}
    NoOrder = NoOrder
    MaxPending = 1
    MaxFaults = 1
PROPERTY KeepsPromise
PROPERTY DueOrdersClose
PROPERTY PaidIsDelivered
CHECK_DEADLOCK FALSE
