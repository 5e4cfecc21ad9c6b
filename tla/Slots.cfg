SPECIFICATION SlotsSpec
CONSTANTS
    r1 = r1
    p1 = p1
    p2 = p2
    Requests = {r1, r2}
    Calls = {c1}
    Replicas = {p1, p2}
    Home <- TwoHomes
    Limit = 1
    QueueLimit = 1
    FaultKinds = {"store", "answer", "count", "death"}
    MaxFaults = 2
INVARIANTS WithinLimit HeldIsCounted QueueHonoured
CHECK_DEADLOCK FALSE
