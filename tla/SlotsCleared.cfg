SPECIFICATION FairSlotsSpec
CONSTANTS
    r1 = r1
    p1 = p1
    p2 = p2
    Requests = {r1}
    Calls = {c1}
    Replicas = {p1, p2}
    Home <- TwoHomes
    Limit = 1
    QueueLimit = 1
    FaultKinds = {"store", "answer", "count", "death"}
    MaxFaults = 3
PROPERTY NothingLeft
CHECK_DEADLOCK FALSE
