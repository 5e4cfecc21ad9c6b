SPECIFICATION FairLiveSpec
CONSTANTS
    Creator = creator
    Proxies = {p1, p2}
    Nobody = Nobody
    RetryLimit = 2
    FaultKinds = {"store", "answer", "death"}
    MaxFaults = 2
INVARIANTS AccountedOnce LeaseOutlivesControl SomeoneInCharge
PROPERTY EveryCallAccounted
CHECK_DEADLOCK FALSE
