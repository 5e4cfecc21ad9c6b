SPECIFICATION FairBatchSpec
CONSTANTS
    Requests = {r1}
    Workers = {w1, w2}
    Nobody = Nobody
    MaxRetries = 2
    MaxFaults = 2
INVARIANT ChargeMatchesJob
INVARIANT UnpaidRunIsCancelled
PROPERTY EveryHoldEnds
CHECK_DEADLOCK FALSE
