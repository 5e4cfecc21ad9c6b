SPECIFICATION TableSpec
SYMMETRY Symmetry
CONSTRAINT FewRequests
CONSTANTS
    a1 = a1
    a2 = a2
    a3 = a3
    b1 = b1
    b2 = b2
    p1 = p1
    p2 = p2
    p3 = p3
    MaxRequests = 3
    Attempts = {a1, a2, a3, b1}
    OtherPayload = {b1}
    NoAttempt = NoAttempt
    ProcessingTimeout = 3
    TTL = 3
    RetryBackoff = 1
    LastStart = 3
    MaxTime = 3
    Operations = {p1, p2}
    NoOperation = NoOperation
    SystemOperationTTL = 3
    RenewInterval = 1
    MaxErrors = 1
INVARIANT ReplaySameRequest
PROPERTIES KeepsOncePerKey ClaimIsHonoured RenewedLockHolds
CHECK_DEADLOCK FALSE
