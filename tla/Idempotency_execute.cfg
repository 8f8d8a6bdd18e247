SPECIFICATION Spec
CONSTANTS
    r1 = r1
    r2 = r2
    Requests <- TwoRequests
    Fingerprints <- TwoPayloads
    Lease = 2
    TTL = 3
    Backoff = 1
    MaxTime = 5
SYMMETRY Symmetry
INVARIANTS
    TypeOK
    SingleSideEffect
    ReplayIsOwn
    RenewedRunsAlone
CHECK_DEADLOCK FALSE
