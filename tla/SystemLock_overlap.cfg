SPECIFICATION Spec
CONSTANTS
    update = update
    rollback = rollback
    restart = restart
    Fingerprints <- TwoOps
    Lease = 2
    TTL = 3
    Backoff = 1
    MaxTime = 5
INVARIANT
    OneOperationAtATime
CHECK_DEADLOCK FALSE
