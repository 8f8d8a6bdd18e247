SPECIFICATION Spec
CONSTANTS
    update = update
    rollback = rollback
    restart = restart
    Fingerprints <- ThreeOps
    Lease = 2
    TTL = 3
    Backoff = 1
    MaxTime = 5
SYMMETRY Symmetry
PROPERTY
    CreatorKeepsOthersOut
CHECK_DEADLOCK FALSE
