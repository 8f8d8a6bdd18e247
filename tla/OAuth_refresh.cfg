SPECIFICATION Spec
CONSTANTS
    f1 = f1
    q1 = q1
    i1 = i1
    i2 = i2
    Nil = Nil
    Instances <- TwoInstances
    Refreshers <- OneRefresher
    Requests <- OneRequest
    Deployments <- Apart
    MaxGrant = 1
    MaxUse = 1
    MaxFaults = 1
INVARIANTS
    TypeOK
    OneRefreshAtATime
    
    NeverOlderThanGiven
PROPERTIES
    AuthorisationStands
    DueIsRefreshed
CHECK_DEADLOCK FALSE
