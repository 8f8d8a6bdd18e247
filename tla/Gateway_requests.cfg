SPECIFICATION Spec
CONSTANTS
    u1 = u1
    u2 = u2
    i1 = i1
    i2 = i2
    Nil = Nil
    Usages <- TwoUsages
    Holders = {}
    Cost <- TwoAndOne
    Hold = 1
    StartBalance = 2
    OtherHolds = 0
    Limits = {1, 2}
    MaxWait = 1
    Instances <- TwoInstances
    Host <- Hosts
    Estimates <- Guesses
    MaxFaults = 1
INVARIANTS
    TypeOK
    ChargedOnce
    ReservedUntilDeducted
    SlotLimit
PROPERTIES
    NothingLeaks
CHECK_DEADLOCK FALSE
