SPECIFICATION FairSpec
CONSTANTS
    p1 = p1
    p2 = p2
    Procs <- TwoProcs
    Kinds <- CallbackKinds
    FaultsCease = TRUE
PROPERTIES
    PaidOrderCompletes
CHECK_DEADLOCK FALSE
