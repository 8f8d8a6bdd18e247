SPECIFICATION Spec
CONSTANTS
    p1 = p1
    p2 = p2
    Procs <- TwoProcs
    Kinds <- AllKinds
    FaultsCease = FALSE
SYMMETRY Symmetry
INVARIANTS
    TypeOK
    ExactlyOnce
    NoCreditWithoutPayment
    CompletedMeansCredited
    AckMeansSettled
PROPERTIES
    PaidIsNeverUndone
    ImplementsLedger
CHECK_DEADLOCK FALSE
