SPECIFICATION Spec
CONSTANTS
    a1 = a1
    a2 = a2
    Admins <- TwoAdmins
    Amount = 2
    MinBalance <- Overdraft
    MaxBalance = 3
    MaxLost = 1
SYMMETRY Symmetry
INVARIANTS
    TypeOK
    SingleFlight
    AttemptsTakeOnce
    MissingMoneyIsAudited
PROPERTIES
    RefundNeverOverdraws
CHECK_DEADLOCK FALSE
