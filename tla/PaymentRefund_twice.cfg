SPECIFICATION Spec
CONSTANTS
    a1 = a1
    a2 = a2
    Admins <- OneAdmin
    Amount = 1
    MinBalance <- Overdraft
    MaxBalance = 2
    MaxLost = 1
INVARIANTS
    NeverTakenTwice
CHECK_DEADLOCK FALSE
