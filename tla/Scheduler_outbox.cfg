SPECIFICATION Spec
CONSTANTS
    p1 = p1
    p2 = p2
    f1 = f1
    q1 = q1
    Nil = Nil
    Workers <- AllWorkers
    Pollers <- TwoPollers
    Rebuilders <- Rebuilder
    Requests <- Request
    Crews <- Pairs
    MaxChanges <- Bounds
    MaxFaults = 1
INVARIANTS
    QuietMeansFresh
    RetiredIsGone
PROPERTIES
    SnapshotConverges
CHECK_DEADLOCK FALSE
