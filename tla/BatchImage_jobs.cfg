SPECIFICATION Spec
CONSTANTS
    b1 = b1
    w1 = w1
    w2 = w2
    Nil = Nil
    Batches <- OneBatch
    Workers <- TwoWorkers
    Usages = {}
    Cost <- NoCost
    Holders <- OneBatch
    Hold = 2
    StartBalance = 2
    OtherHolds = 2
    Costs = {1, 3}
    MaxRetries = 2
    MaxFaults = 2
    HeartbeatCost = 2
INVARIANTS
    TypeOK
    MovedOnce
    OwnMoneyOnly
    SettledOneWay
    NeverLost
    OneWorkerPerJob
    EndedJobIsReturned
PROPERTIES
    QueuedHoldIsSettled
CHECK_DEADLOCK FALSE
