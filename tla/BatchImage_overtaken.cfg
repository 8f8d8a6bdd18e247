SPECIFICATION Spec
CONSTANTS
    b1 = b1
    w1 = w1
    w2 = w2
    Nil = Nil
    Batches <- OneBatch
    Workers <- TwoWorkers
    Usages = {}
    Cost <- NoCost
    Holders <- OneBatch
    Hold = 2
    StartBalance = 2
    OtherHolds = 2
    Costs = {1, 3}
    MaxRetries = 2
    MaxFaults = 1
    HeartbeatCost = 1
PROPERTIES
    SettlingIsNotFailed
CHECK_DEADLOCK FALSE
