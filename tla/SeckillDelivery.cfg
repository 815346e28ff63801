SPECIFICATION FairSpec
CONSTANTS
    u1 = u1
    u2 = u2
    w1 = w1
    w2 = w2
    a1 = a1
    NoUser = NoUser
    Users <- TwoUsers
    Apis <- OneApi
    Workers <- TwoWorkers
    Stock = 1
    MaxAttempts = 3
    BatchSize = 2
    TranslateError = FALSE
    Faults <- StoreFaults
    MaxFaults = 1
    MaxSN = 2
INVARIANTS PendingIsDelivered StockAgrees ClosesScheduled
PROPERTIES Settles NoBuyerFails
