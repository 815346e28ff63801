SPECIFICATION Spec
CONSTANTS
    u1 = u1
    u2 = u2
    w1 = w1
    w2 = w2
    a1 = a1
    NoUser = NoUser
    Users <- OneUser
    Apis <- OneApi
    Workers <- TwoWorkers
    Stock = 2
    MaxAttempts = 5
    BatchSize = 1
    TranslateError = FALSE
    Faults <- OnlyLoss
    MaxFaults = 1
    MaxSN = 2
PROPERTY NoBuyerFails
