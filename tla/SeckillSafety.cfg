SPECIFICATION Spec
CONSTANTS
    u1 = u1
    u2 = u2
    w1 = w1
    w2 = w2
    a1 = a1
    NoUser = NoUser
    Users <- TwoUsers
    Apis <- OneApi
    Workers <- TwoWorkers
    Stock = 1
    MaxAttempts = 2
    BatchSize = 2
    TranslateError = FALSE
    Faults <- AnyFault
    MaxFaults = 2
    MaxSN = 2
SYMMETRY UserWorkerSymmetry
INVARIANTS TypeOK NoOversell StockAccounting PendingHoldsPlace SuccessHasOrder
PROPERTY ImplementsSale
