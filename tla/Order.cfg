SPECIFICATION FairSpec
CONSTANTS
    o1 = o1
    q1 = q1
    h1 = h1
    h2 = h2
    k1 = k1
    k2 = k2
    NoOrder = NoOrder
    Orders <- OneOrder
    Requests <- OneRequest
    TaskHandlers <- TwoHandlers
    Consumers <- TwoConsumers
    Faults <- AnyFault
    MaxFaults = 2
INVARIANTS TypeOK NotifiedOnce UnpaidIsWatched
PROPERTIES FollowsStateMachine UnpaidIsClosed
