SPECIFICATION FairSpec
CONSTANTS
    o1 = o1
    o2 = o2
    r1 = r1
    h1 = h1
    q1 = q1
    n1 = n1
    n2 = n2
    p1 = p1
    k1 = k1
    k2 = k2
    NoOrder = NoOrder
    Orders <- TwoOrders
    Requests <- NoCaller
    TaskHandlers <- NoCaller
    Consumers <- TwoConsumers
    Payers <- OnePayer
    Notifiers <- OneNotifier
    Publishers <- OnePublisher
    PayTimeNullable = TRUE
    Faults <- GroupFaults
    MaxFaults = 1
INVARIANT EventsApplied
PROPERTY PaidIsUsable
