SPECIFICATION Spec
CONSTANTS
    o1 = o1
    o2 = o2
    r1 = r1
    h1 = h1
    q1 = q1
    n1 = n1
    n2 = n2
    p1 = p1
    k1 = k1
    k2 = k2
    NoOrder = NoOrder
    Orders <- OneOrder
    Requests <- NoCaller
    TaskHandlers <- OneHandler
    Consumers <- OneConsumer
    Payers <- OnePayer
    Notifiers <- OneNotifier
    Publishers <- OnePublisher
    PayTimeNullable = TRUE
    Faults <- NoFault
    MaxFaults = 0
PROPERTY PaidNotClosed
