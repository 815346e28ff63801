SPECIFICATION FairSpec
CONSTANTS
    o1 = o1
    o2 = o2
    q1 = q1
    n1 = n1
    n2 = n2
    p1 = p1
    p2 = p2
    NoOrder = NoOrder
    Orders <- TwoOrders
    Payers <- OnePayer
    Notifiers <- TwoNotifiers
    Publishers <- TwoPublishers
    PayTimeNullable = TRUE
    Faults <- AnyFault
    MaxFaults = 1
INVARIANTS TypeOK EventWithPayment ChargedHasFlow PublishedIsInTopic
PROPERTY ChargedIsPublished
