SPECIFICATION FairSpec
CONSTANTS
    h1 = h1
    p1 = p1
    p2 = p2
    NoCopy = NoCopy
    NoRow = NoRow
    Homestays <- OneHomestay
    Publishers <- OnePublisher
    MaxVersion = 2
    MaxRebuilds = 1
    Faults <- AnyFault
    MaxFaults = 1
INVARIANTS TypeOK IndexIsCurrent
PROPERTY EventIsPublished
