SPECIFICATION Spec
CONSTANTS
    k1 = k1
    k2 = k2
    q1 = q1
    q2 = q2
    Nobody = Nobody
    Watched = k1
    Keys <- TwoKeys
    Requests <- TwoRequests
    Interval = 2
    Burst = 2
    Idle = 5
    Sweep = 1
    Skew = 1
    MaxTime = 8
INVARIANTS TypeOK MapIsSwept AtMost
SYMMETRY Symmetric
PROPERTY NeverForgets
