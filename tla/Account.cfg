SPECIFICATION FairSpec
CONSTANTS
    m1 = m1
    m2 = m2
    o1 = o1
    s1 = s1
    s2 = s2
    avatar = avatar
    zero = zero
    v1 = v1
    q1 = q1
    q2 = q2
    NoUser = NoUser
    Nothing = Nothing
    Ids <- TwoUsers
    Mobiles <- TwoMobiles
    OpenIds <- OneOpenId
    Secrets <- TwoSecrets
    Fields <- OneField
    Values <- TwoValues
    Zero = zero
    Old <- OneOld
    Requests <- TwoRequests
    MaxChanges = 2
    Faults <- AnyFault
    MaxFaults = 2
INVARIANTS TypeOK OneAccount
PROPERTIES PasswordKept CacheSettles
