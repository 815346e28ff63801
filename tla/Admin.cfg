SPECIFICATION FairSpec
CONSTANTS
    a1 = a1
    a2 = a2
    super = super
    r1 = r1
    edit = edit
    b1 = b1
    q1 = q1
    q2 = q2
    s1 = s1
    s2 = s2
    NoAdmin = NoAdmin
    NoRole = NoRole
    NoAuth = NoAuth
    All = All
    Own = Own
    Admins <- TwoAdmins
    First = a1
    Roles <- TwoRoles
    Super = super
    Perms <- OnePerm
    Edit = edit
    Homes <- OneHome
    RoleForms <- OneForm
    Requests <- TwoRequests
    Starters <- TwoStarters
    DeleteWorks = TRUE
    MaxEdits = 2
    Faults <- AnyFault
    MaxFaults = 1
INVARIANTS TypeOK StaleExplained
PROPERTY AuthorizationSettles
