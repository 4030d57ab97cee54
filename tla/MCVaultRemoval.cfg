SPECIFICATION Spec
CONSTANTS
    r1 = r1
    r2 = r2
    u1 = u1
    p1 = p1
    p2 = p2
    p3 = p3
    n1 = n1
    s1 = s1
    s2 = s2
    bad = bad
    Empty = Empty
    NoRow = NoRow
    Free = Free
    Request <- TwoRequests
    User <- OneUser
    Place <- ThreePlaces
    Username <- OneUsername
    Secret <- Secrets
    Unreadable <- BadSecret
    Label <- Labels
    UniqueKey = FALSE
    Operations <- Removal
    InitialTables <- AnyRows
    Faults <- AllFaults
    MaxId = 3
    MaxItems = 0
SYMMETRY Symmetry
PROPERTIES
    LastCopyKept
CHECK_DEADLOCK FALSE
