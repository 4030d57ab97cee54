SPECIFICATION Spec
CONSTANTS
    r1 = r1
    r2 = r2
    u1 = u1
    p1 = p1
    p2 = p2
    p3 = p3
    n1 = n1
    s1 = s1
    s2 = s2
    bad = bad
    Empty = Empty
    NoRow = NoRow
    Free = Free
    Request <- TwoRequests
    User <- OneUser
    Place <- TwoPlaces
    Username <- OneUsername
    Secret <- TwoSecrets
    Unreadable <- NoSecret
    Label <- Labels
    UniqueKey = TRUE
    Operations <- RemovalAndUpdate
    InitialTables <- AnyRows
    Faults <- NoFaults
    MaxId = 2
    MaxItems = 0
PROPERTIES
    RemovesOnlyCopies
CHECK_DEADLOCK FALSE
