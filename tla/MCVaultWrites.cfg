SPECIFICATION FairSpec
CONSTANTS
    r1 = r1
    r2 = r2
    u1 = u1
    p1 = p1
    p2 = p2
    p3 = p3
    n1 = n1
    s1 = s1
    s2 = s2
    bad = bad
    Empty = Empty
    NoRow = NoRow
    Free = Free
    Request <- TwoRequests
    User <- OneUser
    Place <- TwoPlaces
    Username <- OneUsername
    Secret <- TwoSecrets
    Unreadable <- NoSecret
    Label <- Labels
    UniqueKey = TRUE
    Operations <- Writes
    InitialTables <- OneRowOrNone
    Faults <- AllFaults
    MaxId = 4
    MaxItems = 2
CONSTRAINTS
    Numbered
    OneLongImport
INVARIANTS
    VaultInv
    Untorn
    DeletedIsGone
    ItemsCounted
PROPERTIES
    RequestsFinish
CHECK_DEADLOCK FALSE
