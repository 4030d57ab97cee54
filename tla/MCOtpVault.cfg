SPECIFICATION FairSpec
CONSTANTS
    r1 = r1
    r2 = r2
    r3 = r3
    u1 = u1
    n1 = n1
    n2 = n2
    None = None
    Request <- ThreeRequests
    User <- OneUser
    Name <- TwoNames
    MaxOtps = 3
    Faults <- AllFaults
CONSTRAINTS
    Numbered
    TwoLeft
ACTION_CONSTRAINTS
    Renamed
INVARIANTS
    OtpInv
    DeletedIsGone
    LossesExplained
    FollowersKnow
PROPERTIES
    Stops
CHECK_DEADLOCK FALSE
