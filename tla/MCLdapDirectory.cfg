SPECIFICATION FairSpec
CONSTANTS
    u1 = u1
    u2 = u2
    d1 = d1
    d2 = d2
    p1 = p1
    Absent = Absent
    NoPhoto = NoPhoto
    User <- TwoUsers
    Domain <- TwoDomains
    Photo <- OnePhoto
    Faults <- AllFaults
    MaxLog = 3
    MaxCrashes = 2
INVARIANTS
    DirectoryInv
    FollowsTopic
PROPERTIES
    EventsCommitted
CHECK_DEADLOCK FALSE
