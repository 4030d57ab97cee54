SPECIFICATION PhotoSpec
CONSTANTS
    u1 = u1
    u2 = u2
    d1 = d1
    d2 = d2
    p1 = p1
    Absent = Absent
    NoPhoto = NoPhoto
    User <- TwoUsers
    Domain <- TwoDomains
    Photo <- OnePhoto
    Faults <- NoFaults
    MaxLog = 2
    MaxCrashes = 0
INVARIANTS
    DeletedPhotoGone
CHECK_DEADLOCK FALSE
