SPECIFICATION FairSpec
CONSTANTS
    r1 = r1
    r2 = r2
    r3 = r3
    u1 = u1
    t1 = t1
    t2 = t2
    None = None
    Request <- ThreeRequests
    User <- OneUser
    Title <- TwoTitles
    MaxNotes = 4
    MaxItems = 2
    Faults <- AllFaults
CONSTRAINTS
    Numbered
    OneLongImport
INVARIANTS
    IndInv
    NoLostUpdate
    ConflictJustified
    RemovedOnce
    ReplicaAgrees
    ImportCounts
PROPERTIES
    ImplementsNoteBook
    ChangesAnnounced
CHECK_DEADLOCK FALSE
