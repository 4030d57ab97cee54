SPECIFICATION Spec
CONSTANTS
    ann = ann
    bob = bob
    cyd = cyd
    s1 = s1
    s2 = s2
    r1 = r1
    r2 = r2
    Nobody = Nobody
    NoSocket = NoSocket
    User <- ThreeUsers
    Socket <- TwoSockets
    Request <- TwoRequests
    Operations <- AllOperations
    Faults <- AllFaults
    First <- PairAndTrio
    Earlier <- FromBob
SYMMETRY Symmetry
INVARIANTS
    ChatInv
    DeliveredToMembers
    DirectIsExact
    ReadUpdatedTrue
PROPERTIES
    LastNeverGoesBack
CHECK_DEADLOCK FALSE
