SPECIFICATION Spec
CONSTANTS
    a = a
    b = b
    NoVisitor = NoVisitor
    Ip <- TwoIps
    Rate = 1
    Burst = 2
    Interval = 2
    Every = 4
    MaxTime = 7
    MaxCalls = 5
SYMMETRY Symmetry
INVARIANTS
    LimiterInv
    AdmittedBounded
    BusyStarves
CHECK_DEADLOCK FALSE
