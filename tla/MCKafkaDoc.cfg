SPECIFICATION Spec
CONSTANTS
    c1 = c1
    c2 = c2
    Nobody = Nobody
    Consumer <- OneConsumer
    Faults <- AllFaults
    MaxLog = 2
    MaxGenerations = 2
INVARIANTS
    RejectedRedelivered
CHECK_DEADLOCK FALSE
