SPECIFICATION FairSpec
CONSTANTS
    c1 = c1
    c2 = c2
    Nobody = Nobody
    Consumer <- TwoConsumers
    Faults <- AllFaults
    MaxLog = 3
    MaxGenerations = 4
INVARIANTS
    ConsumerInv
    RepeatsBounded
PROPERTIES
    ImplementsDelivery
    GoodEventuallyHandled
CHECK_DEADLOCK FALSE
