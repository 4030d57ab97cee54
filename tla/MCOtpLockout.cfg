SPECIFICATION Spec
CONSTANTS
    v1 = v1
    v2 = v2
    v3 = v3
    k1 = k1
    NoEntry = NoEntry
    Validator <- ThreeValidators
    Key <- OneKey
    Limit = 3
    Window = 1
    MaxTime = 5
SYMMETRY Symmetry
INVARIANTS
    LockoutInv
    GuessRateBounded
PROPERTIES
    LockHolds
