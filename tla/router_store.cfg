SPECIFICATION Spec
CONSTANTS
    p1 = p1
    p2 = p2
    c1 = c1
    c2 = c2
    None = None
    Providers <- TwoProviders
    Calls <- TwoCalls
    PersistEvery = 2
    MaxUpdates = 5
    MaxFaults = 1
SYMMETRY Symmetry
INVARIANTS
    RouterInv
    StoreIsAPastState
    LossIsBounded
CHECK_DEADLOCK FALSE
