SPECIFICATION FairSpec
CONSTANTS
    p1 = p1
    p2 = p2
    c1 = c1
    c2 = c2
    None = None
    Providers <- TwoProviders
    Registered <- OneProvider
    Calls <- TwoCalls
    FailureThreshold = 2
    HalfOpenSuccesses = 2
    MaxRetries = 1
INVARIANTS
    RoutingInv
    OnlyEarlierCallsReachOpenProvider
    RefusalMeansRace
    AnswerTellsCharge
PROPERTIES
    KeepsContract
    EveryCallReturns
    OpenIsTriedAgain
