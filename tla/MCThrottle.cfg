SPECIFICATION FairThrottleSpec
CONSTANTS
    Clients = {a}
    RequestsBurst = 3
    RequestsRate = 1
    TokensBurst = 3
    TokensRate = 1
    ClientMaxInflight = 1
    ClientTtl = 3
    SweepEvery = 2
    Unit = 3
    Multipliers = {1, 2, 3}
    Costs = {1, 2}
    Horizon = 4
    MaxLive = 2
    Decay = 2
    Window = 1
    AnomalyEnabled = TRUE
    SuspectMultiplier = 2
    HostileMultiplier = 1
INVARIANTS
    LiveIsCounted
    ClientWithinCap
    NeverBeyondBaseline
    HostileHolds
PROPERTIES
    PenaltyEnds
