SPECIFICATION Spec
CONSTANTS
    f1 = f1
    f2 = f2
    f3 = f3
    q1 = q1
    q2 = q2
    flooder = flooder
    quiet = quiet
    Requests <- MCRequests
    Clients <- MCClients
    Client <- MCClient
    Cost <- MCEvenCost
    Total = 3
    ReservedCheap = 0
    CheapCostThreshold = 1
    RateLimitEnabled = TRUE
    RequestsBurst = 3
    RequestsRate = 1
    TokensBurst = 6
    TokensRate = 1
    ClientMaxInflight = 2
    OccupancyHigh = 90
    OccupancyLow = 60
    RestSignals = {"clear"}
    FairShareEnabled = TRUE
    MinActiveClients = 2
    ShareMultiplier = 125
    GraceCostShare = 15
    MaxShareThreshold = 50
    Window = 1
    MaxTime = 0
SYMMETRY RequestSymmetry
INVARIANTS
    ClientWithinCap
