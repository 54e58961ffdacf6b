SPECIFICATION Spec
CONSTANTS
    f1 = f1
    f2 = f2
    f3 = f3
    q1 = q1
    q2 = q2
    flooder = flooder
    quiet = quiet
    Requests <- MCRequests
    Clients <- MCClients
    Client <- MCClient
    Cost <- MCCost
    Total = 2
    ReservedCheap = 1
    CheapCostThreshold = 1
    RateLimitEnabled = TRUE
    RequestsBurst = 2
    RequestsRate = 1
    TokensBurst = 4
    TokensRate = 1
    ClientMaxInflight = 2
    OccupancyHigh = 90
    OccupancyLow = 60
    RestSignals = {"clear", "between", "high"}
    FairShareEnabled = TRUE
    MinActiveClients = 2
    ShareMultiplier = 125
    GraceCostShare = 15
    MaxShareThreshold = 50
    Window = 1
    MaxTime = 2
SYMMETRY RequestSymmetry
INVARIANTS
    TypeOK
    CountersAgree
    InflightHoldsSlot
    InflightWithinSlots
    RequestBudget
    CostBudget
    SomebodyIsWithinShare
PROPERTIES
    SlotsAreAdmissionSlots
