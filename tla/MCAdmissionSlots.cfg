SPECIFICATION Spec
CONSTANTS
    c1 = c1
    c2 = c2
    e1 = e1
    e2 = e2
    e3 = e3
    Requests <- MCRequests
    Cost <- MCCost
    Total = 3
    ReservedCheap = 1
    CheapCostThreshold = 5
INVARIANTS
    SlotsConserved
    ExpensiveLeavesReserve
PROPERTIES
    GeneralIsAPool
