SPECIFICATION FairSpec
CONSTANTS
    Requests = {r1, r2, r3, r4}
    Capacity = 2
INVARIANTS
    HeldIsOwned
    NoOverCommit
    NoIdleSlot
    DequeIsLive
PROPERTIES
    NoBarging
    ImplementsLedger
    EveryWaitEnds
