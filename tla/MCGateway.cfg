SPECIFICATION FairSpec
CONSTANTS
    Requests = {r1, r2}
    Slots = 1
    MaxNumSeqs = 1
    BufferLines = 2
    MaxFaults = 1
    Absent = Absent
    Other = Other
    Ceiling = 2
    DefaultMax = 1
    RateLimitEnabled = TRUE
    Bodies <- MCBodies
INVARIANTS SlotsAccountedFor RecordsAreKept QueueOnlyBehindAbandoned ChargeCoversWork PollReadsTheEngine
PROPERTY EverythingEnds
\* The process ends.
CHECK_DEADLOCK FALSE
