SPECIFICATION FairSpec
CONSTANTS
    MaxSeqs = 8
    KernelEnv <- MCEnv
    Folders = {"a", "b", "c"}
    MaxRuns = 3
    MaxRequests = 1
    MaxRestarts = 1
    MaxServers = 2
INVARIANTS TypeOK FinishedRunsAreEvidence
PROPERTY EveryRunCleansUp
\* The notebook ends.
CHECK_DEADLOCK FALSE
