SPECIFICATION FairSpec
CONSTANTS
    LoadBands = {"clear", "between", "high"}
    EngineBands = {"clear", "high"}
    StaleAfter = 1
    PollLimit = 1
    PollEvery = 1
    SampleEvery = 1
INVARIANTS
    AlarmDiesOut
PROPERTIES
    AlarmEndsForCause
    Subsides
    OverloadIsNoticed
