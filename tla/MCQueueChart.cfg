SPECIFICATION ChartSpec
CONSTANTS
    LoadBands = {"clear"}
    EngineBands = {"clear", "high"}
    StaleAfter = 1
    PollLimit = 1
    PollEvery = 1
    SampleEvery = 1
    MaxSamples = 2
INVARIANT PointsAreTrue
PROPERTY OverloadIsDrawn
