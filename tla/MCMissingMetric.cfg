\* The local signals stay clear: an alarm is the engine's.
SPECIFICATION Spec
CONSTANTS
    LoadBands = {"clear"}
    EngineBands = {"clear", "high"}
    StaleAfter = 1
    PollLimit = 1
    PollEvery = 1
    SampleEvery = 1
PROPERTIES
    AbsentIsNotEmpty
