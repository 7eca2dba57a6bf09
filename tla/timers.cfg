\* Intervals of 5 ticks polled every 2; a command may take 3 steps and a pipe
\* holds 3; minutes of 2 ticks, windows of 2 and 3.
SPECIFICATION TimersSpec
CONSTANTS
    Config <- MCConfig
    Located = FALSE
    DefaultCycle = 15
    PollEvery = 2
    Contents <- MCContents
    Vias <- MCVias
    MAX_BEACON_OUTPUT_LEN = 2
    PipeSize = 3
    Timeout = 3
    Minute = 2
    Ten = 2
    Sixty = 3
    MaxRecorded = 3
    MaxLate = 2
INVARIANTS CommandOver Windows
PROPERTY Spacing
