\* As timers.cfg.
SPECIFICATION TimersSpec
CONSTANTS
    Config <- MCConfig
    Located = FALSE
    DefaultCycle = 15
    PollEvery = 2
    Contents <- MCContents
    Vias <- MCVias
    MAX_BEACON_OUTPUT_LEN = 2
    PipeSize = 3
    Timeout = 3
    Minute = 2
    Ten = 2
    Sixty = 3
    MaxRecorded = 3
    MaxLate = 2
PROPERTY EvenlySpaced
