\* The code against what extract_position says it does.
SPECIFICATION CodecsSpec
CONSTANTS
    c = c
    d = d
    Plain <- MCPlain
    Frames <- MCFrames
    MaxLen = 3
    MaxFrames = 3
    MaxNoise = 2
    Data <- MCData
    Errors <- MCErrors
    MaxData = 3
    ValidCalls <- MCValidCalls
    UpperBytes = {"hi"}
    AirFrames <- MCAirFrames
    CheckBytes = {"LF", "hi"}
    MaxLinks = 2
    Ports = {0, 1}
    Calls <- MCCalls
    Blocks <- MCBlocks
    MaxLine = 3
    MaxText = 6
    Locations <- MCLocations
    Points <- MCPoints
    Reports <- MCReports
    Comments = {0, 5}
INVARIANT EveryLineAnswered
CHECK_DEADLOCK FALSE
