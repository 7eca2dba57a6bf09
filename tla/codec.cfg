\* Three KISS frames and two disturbances; frames over two links.
SPECIFICATION CodecsSpec
CONSTANTS
    c = c
    d = d
    Plain <- MCPlain
    Frames <- MCFrames
    MaxLen = 3
    MaxFrames = 3
    MaxNoise = 2
    Data <- MCData
    Errors <- MCErrors
    MaxData = 3
    ValidCalls <- MCValidCalls
    UpperBytes = {"hi"}
    AirFrames <- MCAirFrames
    CheckBytes = {"LF", "hi"}
    MaxLinks = 2
    Ports = {0, 1}
    Calls <- MCCalls
    Blocks <- MCBlocks
    MaxLine = 3
    MaxText = 6
    Locations <- MCLocations
    Points <- MCPoints
    Reports <- MCReports
    Comments = {0, 5}
INVARIANTS CheckTells FramesKept AgwpeKept LinesKept PlaceKept
PROPERTY Recovers
CHECK_DEADLOCK FALSE
