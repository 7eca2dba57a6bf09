\* Both kinds of interface: a command channel and a packet channel that fill up.
SPECIFICATION FairSpec
CONSTANTS
    TxOk = TRUE
    CmdCap = 2
    PacketCap = 1
    InitialBackoff = 1
    MaxBackoff = 3
    ConnectTimeout = 1
    Watchdog = 2
    FramesPerRead = 2
    MaxFails = 3
    MaxFrames = 2
    MaxTransmits = 2
INVARIANTS BackoffFollowsFailures NoFrameLost TransmitOnce
PROPERTY StopsWhenTold
