\* As router.cfg.
SPECIFICATION ProgramSpec
CONSTANTS
    Consumers <- MCConsumers
    BufferSize <- MCBufferSize
    SourceCap = 2
    MaxPackets = 5
    InterfaceConfig <- MCConfig
    mycall = "MYCALL"
    CmdCap = 2
    MaxHeard = 1
    MaxAsked = 4
    Pids = {"p", "q", "r"}
INVARIANT RxRecorded
