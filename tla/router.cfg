\* Two consumers; five sections, channels of two commands; three processes.
SPECIFICATION ProgramSpec
CONSTANTS
    Consumers <- MCConsumers
    BufferSize <- MCBufferSize
    SourceCap = 2
    MaxPackets = 5
    InterfaceConfig <- MCConfig
    mycall = "MYCALL"
    CmdCap = 2
    MaxHeard = 1
    MaxAsked = 4
    Pids = {"p", "q", "r"}
INVARIANTS ShutdownReaches PidOwned
PROPERTY FanoutSpec
