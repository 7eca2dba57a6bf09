\* A line that arrives in two reads while another is written.
SPECIFICATION Spec
CONSTANTS
    NumServers = 1
    WriteCap = 1
    PacketCap = 1
    BatchMax = 1
    Heartbeat = 1
    Backoff = 1
    ConnectTimeout = 1
    Comments = {2}
    MaxLines = 1
    MaxServerLines = 1
    MaxAge = 2
INVARIANT NoHeadlessLine
