\* Two servers, batches of two, three lines to write, two to read.
SPECIFICATION FairSpec
CONSTANTS
    NumServers = 2
    WriteCap = 2
    PacketCap = 1
    BatchMax = 2
    Heartbeat = 2
    Backoff = 2
    ConnectTimeout = 1
    Comments = {2}
    MaxLines = 3
    MaxServerLines = 2
    MaxAge = 3
INVARIANTS WireInOrder ExactlyOnePlace DashboardTruth PacketsInOrder
PROPERTIES TimersRunOut StopsWhenWritersGone ChannelDrains
