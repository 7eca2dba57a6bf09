\* Two pages of which one may follow the events, a ring of two of four packets.
SPECIFICATION FairBoardSpec
CONSTANTS
    Pages = {"page1", "page2"}
    RingCap = 2
    MaxSse = 1
    MaxHeaders = 2
    Lifetime = 1
    MaxPackets = 4
    Calls = {"A", "B"}
    Interfaces = {"radio0", "APRSIS"}
    Spots = {"here", "there"}
    MaxHeard = 3
INVARIANTS SlotsCounted EventsInOrder CaughtUp TablesTell
PROPERTY SlotComesBack
