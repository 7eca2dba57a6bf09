\* Every configuration with one radio, every channel of size one.
SPECIFICATION FairSpec
CONSTANTS
    Interfaces = {r1}
    SourceCap = 1
    ConsumerCap = 1
    WriteCap = 1
    MaxRf = 3
    MaxIs = 1
    MaxBeacons = 1
INVARIANTS OnlyRadioIsGated StaysUpUntilAbort
PROPERTIES RadioNeverStuck IgateNeverStuck ShutdownCompletes
