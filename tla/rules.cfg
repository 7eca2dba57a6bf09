\* Two gateways, two packets sent, a history of two ticks.
\* Four stations and at most three hops done; three packets, four relays delayed,
\* a bucket of two tokens; chains of three filters.
SPECIFICATION RulesSpec
CONSTANTS
    Gates <- MCGates
    Stations <- MCStations
    OnAir <- MCOnAir
    OnNet <- MCOnNet
    Ttl = 2
    MaxSent = 2
    MaxCrossings = 3
    Digis <- MCDigis
    Wide <- MCWide
    Others <- MCOthers
    RequestedN <- MCRequestedN
    MaxHopsReq = 2
    MaxHopsDone = 2
    MaxVias = 5
    Paths <- MCPaths
    Heardable <- MCHeardable
    StoreTime = 2
    MaxSeen = 3
    Delays <- MCDelays
    MaxAdds = 4
    Unit = 2
    Burst = 4
    Rate = 1
    MaxIdle = 5
    Window = 2
    Upper <- MCUpper
    Specs <- MCSpecs
    Checked <- MCChecked
    MaxAdded = 3
INVARIANTS NoReturn PathTellsHistory OneFate RateKept
PROPERTIES OnlyForTheDistant RecentSpec VerdictsFollow
