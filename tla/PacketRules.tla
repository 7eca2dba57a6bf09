------------------------------ MODULE PacketRules ------------------------------
(***************************************************************************)
(* What decides over a packet on its way: the rules of the gateways         *)
(* (Gating) and the parts of a digipeater (src/src/digipeater): the path of *)
(* a packet over several stations, the duplicate check, the viscous queue,  *)
(* the rate limiter and the filter chain of a source.  The program starts   *)
(* no digipeater yet, so that nothing fixes the order in which these are    *)
(* used: any call may come at any time.  They share nothing but the clock;  *)
(* which of them takes part is chosen in the initial state.                 *)
(***************************************************************************)
EXTENDS Gating

CONSTANTS
    Digis, Wide, Others, RequestedN, MaxHopsReq, MaxHopsDone, MaxVias, Paths, \* Digipeat
    Heardable, StoreTime, MaxSeen,         \* DupeChecker
    Delays, MaxAdds,                       \* ViscousQueue, of the same packets
    Unit, Burst, Rate, MaxIdle, Window,    \* RateLimiter
    Upper, Specs, Checked, MaxAdded        \* Filters

VARIABLES
    part, \* which of them takes part
    origin, path, relays,
    entries, answer,
    pending, added, relayed, cancelled,
    tokens, elapsed, allowed,
    filters, specs

Path  == INSTANCE Digipeat WITH Stations <- Digis
Dupes == INSTANCE DupeChecker WITH Packets <- Heardable
Queue == INSTANCE ViscousQueue WITH Packets <- Heardable, sent <- relayed
Limit == INSTANCE RateLimiter
Chain == INSTANCE Filters WITH Packets <- Checked

ASSUME RulesAssumption ==
    /\ Path!Sensible /\ Chain!Sensible
    /\ StoreTime \in Nat \ {0} /\ MaxSeen \in Nat
    /\ Delays \subseteq Nat /\ MaxAdds \in Nat
    /\ Unit \in Nat \ {0} /\ Burst \in Nat /\ Rate \in Nat /\ Window \in Nat
    \* The time that is counted is long enough to overfill the bucket.
    /\ MaxIdle \in Nat /\ MaxIdle * Rate > Burst

pathVars   == <<origin, path, relays>>
dupeVars   == <<entries, answer>>
queueVars  == <<pending, added, relayed, cancelled>>
rateVars   == <<tokens, elapsed, allowed>>
filterVars == <<filters, specs>>
rulesVars  == <<part, vars, pathVars, dupeVars, queueVars, rateVars, filterVars>>

RulesInit ==
    /\ part \in {"gates", "path", "dupes", "queue", "limit", "filters"}
    /\ Init /\ Path!Init /\ Dupes!Init /\ Queue!Init /\ Limit!Init /\ Chain!Init
    /\ part # "path" => origin = <<>>

AtGates == part = "gates" /\ Next /\ UNCHANGED <<pathVars, dupeVars, queueVars, rateVars, filterVars>>
OnPath  == part = "path" /\ Path!Next /\ UNCHANGED <<vars, dupeVars, queueVars, rateVars, filterVars>>
InDupes == part = "dupes" /\ Dupes!Next /\ UNCHANGED <<vars, pathVars, queueVars, rateVars, filterVars>>
InQueue == part = "queue" /\ Queue!Next /\ UNCHANGED <<vars, pathVars, dupeVars, rateVars, filterVars>>
InLimit == part = "limit" /\ Limit!Next /\ UNCHANGED <<vars, pathVars, dupeVars, queueVars, filterVars>>
InChain == part = "filters" /\ Chain!Next /\ UNCHANGED <<vars, pathVars, dupeVars, queueVars, rateVars>>

\* The configuration has no more filters.
AllAdded == part = "filters" /\ Len(specs) = MaxAdded /\ UNCHANGED rulesVars

RulesNext ==
    \/ AllAdded
    \/ (AtGates \/ OnPath \/ InDupes \/ InQueue \/ InLimit \/ InChain) /\ UNCHANGED part

RulesSpec == RulesInit /\ [][RulesNext]_rulesVars

-----------------------------------------------------------------------------
RulesTypeOK == TypeOK /\ Path!TypeOK /\ Dupes!TypeOK /\ Queue!TypeOK /\ Limit!TypeOK

\* The properties of the parts, whatever the order of the calls.
PathTellsHistory == Path!PathTellsHistory
RecentSpec       == Dupes!RecentSpec
OneFate          == Queue!OneFate
RateKept         == Limit!RateKept
VerdictsFollow   == Chain!VerdictsFollow
=============================================================================
