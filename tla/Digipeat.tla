------------------------------- MODULE Digipeat -------------------------------
(***************************************************************************)
(* A packet relayed from digipeater to digipeater by process_digipeat       *)
(* (src/src/digipeater/mod.rs).  Each station decides from the path in the  *)
(* frame alone; what comes of it is decided by all of them together.        *)
(*                                                                          *)
(* A via is a callsign, the number after its dash, and whether it is used   *)
(* (the H-bit, "*").  The call of a station includes its number, as         *)
(* transmitter_call does, and n is then 0.                                  *)
(***************************************************************************)
EXTENDS Integers, Sequences, FiniteSets

CONSTANTS
    Stations,     \* transmitter_call of each digipeater
    Wide,         \* the callsigns that match a keyword: WIDE1, WIDE2, RELAY ...
    Others,       \* any other callsign
    RequestedN,   \* extract_requested_n: the digits at the end of a keyword's callsign
    MaxHopsReq,   \* max_hops_req
    MaxHopsDone,  \* max_hops_done
    MaxVias,      \* MAX_VIA_ADDRS
    Paths         \* the paths a packet may start with

Vias == [call : Stations \cup Wide \cup Others, n : 0 .. 15, used : BOOLEAN]
Used(p) == {i \in DOMAIN p : p[i].used}

\* What the constants must be.  No station has relayed a packet before it is
\* sent; what others used comes first.
Sensible ==
    /\ Stations \cap Wide = {} /\ Stations \cap Others = {} /\ Wide \cap Others = {}
    /\ RequestedN \in [Wide -> Nat]
    /\ MaxHopsReq \in Nat /\ MaxHopsDone \in Nat /\ MaxVias \in Nat
    /\ Paths \subseteq Seq(Vias)
    /\ \A p \in Paths : \A i \in Used(p) : p[i].call \notin Stations /\ 1 .. i \subseteq Used(p)

VARIABLES
    origin,  \* the path the packet was sent with
    path,    \* the path of the frame on the air
    relays   \* history: the stations that relayed it, in order

vars == <<origin, path, relays>>

Init == origin \in Paths /\ path = origin /\ relays = <<>>

-----------------------------------------------------------------------------
(* process_digipeat.                                                        *)

\* The first via that is not used.
Target(p) == CHOOSE i \in DOMAIN p \ Used(p) : \A j \in DOMAIN p \ Used(p) : i <= j

Mine(s) == [call |-> s, n |-> 0, used |-> TRUE]

\* Mutant: a station does not look for itself in the path.
ForgetsItself(s, p) == FALSE
\* "AlreadyDigipeated".
AlreadyIn(s, p) == \E i \in Used(p) : p[i].call = s

\* The target names the station, or is a keyword with hops left, of which not
\* too many were requested.
Matches(s, via) ==
    \/ via.call = s
    \/ via.call \in Wide /\ via.n > 0 /\ RequestedN[via.call] <= MaxHopsReq

\* DigiResult::Digipeat: none of the reasons to drop the packet holds.
Relays(s, p) ==
    /\ ~AlreadyIn(s, p)
    /\ Cardinality(Used(p)) <= MaxHopsDone
    /\ Used(p) # DOMAIN p /\ Matches(s, p[Target(p)])

\* Mutant: the number of the keyword stays as it was.
Undiminished(s, via) == IF via.call = s \/ via.n = 1 THEN <<>> ELSE <<via>>
\* What is left of the target: nothing, or its remaining hops.
Remainder(s, via) ==
    IF via.call = s \/ via.n = 1 THEN <<>> ELSE <<[via EXCEPT !.n = @ - 1]>>

\* out_vias: the station takes the place of the target, or the place before it.
Relayed(s, p) ==
    LET t == Target(p)
    IN  SubSeq(p, 1, t - 1) \o <<Mine(s)>> \o Remainder(s, p[t]) \o SubSeq(p, t + 1, Len(p))

-----------------------------------------------------------------------------
\* A station that can decode the frame hears it and relays it.  One that drops
\* it changes nothing.
Relay(s) ==
    /\ Len(path) <= MaxVias
    /\ Relays(s, path)
    /\ path' = Relayed(s, path)
    /\ relays' = Append(relays, s)
    /\ UNCHANGED origin

\* No station can relay it any more.
Gone ==
    /\ Len(path) > MaxVias \/ \A s \in Stations : ~Relays(s, path)
    /\ UNCHANGED vars

Next == (\E s \in Stations : Relay(s)) \/ Gone

Spec == Init /\ [][Next]_vars

-----------------------------------------------------------------------------
(* Properties.                                                              *)

TypeOK ==
    /\ origin \in Paths
    /\ path \in Seq(Vias)
    /\ Cardinality(Used(path)) <= MaxHopsDone + 1 \/ path = origin
    /\ relays \in Seq(Stations)

\* The used part of the path names those who had relayed the packet before, then
\* the stations that did since, in that order, none of them twice.
UsedTellsRelays ==
    LET before == Cardinality(Used(origin))
    IN  /\ SubSeq(path, 1, Cardinality(Used(path))) =
               SubSeq(origin, 1, before) \o [i \in 1 .. Len(relays) |-> Mine(relays[i])]
        /\ \A i, j \in 1 .. Len(relays) : relays[i] = relays[j] => i = j

\* The hops a path still asks for: the number of a keyword, one for any other via.
\* Hops(p)[n] counts the first n vias.
Hops(p) ==
    LET sum[n \in 0 .. Len(p)] ==
            IF n = 0 THEN 0
            ELSE sum[n - 1] + (IF p[n].used THEN 0 ELSE IF p[n].call \in Wide THEN p[n].n ELSE 1)
    IN  sum
HopsLeft(p) == Hops(p)[Len(p)]

HopsConserved == HopsLeft(path) + Len(relays) = HopsLeft(origin)

\* The path alone tells what happened: its used part names the stations that
\* relayed the packet, in their order, and no station relays a packet twice,
\* although none remembers it; and what it still asks for is what the sender
\* asked for, less one hop for each relay, whichever stations relayed it.
PathTellsHistory == UsedTellsRelays /\ HopsConserved
=============================================================================
