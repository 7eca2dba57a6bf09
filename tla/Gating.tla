-------------------------------- MODULE Gating --------------------------------
(***************************************************************************)
(* Gateways between a radio channel and APRS-IS that follow the rules of    *)
(* src/src/igate.rs, each with its history of the stations it heard         *)
(* (src/src/history.rs).  Several gateways hear the same channel and are on *)
(* the same network, so what one of them gates the others see.              *)
(*                                                                          *)
(* A packet is the sequence of its headers, from the outermost to that of   *)
(* the innermost third-party frame, and the kind of payload inside.  A      *)
(* callsign that begins with one of the forbidden prefixes is that prefix.  *)
(* The program does not gate to radio yet: how the functions for that       *)
(* direction are called is taken from their documentation.                  *)
(***************************************************************************)
EXTENDS Integers, Sequences

CONSTANTS
    Gates,        \* gate_call of each gateway
    Stations,     \* other callsigns, and APRS as destination
    OnAir,        \* packets that stations send by radio
    OnNet,        \* packets that others put on APRS-IS
    Ttl,          \* ttl of the history, in ticks
    MaxSent,      \* bound: packets sent
    MaxCrossings  \* bound: how often one packet is gated

Marks == {"WIDE", "TCPIP", "TCPXX", "NOCALL", "NOGATE", "RFONLY", "qAR", "qAX"}
Calls == Gates \cup Stations \cup Marks
Kinds == {"query", "message", "other"}

Headers == [src : Calls, dst : Calls, vias : SUBSET Calls]
Packets == [heads : Seq(Headers), kind : Kinds, to : Stations, trip : Seq({"net", "air"})]

ASSUME GatingAssumption ==
    /\ Gates \cap Stations = {} /\ (Gates \cup Stations) \cap Marks = {}
    /\ "APRS" \in Stations
    /\ Ttl \in Nat \ {0} /\ MaxSent \in Nat /\ MaxCrossings \in Nat
    /\ OnAir \cup OnNet \subseteq Packets
    /\ \A p \in OnAir \cup OnNet : p.heads # <<>> /\ p.trip = <<>>

VARIABLES
    air,      \* packets that were transmitted
    net,      \* lines on APRS-IS
    history,  \* entries of each gateway: the time left, -1 for no entry
    since,    \* history: ticks since each gateway heard each station, up to Ttl
    sent      \* how many packets were sent

vars == <<air, net, history, since, sent>>

Init ==
    /\ air = {} /\ net = {} /\ sent = 0
    /\ history = [g \in Gates |-> [s \in Calls |-> -1]]
    /\ since = [g \in Gates |-> [s \in Calls |-> Ttl]]

-----------------------------------------------------------------------------
(* gate_to_aprsis.                                                          *)

ForbiddenSource == {"WIDE", "TCPIP", "TCPXX", "NOCALL"}
ForbiddenDest   == {"TCPIP", "TCPXX", "NOGATE", "RFONLY", "NOCALL"}
\* Mutant: TCPIP is not among them.
ForbiddenViaLess == {"RFONLY", "NOGATE", "TCPXX"}
ForbiddenVia    == {"RFONLY", "NOGATE", "TCPIP", "TCPXX"}
MaxDepth == 3

\* Third-party headers are taken off, and only the innermost is looked at.
Inner(p) == p.heads[Len(p.heads)]

ToNet(p) ==
    /\ Len(p.heads) - 1 <= MaxDepth
    /\ p.kind # "query"
    /\ Inner(p).src \notin ForbiddenSource
    /\ Inner(p).dst \notin ForbiddenDest
    /\ Inner(p).vias \cap ForbiddenVia = {}

\* The line that is written.
Line(p, g) == [p EXCEPT !.heads = <<[Inner(p) EXCEPT !.vias = @ \cup {"qAR", g}]>>,
                        !.trip = Append(@, "net")]

-----------------------------------------------------------------------------
(* HistoryDb.                                                               *)

WasHeard(g, s) == history[g][s] > 0

Heard(g, s) ==
    /\ history' = [history EXCEPT ![g][s] = Ttl]
    /\ since' = [since EXCEPT ![g][s] = 0]

Cleanup(g) ==
    /\ history' = [history EXCEPT ![g] = [s \in Calls |-> IF @[s] > 0 THEN @[s] ELSE -1]]
    /\ UNCHANGED <<air, net, since, sent>>

-----------------------------------------------------------------------------
(* gate_to_rf.                                                              *)

TxForbidden == {"TCPXX", "NOGATE", "RFONLY", "qAX"}

\* Mutant: it does not matter whether the sender is on the channel.
ToAirUnlessLocal(p, g) ==
    /\ Len(p.heads) = 1 /\ p.kind = "message"
    /\ ({Inner(p).src, Inner(p).dst} \cup Inner(p).vias) \cap TxForbidden = {}
    /\ WasHeard(g, p.to)

ToAir(p, g) ==
    /\ Len(p.heads) = 1 /\ p.kind = "message"
    /\ ({Inner(p).src, Inner(p).dst} \cup Inner(p).vias) \cap TxForbidden = {}
    /\ WasHeard(g, p.to) /\ ~WasHeard(g, Inner(p).src)

\* The third-party frame, transmitted under the gateway's own header.
Frame(p, g) ==
    [p EXCEPT !.heads = << [src |-> g, dst |-> "APRS", vias |-> {}],
                           [src |-> Inner(p).src, dst |-> Inner(p).dst, vias |-> {"TCPIP", g}] >>,
              !.trip = Append(@, "air")]

-----------------------------------------------------------------------------
\* A station transmits, or somebody puts a packet on APRS-IS.
Send ==
    /\ sent < MaxSent /\ sent' = sent + 1
    /\ \/ \E p \in OnAir : air' = air \cup {p} /\ UNCHANGED net
       \/ \E p \in OnNet : net' = net \cup {p} /\ UNCHANGED air
    /\ UNCHANGED <<history, since>>

\* A gateway receives a packet by radio: it notes who transmitted it, and gates.
Hear(g, p) ==
    /\ p \in air /\ Len(p.trip) < MaxCrossings
    /\ Heard(g, p.heads[1].src)
    /\ net' = IF ToNet(p) THEN net \cup {Line(p, g)} ELSE net
    /\ UNCHANGED <<air, sent>>

\* A gateway gets a line from APRS-IS, and gates it to radio or not.
Read(g, p) ==
    /\ p \in net /\ ToAir(p, g) /\ Len(p.trip) < MaxCrossings
    /\ air' = air \cup {Frame(p, g)}
    /\ UNCHANGED <<net, history, since, sent>>

Tick ==
    /\ history' = [g \in Gates |-> [s \in Calls |->
                      IF history[g][s] > 0 THEN history[g][s] - 1 ELSE history[g][s]]]
    /\ since' = [g \in Gates |-> [s \in Calls |->
                      IF since[g][s] < Ttl THEN since[g][s] + 1 ELSE Ttl]]
    /\ UNCHANGED <<air, net, sent>>

Next ==
    \/ Send \/ Tick
    \/ \E g \in Gates : Cleanup(g) \/ (\E p \in air : Hear(g, p)) \/ (\E p \in net : Read(g, p))

Spec == Init /\ [][Next]_vars

-----------------------------------------------------------------------------
(* Properties.                                                              *)

TypeOK ==
    /\ air \subseteq Packets /\ net \subseteq Packets
    /\ history \in [Gates -> [Calls -> -1 .. Ttl]]
    /\ since \in [Gates -> [Calls -> 0 .. Ttl]]
    /\ sent \in 0 .. MaxSent

\* What a gateway transmits does not come back to APRS-IS, through any gateway
\* that hears it: the trip of a packet never goes by radio on to the net.
NoReturn ==
    \A p \in net : \A i \in 1 .. Len(p.trip) - 1 : p.trip[i] # "air"

\* Expiry looked at when asked and clean-up at any time come to the same: a
\* station was heard exactly when the gateway heard it within the last Ttl.
HeardExactly == \A g \in Gates, s \in Calls : WasHeard(g, s) <=> since[g][s] < Ttl

\* What is gated to radio was sent by somebody the gateway cannot hear, to
\* somebody it can: else the sender would be heard on the channel twice.
OnlyForTheDistant ==
    [][\A g \in Gates, p \in net :
          Frame(p, g) \in air' \ air => since[g][p.to] < Ttl /\ since[g][Inner(p).src] = Ttl]_vars
=============================================================================
