----------------------------- MODULE HeardTables -----------------------------
(***************************************************************************)
(* What the dashboard knows of stations (src/src/web/mod.rs): the stations  *)
(* heard, which the dashboard task records, and the counters of the iGate,  *)
(* which the iGate task does (src/src/main.rs), under one lock.             *)
(* A callsign may come in capitals or not.                                  *)
(***************************************************************************)
EXTENDS Queues, FiniteSets, SequencesExt

CONSTANTS
    Calls,      \* callsigns
    Interfaces,
    Spots,      \* places; a packet tells at most one
    MaxHeard    \* bound: packets recorded, and judged

VARIABLES
    stations,   \* DashboardState.stations
    igate,      \* igate_stats
    gated,      \* stations_gated_set
    heard,      \* history: what the dashboard task recorded
    judged      \* history: what the iGate task recorded

vars == <<stations, igate, gated, heard, judged>>

Reasons == {"query", "forbidden_source", "forbidden_dest", "forbidden_via", "depth_exceeded"}

\* A callsign as it is written in packets.
Names == Calls \X {"capitals", "small letters"}
to_uppercase(name) == <<name[1], "capitals">>

\* At most one place, and at most one reason not to gate.
Places   == {{}} \cup {{s} : s \in Spots}
Verdicts == {{}} \cup {{r} : r \in Reasons}

\* What the two tasks tell the tables of a packet.
Records   == [call : Names, interface : Interfaces, place : Places]
Judgments == [call : Names, reasons : Verdicts]

Init ==
    /\ stations = <<>> /\ gated = {}
    /\ igate = [rx |-> 0, gated |-> 0, dropped |-> 0, unique |-> 0, why |-> [r \in Reasons |-> 0]]
    /\ heard = <<>> /\ judged = <<>>

-----------------------------------------------------------------------------
\* HashMap.entry: the table with an entry made or replaced.
Put(key, entry) == [k \in DOMAIN stations \cup {key} |-> IF k = key THEN entry ELSE stations[k]]

\* Mutant: a packet without a place forgets the last one.
RecordForgets(call, interface, place) ==
    LET key == to_uppercase(call)
        old == IF key \in DOMAIN stations THEN stations[key].count ELSE 0
    IN  Put(key, [interface |-> interface, count |-> old + 1, place |-> place])
\* The table with the entry of record_station; a place is a set of at most one.
Recorded(call, interface, place) ==
    LET key == to_uppercase(call)
        old == IF key \in DOMAIN stations THEN stations[key]
               ELSE [interface |-> interface, count |-> 0, place |-> {}]
    IN  Put(key, [interface |-> interface, count |-> old.count + 1,
                  place |-> IF place = {} THEN old.place ELSE place])

record_station(call, interface, place) ==
    /\ Len(heard) < MaxHeard
    /\ stations' = Recorded(call, interface, place)
    /\ heard' = Append(heard, [call |-> call, interface |-> interface, place |-> place])
    /\ UNCHANGED <<igate, gated, judged>>

\* record_igate_result: a reason not to gate, or none.
record_igate_result(call, reasons) ==
    /\ Len(judged) < MaxHeard
    /\ gated' = IF reasons = {} THEN gated \cup {to_uppercase(call)} ELSE gated
    /\ igate' = [rx      |-> igate.rx + 1,
                 gated   |-> igate.gated + (IF reasons = {} THEN 1 ELSE 0),
                 dropped |-> igate.dropped + Cardinality(reasons),
                 unique  |-> IF gated' = gated THEN igate.unique ELSE Cardinality(gated'),
                 why     |-> [r \in Reasons |-> igate.why[r] + (IF r \in reasons THEN 1 ELSE 0)]]
    /\ judged' = Append(judged, [call |-> call, reasons |-> reasons])
    /\ UNCHANGED <<stations, heard>>

\* The choice of reasons stands for gate_to_aprsis, for packets of every kind.
Hear  == \E c \in Names, i \in Interfaces, p \in Places : record_station(c, i, p)
Judge == \E c \in Names, w \in Verdicts : record_igate_result(c, w)

Next == Hear \/ Judge

Spec == Init /\ [][Next]_vars

-----------------------------------------------------------------------------
\* Of what was heard, what names a station, and what also tells its place.
Of(k)      == Select(heard, {h \in Records : to_uppercase(h.call) = k})
Located(k) == Select(heard, {h \in Records : to_uppercase(h.call) = k /\ h.place # {}})

\* Of what was judged, what came out in one way.
Judged(w) == Select(judged, {j \in Judgments : j.reasons = w})

\* The tables say what happened: one entry for a station in whatever case its
\* packets name it, with how often it was heard, on which interface last, and
\* the last place it told, through any number of packets that tell none; the
\* counters add up, every packet in exactly one of them, and count each gated
\* station once.
StationsTell ==
    /\ DOMAIN stations = {to_uppercase(h.call) : h \in Range(heard)}
    /\ \A k \in DOMAIN stations :
          /\ stations[k].count = Len(Of(k))
          /\ stations[k].interface = Last(Of(k)).interface
          /\ stations[k].place = IF Located(k) = <<>> THEN {} ELSE Last(Located(k)).place
CountersTell ==
    /\ igate.rx = Len(judged) /\ igate.rx = igate.gated + igate.dropped
    /\ \A r \in Reasons : igate.why[r] = Len(Judged({r}))
    /\ igate.unique = Cardinality({to_uppercase(j.call) : j \in Range(Judged({}))})
TablesTell == StationsTell /\ CountersTell
=============================================================================
