------------------------------ MODULE DupeChecker ------------------------------
(***************************************************************************)
(* The duplicate check of src/src/digipeater/dedupe.rs: a map from packet   *)
(* keys (source, destination, payload) to entries that expire.  An expired  *)
(* entry stays in the map until it is seen again or cleaned up.  A payload  *)
(* is a text and the number of blanks that follow it.                       *)
(***************************************************************************)
EXTENDS Naturals, Functions

CONSTANTS
    Packets,   \* the packets heard: source, dest, vias, text, blanks
    StoreTime, \* storetime, in ticks
    MaxSeen    \* bound: observations of one packet within the window

VARIABLES
    entries,   \* key -> seen_count and the time left until expires_at
    answer     \* history: the last DupeResult: 1 for New, else seen_count

dupeVars == <<entries, answer>>

\* DupeKey: the path and the blanks at the end do not matter.
from_packet(p) == [addr |-> <<p.source, p.dest>>, payload |-> p.text]
Keys == {from_packet(p) : p \in Packets}

Init == entries = <<>> /\ answer = 0

\* expires_at > now.
Live(k) == k \in DOMAIN entries /\ entries[k].left > 0

Observations(k) == IF Live(k) THEN entries[k].seen ELSE 0

\* The map with an entry put in.
Put(k, entry) == [j \in DOMAIN entries \cup {k} |-> IF j = k THEN entry ELSE entries[j]]

\* Mutant: every observation starts the window anew.
CheckRenews(p) ==
    LET k == from_packet(p)
    IN  /\ Observations(k) < MaxSeen
        /\ answer' = Observations(k) + 1
        /\ entries' = Put(k, [seen |-> Observations(k) + 1, left |-> StoreTime])
Check(p) ==
    LET k == from_packet(p)
    IN  /\ Observations(k) < MaxSeen
        /\ answer' = Observations(k) + 1
        /\ entries' = IF Live(k) THEN [entries EXCEPT ![k].seen = @ + 1]
                      ELSE Put(k, [seen |-> 1, left |-> StoreTime])

\* retain, now and then.
Cleanup == entries' = Restrict(entries, {k \in DOMAIN entries : Live(k)}) /\ UNCHANGED answer

Tick ==
    /\ entries' = [k \in DOMAIN entries |->
                      [entries[k] EXCEPT !.left = IF @ > 0 THEN @ - 1 ELSE 0]]
    /\ UNCHANGED answer

Next == Cleanup \/ Tick \/ \E p \in Packets : Check(p)

Spec == Init /\ [][Next]_dupeVars

-----------------------------------------------------------------------------
TypeOK ==
    /\ DOMAIN entries \subseteq Keys
    /\ \A k \in DOMAIN entries :
          entries[k] \in [seen : 1 .. MaxSeen, left : 0 .. StoreTime]
    /\ answer \in 0 .. MaxSeen

\* Which packet is heard again tells the abstract memory: one of the same
\* source and destination that says the same.
Copies(p) == {q \in Packets : q.source = p.source /\ q.dest = p.dest /\ q.text = p.text}

Recent == INSTANCE RecentPackets WITH
    age  <- [p \in Packets |-> LET k == from_packet(p)
                               IN  IF Live(k) THEN StoreTime - entries[k].left ELSE StoreTime],
    seen <- [p \in Packets |-> Observations(from_packet(p))]

\* The table implements a memory of exactly the last window: that entries expire
\* without being removed, and are removed at any time after that, makes no
\* difference to any answer; nor does the path by which a packet came.
RecentSpec == Recent!Spec
=============================================================================
