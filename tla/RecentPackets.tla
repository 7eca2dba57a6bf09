----------------------------- MODULE RecentPackets -----------------------------
(***************************************************************************)
(* What the duplicate check promises (src/src/digipeater/dedupe.rs, doc     *)
(* comments): a packet is new when it was not new within the window that    *)
(* just passed, and else a duplicate with the number of times it was seen.  *)
(* There is no table here, and nothing to clean up.                         *)
(***************************************************************************)
EXTENDS Naturals

CONSTANTS
    Packets,
    Copies(_),  \* the packets that a packet is the same as, itself included
    StoreTime

VARIABLES
    age,     \* age[p]: time since p was last new, at most StoreTime
    seen,    \* seen[p]: observations of p since it was new, 0 when that is long ago
    answer   \* what the last check said: 0 at first, seen_count after it

vars == <<age, seen, answer>>

Init ==
    /\ age = [p \in Packets |-> StoreTime]
    /\ seen = [p \in Packets |-> 0]
    /\ answer = 0

Check(p) ==
    /\ age' = [q \in Packets |-> IF q \in Copies(p) /\ age[p] = StoreTime THEN 0 ELSE age[q]]
    /\ seen' = [q \in Packets |-> IF q \in Copies(p) THEN seen[q] + 1 ELSE seen[q]]
    /\ answer' = seen[p] + 1

\* Time passes; what was new a whole window ago is forgotten.
Tick ==
    /\ age' = [p \in Packets |-> IF age[p] < StoreTime THEN age[p] + 1 ELSE StoreTime]
    /\ seen' = [p \in Packets |-> IF age[p] + 1 < StoreTime THEN seen[p] ELSE 0]
    /\ UNCHANGED answer

Next == Tick \/ \E p \in Packets : Check(p)

Spec == Init /\ [][Next]_vars
=============================================================================
