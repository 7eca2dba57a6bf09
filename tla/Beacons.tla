------------------------------- MODULE Beacons -------------------------------
(***************************************************************************)
(* The beacon scheduler (src/src/beacon.rs) and the task that polls it      *)
(* (src/src/main.rs).  A beacon is its place in the configuration; those    *)
(* that from_config makes always have a text to send.  Time is in ticks.    *)
(***************************************************************************)
EXTENDS Integers, Sequences, FiniteSetsExt

CONSTANTS
    Config,        \* [[beacon]]: a sequence of cycle, mode, symbol and comment
    Located,       \* there is a [location]
    DefaultCycle,  \* 20 minutes
    PollEvery,     \* period of the poll
    MaxLate        \* bound: how late the runtime polls a task that is ready

\* A number and its unit: a result that may be missing is a set of at most one.
Seconds == [s |-> 1, m |-> 60, h |-> 3600]
parse_duration(d) ==
    IF d.unit \notin DOMAIN Seconds \/ d.number \notin Nat THEN {} ELSE {d.number * Seconds[d.unit]}

\* A cycle that is not given or not readable is the default.
Cycle(b) ==
    LET given == UNION {parse_duration(d) : d \in Config[b].cycle}
    IN  IF given = {} THEN DefaultCycle ELSE Max(given)

\* A symbol needs a place; without one a comment is needed.  Others are skipped.
Beacons == {b \in DOMAIN Config : IF Config[b].symbol THEN Located ELSE Config[b].comment}

\* Those of mode aprsis or both, which is the default.
OnNet == {b \in Beacons : Config[b].mode # "radio"}

VARIABLES
    at,      \* the task waits in "tick" or "send", or has "ended"
    poll,    \* until the next tick of the interval; negative when it is late
    wait,    \* until next_fire of each beacon, 0 from then on
    toSend,  \* rest of what the last poll returned
    last     \* history: ticks since each beacon fired, at most its interval

beaconVars == <<at, poll, wait, toSend, last>>

\* The interval of each beacon is its cycle divided by the number of all, those
\* that were skipped included.
Interval(b) == Cycle(b) \div Len(Config)
Longest == Max({Interval(b) : b \in Beacons} \cup {0})

\* Mutant: the jitter without the 80% that it is added to.
JitterAlone(b) == {d \in 0 .. Interval(b) : 10 * d <= 2 * Interval(b)}
Jittered(b)    == {d \in 0 .. Interval(b) : 10 * d >= 8 * Interval(b)}

Init ==
    /\ at = "tick" /\ poll = 0 /\ toSend = <<>>
    /\ wait \in [Beacons -> 0 .. Longest]
    /\ \A b \in Beacons : wait[b] \in Jittered(b)
    /\ last = [b \in Beacons |-> Interval(b)]

Due == {b \in Beacons : wait[b] = 0}

\* A missed tick is made up for at once: the next is due a period after it.
Elapsed == at = "tick" /\ poll <= 0 /\ poll' = poll + PollEvery

Fire(fired) ==
    /\ \E w \in [fired -> 0 .. Longest] :
         /\ \A b \in fired : w[b] \in Jittered(b)
         /\ wait' = [b \in Beacons |-> IF b \in fired THEN w[b] ELSE wait[b]]
    /\ last' = [b \in Beacons |-> IF b \in fired THEN 0 ELSE last[b]]
    /\ toSend' = SelectSeq([b \in DOMAIN Config |-> b], LAMBDA b : b \in fired \cap OnNet)
    /\ at' = IF toSend' = <<>> THEN "tick" ELSE "send"

Poll == Elapsed /\ Fire(Due)

\* The write channel has room, or no receiver any more.
Send ==
    /\ at = "send"
    /\ toSend' = Tail(toSend)
    /\ at' = IF toSend' = <<>> THEN "tick" ELSE "send"
    /\ UNCHANGED <<poll, wait, last>>
SendFail ==
    /\ at = "send" /\ at' = "ended"
    /\ UNCHANGED <<poll, wait, toSend, last>>

\* Ticks missed during a long send are counted up to two periods.
Tick ==
    /\ at # "ended" /\ (at = "tick" => poll > -MaxLate)
    /\ poll' = Max({poll - 1, -(2 * PollEvery)})
    /\ wait' = [b \in Beacons |-> Max({wait[b] - 1, 0})]
    /\ last' = [b \in Beacons |-> Min({last[b] + 1, Interval(b)})]
    /\ UNCHANGED <<at, toSend>>

Next == Poll \/ Send \/ SendFail \/ Tick

-----------------------------------------------------------------------------
TypeOK ==
    /\ at \in {"tick", "send", "ended"} /\ poll \in -(2 * PollEvery) .. PollEvery
    /\ \A b \in Beacons : wait[b] \in 0 .. Interval(b) /\ last[b] \in 0 .. Interval(b)
    /\ toSend \in Seq(OnNet)

\* However long the task is held up in a send, and however many ticks it makes
\* up for after it, no beacon fires before 80% of its interval have passed.
Spacing == [][Poll => \A b \in Due : 10 * last[b] >= 8 * Interval(b)]_beaconVars

\* "Each beacon group shares the cycle time, evenly spaced." (beacon.rs:210)
\* Two beacons with the same cycle are not fired at the same time.
EvenlySpaced ==
    [][Poll => \A b, c \in Due : Cycle(b) = Cycle(c) => b = c]_beaconVars
=============================================================================
