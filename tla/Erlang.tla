-------------------------------- MODULE Erlang --------------------------------
(***************************************************************************)
(* The traffic counts of one interface (src/src/erlang.rs) and the task     *)
(* that rotates and publishes them (src/src/main.rs).  The five counters    *)
(* of WindowStats are added in the same way: one stands for all.            *)
(***************************************************************************)
EXTENDS Integers, Sequences, FiniteSets

CONSTANTS
    Minute,     \* ticks in a minute
    Ten, Sixty, \* the windows, in minutes
    MaxLate,    \* bound: how late the runtime polls a task that is ready
    MaxRecorded \* bound: packets within the longest window

VARIABLES
    rotation, \* until the next tick of the interval; negative when it is late
    current, last1, last10, last60,
    samples,  \* minute_samples, oldest first
    shown,    \* erlang_stats of the dashboard
    ages      \* history: ticks since each packet was recorded, oldest first

erlangVars == <<rotation, current, last1, last10, last60, samples, shown, ages>>

Sum(s) ==
    LET sum[n \in 0 .. Len(s)] == IF n = 0 THEN 0 ELSE sum[n - 1] + s[n]
    IN  sum[Len(s)]

Init ==
    /\ rotation = 0 /\ current = 0 /\ last1 = 0 /\ last10 = 0 /\ last60 = 0
    /\ samples = <<>> /\ shown = <<0, 0, 0, 0>> /\ ages = <<>>

\* record_rx, record_tx, record_drop.
Record ==
    /\ Len(ages) < MaxRecorded /\ ages' = Append(ages, 0)
    /\ current' = current + 1
    /\ UNCHANGED <<rotation, last1, last10, last60, samples, shown>>

Latest(s, n) == IF Len(s) <= n THEN s ELSE SubSeq(s, Len(s) - n + 1, Len(s))

\* Mutant: the sum starts one sample too early.
RecentEarly(s, n) == Latest(s, n + 1)
Recent(s, n)      == Latest(s, n)

\* It publishes a snapshot after every rotation, too.
Snapshot == shown' = <<current', last1', last10', last60'>>

RotateAll ==
    /\ last1' = current
    /\ samples' = Latest(Append(samples, current), Sixty)
    /\ last10' = Sum(Recent(samples', Ten))
    /\ last60' = Sum(samples')
    /\ current' = 0
    /\ UNCHANGED ages

Rotate ==
    /\ rotation <= 0 /\ rotation' = rotation + Minute
    /\ RotateAll /\ Snapshot

Publish ==
    /\ shown' = <<current, last1, last10, last60>>
    /\ UNCHANGED <<rotation, current, last1, last10, last60, samples, ages>>

\* Packets too old for any window are forgotten by the history.
MaxAge == (Sixty + 1) * Minute + MaxLate
TooOld == Cardinality({i \in DOMAIN ages : ages[i] >= MaxAge})

Tick ==
    /\ rotation > -MaxLate /\ rotation' = rotation - 1
    /\ ages' = [i \in 1 .. Len(ages) - TooOld |-> ages[i + TooOld] + 1]
    /\ UNCHANGED <<current, last1, last10, last60, samples, shown>>

Next == Record \/ Rotate \/ Publish \/ Tick

-----------------------------------------------------------------------------
TypeOK ==
    /\ rotation \in -MaxLate .. Minute
    /\ current \in Nat /\ last1 \in Nat /\ last10 \in Nat /\ last60 \in Nat
    /\ samples \in Seq(Nat) /\ Len(samples) <= Sixty

\* The last n packets, and no older one, were recorded in a window of w
\* minutes before the current one, up to the lateness of the rotation.
Covers(n, w) ==
    LET old == Len(ages) - n
    IN  /\ old >= 0
        /\ old > 0 => ages[old] >= w * Minute - MaxLate
        /\ n > 0   => ages[old + 1] <= (w + 1) * Minute + MaxLate

\* The sums over samples are sums over the right stretch of time, from the
\* start, when samples are few, to the time when the ring has wrapped, also
\* when the task is late and makes up for several rotations at once.
Windows == Covers(last1 + current, 1) /\ Covers(last10 + current, Ten)
                                      /\ Covers(last60 + current, Sixty)
=============================================================================
