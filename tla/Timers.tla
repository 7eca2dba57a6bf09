-------------------------------- MODULE Timers --------------------------------
(***************************************************************************)
(* The two timer tasks of the program (src/src/main.rs), the beacon task    *)
(* and the erlang task, and the text of a beacon, which is made within a    *)
(* poll of the beacon task.  The tasks share the clock and the runtime and  *)
(* nothing else, and each is optional in the configuration, so one of the   *)
(* three is followed at a time.                                             *)
(***************************************************************************)
EXTENDS Integers, Sequences, Functions

CONSTANTS
    Config, Located, DefaultCycle, PollEvery,                   \* Beacons
    Contents, Vias, MAX_BEACON_OUTPUT_LEN, PipeSize, Timeout,    \* BeaconText
    Minute, Ten, Sixty, MaxRecorded,                             \* Erlang
    MaxLate

ASSUME TimersAssumption ==
    /\ Config \in Seq(Range(Config)) \ {<<>>} /\ Located \in BOOLEAN /\ DefaultCycle \in Nat
    /\ \A b \in DOMAIN Config : \A c, d \in Config[b].cycle : c = d
    /\ \A c \in Contents : c.kind = "command" =>
          {c.text.len, c.left} \subseteq Nat /\ {c.succeeds, c.ends, c.leaves} \subseteq BOOLEAN
    /\ PipeSize \in Nat /\ Timeout \in Nat /\ MAX_BEACON_OUTPUT_LEN \in Nat
    /\ PollEvery \in Nat \ {0} /\ Minute \in Nat \ {0} /\ MaxLate \in Nat
    /\ Ten \in Nat \ {0} /\ Sixty \in Nat /\ Ten <= Sixty /\ MaxRecorded \in Nat

VARIABLES
    timer,   \* which of the three is followed
    at, poll, wait, toSend, last,
    firing, step, child, toWrite, toAdd, pipe, held, waited, said,
    rotation, current, last1, last10, last60, samples, shown, ages

Bcn == INSTANCE Beacons
Txt == INSTANCE BeaconText WITH at <- step
Erl == INSTANCE Erlang

beaconVars == <<at, poll, wait, toSend, last>>
textVars   == <<firing, step, child, toWrite, toAdd, pipe, held, waited, said>>
erlangVars == <<rotation, current, last1, last10, last60, samples, shown, ages>>
timersVars == <<timer, beaconVars, textVars, erlangVars>>

TimersInit == timer \in {"beacons", "text", "erlang"} /\ Bcn!Init /\ Txt!Init /\ Erl!Init

BeaconTask == timer = "beacons" /\ Bcn!Next /\ UNCHANGED <<timer, textVars, erlangVars>>
BeaconFire == timer = "text" /\ Txt!Next /\ UNCHANGED <<timer, beaconVars, erlangVars>>
ErlangTask == timer = "erlang" /\ Erl!Next /\ UNCHANGED <<timer, beaconVars, textVars>>

\* The beacon task has ended because the client has, or the text is made.
TimersDone == (at = "ended" \/ step \in {"done", "aborted"}) /\ UNCHANGED timersVars

TimersNext == BeaconTask \/ BeaconFire \/ ErlangTask \/ TimersDone

TimersSpec == TimersInit /\ [][TimersNext]_timersVars

-----------------------------------------------------------------------------
TimersTypeOK == Bcn!TypeOK /\ Erl!TypeOK

\* The properties of the three, which their modules state.
Spacing      == Bcn!Spacing
EvenlySpaced == Bcn!EvenlySpaced
CommandOver  == Txt!CommandOver
Windows      == Erl!Windows
=============================================================================
