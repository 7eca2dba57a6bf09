---------------------------- MODULE KissInterface ----------------------------
(***************************************************************************)
(* A radio interface: the task of src/src/interface/tcp.rs or of            *)
(* src/src/interface/serial.rs, around the KISS loop that both share,       *)
(* run_kiss_loop.  Which of the two it is, is chosen in the initial state.  *)
(*                                                                          *)
(* The task is one coroutine; `state` names where it is:                    *)
(*    polling     top of the loop, try_recv (never suspended there)         *)
(*    connecting  the TCP connect with its timeout, or the serial open      *)
(*    loop        run_kiss_loop: select! of read, command and watchdog      *)
(*    sending     packet_tx.send: the packet channel may be full            *)
(*    writing     write_all of a transmitted frame                          *)
(*    backoff     select! of sleep(backoff) and command                     *)
(*    stopped     run() has returned                                        *)
(* Frames heard, and transmissions asked for, are numbered in order.        *)
(***************************************************************************)
EXTENDS Integers, Sequences, FiniteSets, Functions

CONSTANTS
    TxOk,            \* metadata.tx_ok
    CmdCap,          \* capacity of the command channel
    PacketCap,       \* capacity of the router's packet channel
    InitialBackoff,  \* in ticks
    MaxBackoff,      \* in ticks
    ConnectTimeout,  \* in ticks
    Watchdog,        \* watchdog_timeout, in ticks
    FramesPerRead,   \* bound: frames one read completes
    MaxFails,        \* bound: where the history variable fails saturates
    MaxFrames,       \* bound: frames heard
    MaxTransmits     \* bound: Transmit commands issued

\* The delay after n doublings that no limit stops.
Unlimited[n \in Nat] == IF n = 0 THEN InitialBackoff ELSE 2 * Unlimited[n - 1]

ASSUME InterfaceAssumption ==
    /\ TxOk \in BOOLEAN
    /\ CmdCap \in Nat \ {0} /\ PacketCap \in Nat \ {0}
    /\ InitialBackoff \in Nat \ {0} /\ MaxBackoff \in Nat /\ MaxBackoff >= InitialBackoff
    /\ ConnectTimeout \in Nat \ {0} /\ Watchdog \in Nat \ {0}
    /\ FramesPerRead \in Nat /\ MaxFrames \in Nat /\ MaxTransmits \in Nat
    /\ MaxFails \in Nat /\ Unlimited[MaxFails] >= MaxBackoff

Shutdown == 0   \* the Shutdown command; n > 0 is the n-th Transmit

VARIABLES
    kind,       \* "tcp" or "serial", for good
    state,      \* where the task is
    backoff,    \* the delay before the next reconnection
    timer,      \* ticks left on the connect timeout or the backoff
    cmds,       \* the command channel
    handle,     \* TRUE while the InterfaceHandle (its sender) is alive
    tx,         \* the transmission being written: <<>> or <<n>>
    frames,     \* frames decoded by the last read and not yet sent on
    delivered,  \* packets the packet channel accepted, in order
    routed,     \* how many of them the router has taken
    routerOpen, \* FALSE once the router's receiver is dropped
    quiet,      \* ticks since last_data_time, saturating at Watchdog
    warned,     \* watchdog_warned
    issued,     \* history: Transmit commands issued
    aired,      \* history: transmissions written, in order
    ignored,    \* history: transmissions dropped
    heard,      \* history: frames heard
    fails,      \* history: waits in backoff since the last connection
    warnings    \* history: watchdog warnings since the last data

link == <<state, backoff, timer, fails>>
ctl  == <<cmds, handle, issued>>
tr   == <<tx, aired, ignored>>
rx   == <<kind, frames, heard>>
pkts == <<delivered, routed, routerOpen>>
dog  == <<quiet, warned, warnings>>
vars == <<link, ctl, tr, rx, pkts, dog>>

Init ==
    /\ kind \in {"tcp", "serial"}
    /\ state = (IF kind = "tcp" THEN "polling" ELSE "connecting")
    /\ backoff = InitialBackoff /\ timer = 0 /\ fails = 0
    /\ cmds = <<>> /\ handle = TRUE /\ issued = 0
    /\ tx = <<>> /\ aired = <<>> /\ ignored = {}
    /\ frames = <<>> /\ heard = 0
    /\ delivered = <<>> /\ routed = 0 /\ routerOpen = TRUE
    /\ quiet = 0 /\ warned = FALSE /\ warnings = 0

-----------------------------------------------------------------------------
(* Commands: what recv or try_recv finds.                                   *)

Transmitting == cmds # <<>> /\ Head(cmds) # Shutdown
\* A Shutdown command, or the closed and drained channel.
ToldToStop   == \/ cmds # <<>> /\ Head(cmds) = Shutdown
                \/ cmds = <<>> /\ ~handle

TakeCommand == cmds' = Tail(cmds) /\ UNCHANGED <<handle, issued>>
Ignore      == ignored' = ignored \cup {Head(cmds)} /\ UNCHANGED <<tx, aired>>

\* run() returns.
Stop ==
    /\ state' = "stopped" /\ timer' = 0
    /\ UNCHANGED <<backoff, fails>>

-----------------------------------------------------------------------------
(* Connecting and backing off (tcp.rs, run).                                *)

\* The connect attempt begins; one queued Transmit is dropped before it.
Poll ==
    /\ state = "polling" /\ ~ToldToStop
    /\ state' = "connecting" /\ timer' = ConnectTimeout
    /\ IF Transmitting THEN TakeCommand /\ Ignore ELSE UNCHANGED <<ctl, tr>>
    /\ UNCHANGED <<backoff, fails, rx, pkts, dog>>

\* Mutant: a successful connect leaves the backoff as it was.
ConnectOkKeepsBackoff ==
    /\ state = "connecting"
    /\ state' = "loop" /\ timer' = 0 /\ fails' = 0
    /\ quiet' = 0 /\ warned' = FALSE /\ warnings' = 0
    /\ UNCHANGED <<backoff, ctl, tr, rx, pkts>>

\* Connected (or the port opened): the KISS loop begins.
ConnectOk ==
    /\ state = "connecting"
    /\ state' = "loop" /\ timer' = 0
    /\ backoff' = InitialBackoff /\ fails' = 0
    /\ quiet' = 0 /\ warned' = FALSE /\ warnings' = 0
    /\ UNCHANGED <<ctl, tr, rx, pkts>>

\* The connection is lost or was never made: TCP waits and tries again, a
\* serial interface ends.
Lost ==
    IF kind = "tcp"
    THEN /\ state' = "backoff" /\ timer' = backoff
         /\ UNCHANGED <<backoff, fails>>
    ELSE Stop

ConnectFail ==
    /\ state = "connecting"
    /\ Lost
    /\ UNCHANGED <<ctl, tr, rx, pkts, dog>>

Double == IF 2 * backoff < MaxBackoff THEN 2 * backoff ELSE MaxBackoff

TryAgain ==
    /\ state' = "polling" /\ timer' = 0
    /\ backoff' = Double /\ fails' = IF fails < MaxFails THEN fails + 1 ELSE fails

BackoffOver ==
    /\ state = "backoff" /\ timer = 0
    /\ TryAgain
    /\ UNCHANGED <<ctl, tr, rx, pkts, dog>>

\* A Transmit is dropped, and ends the wait.
BackoffTransmit ==
    /\ state = "backoff" /\ Transmitting
    /\ TryAgain
    /\ TakeCommand /\ Ignore
    /\ UNCHANGED <<rx, pkts, dog>>

\* Mutant: None from recv is taken for no command.
StopOnlyOnCommand ==
    /\ state \in {"polling", "backoff", "loop"} /\ ToldToStop
    /\ IF cmds = <<>>
       THEN UNCHANGED vars
       ELSE /\ Stop
            /\ cmds' = Tail(cmds) /\ UNCHANGED <<handle, issued>>
            /\ UNCHANGED <<tr, rx, pkts, dog>>

\* Told to stop, wherever the task looks at its commands.
ObeyStop ==
    /\ state \in {"polling", "backoff", "loop"} /\ ToldToStop
    /\ Stop
    /\ cmds' = (IF cmds = <<>> THEN cmds ELSE Tail(cmds)) /\ UNCHANGED <<handle, issued>>
    /\ UNCHANGED <<tr, rx, pkts, dog>>

-----------------------------------------------------------------------------
(* The KISS loop (serial.rs, run_kiss_loop).                                *)

\* A read returns; the decoder completes k frames with it.
Read ==
    /\ state = "loop"
    /\ quiet' = 0 /\ warned' = FALSE /\ warnings' = 0
    /\ \E k \in 0 .. FramesPerRead :
          /\ heard + k <= MaxFrames
          /\ heard' = heard + k /\ frames' = [i \in 1 .. k |-> heard + i]
          /\ state' = IF k = 0 THEN "loop" ELSE "sending"
    /\ UNCHANGED <<kind, backoff, timer, fails, ctl, tr, pkts>>

Room == Len(delivered) - routed < PacketCap

\* Mutant: try_send: a packet that finds the channel full is dropped.
SendPacketOrDrop ==
    /\ state = "sending" /\ routerOpen
    /\ delivered' = IF Room THEN Append(delivered, Head(frames)) ELSE delivered
    /\ frames' = Tail(frames)
    /\ state' = IF Tail(frames) = <<>> THEN "loop" ELSE "sending"
    /\ UNCHANGED <<kind, backoff, timer, fails, ctl, tr, heard, routed, routerOpen, dog>>

\* packet_tx.send waits for room; commands are not looked at meanwhile.
SendPacket ==
    /\ state = "sending" /\ routerOpen /\ Room
    /\ delivered' = Append(delivered, Head(frames)) /\ frames' = Tail(frames)
    /\ state' = IF Tail(frames) = <<>> THEN "loop" ELSE "sending"
    /\ UNCHANGED <<kind, backoff, timer, fails, ctl, tr, heard, routed, routerOpen, dog>>

\* The packet channel is closed: PacketChannelClosed ends the interface.
SendClosed ==
    /\ state = "sending" /\ ~routerOpen
    /\ Stop
    /\ UNCHANGED <<ctl, tr, rx, pkts, dog>>

\* Eof or IoError.
ReadFail ==
    /\ state = "loop"
    /\ Lost
    /\ UNCHANGED <<ctl, tr, rx, pkts, dog>>

\* A Transmit command: ignored without tx_ok or without AX.25 data ...
TransmitIgnored ==
    /\ state = "loop" /\ Transmitting
    /\ TakeCommand /\ Ignore
    /\ UNCHANGED <<link, rx, pkts, dog>>

\* ... or written.
Transmit ==
    /\ state = "loop" /\ Transmitting /\ TxOk
    /\ TakeCommand
    /\ tx' = <<Head(cmds)>> /\ state' = "writing"
    /\ UNCHANGED <<backoff, timer, fails, aired, ignored, rx, pkts, dog>>

WriteOk ==
    /\ state = "writing"
    /\ aired' = aired \o tx /\ tx' = <<>> /\ state' = "loop"
    /\ UNCHANGED <<backoff, timer, fails, ctl, ignored, rx, pkts, dog>>

\* Mutant: after an error the loop goes on, and the frame is queued again.
WriteFailRetries ==
    /\ state = "writing"
    /\ state' = "loop"
    /\ cmds' = Append(cmds, tx[1]) /\ tx' = <<>>
    /\ UNCHANGED <<backoff, timer, fails, handle, issued, aired, ignored, rx, pkts, dog>>

\* WriteError: the transmission is lost with the connection.
WriteFail ==
    /\ state = "writing"
    /\ Lost
    /\ ignored' = ignored \cup {tx[1]} /\ tx' = <<>>
    /\ UNCHANGED <<ctl, aired, rx, pkts, dog>>

\* The watchdog's sleep is over.  While the flag is set it does nothing, again
\* and again, until data arrives: those rounds change no state.
WatchdogFires ==
    /\ state = "loop" /\ quiet = Watchdog /\ ~warned
    /\ warned' = TRUE /\ warnings' = warnings + 1
    /\ UNCHANGED <<link, ctl, tr, rx, pkts, quiet>>

-----------------------------------------------------------------------------
(* The environment: the registry's handle, the router, time.                *)

IssueTransmit ==
    /\ handle /\ state # "stopped" /\ Len(cmds) < CmdCap /\ issued < MaxTransmits
    /\ issued' = issued + 1 /\ cmds' = Append(cmds, issued + 1)
    /\ UNCHANGED <<handle, link, tr, rx, pkts, dog>>

\* shutdown_all: at most one Shutdown is issued.
IssueShutdown ==
    /\ handle /\ state # "stopped" /\ Len(cmds) < CmdCap /\ Shutdown \notin Range(cmds)
    /\ cmds' = Append(cmds, Shutdown)
    /\ UNCHANGED <<handle, issued, link, tr, rx, pkts, dog>>

DropHandle ==
    /\ handle /\ handle' = FALSE
    /\ UNCHANGED <<cmds, issued, link, tr, rx, pkts, dog>>

RouterTake ==
    /\ routerOpen /\ routed < Len(delivered)
    /\ routed' = routed + 1
    /\ UNCHANGED <<link, ctl, tr, rx, delivered, routerOpen, dog>>

RouterClose ==
    /\ routerOpen /\ routerOpen' = FALSE
    /\ UNCHANGED <<link, ctl, tr, rx, delivered, routed, dog>>

\* Something the task is waiting for is there: it runs before time passes.
Ready ==
    \/ state = "polling"
    \/ state \in {"loop", "backoff"} /\ (ToldToStop \/ Transmitting)
    \/ state = "sending" /\ (Room \/ ~routerOpen)
    \/ state = "loop" /\ quiet = Watchdog /\ ~warned

Timed == kind = "tcp" /\ state \in {"connecting", "backoff"}

Tick ==
    /\ state # "stopped" /\ ~Ready
    /\ Timed => timer > 0
    /\ timer' = IF Timed THEN timer - 1 ELSE timer
    /\ quiet' = IF quiet < Watchdog THEN quiet + 1 ELSE quiet
    /\ UNCHANGED <<state, backoff, fails, ctl, tr, rx, pkts, warned, warnings>>

Done == state = "stopped" /\ UNCHANGED vars

Link        == Poll \/ ConnectOk \/ ConnectFail \/ BackoffOver \/ BackoffTransmit \/ ObeyStop
Receiving   == Read \/ SendPacket \/ SendClosed \/ ReadFail \/ WatchdogFires
Sending     == TransmitIgnored \/ Transmit \/ WriteOk \/ WriteFail
Environment == IssueTransmit \/ IssueShutdown \/ DropHandle \/ RouterTake \/ RouterClose \/ Tick

Next == Link \/ Receiving \/ Sending \/ Environment \/ Done

Spec == Init /\ [][Next]_vars

\* The runtime polls what is ready, timers run, the connect attempt and a write
\* end, and the router (which never blocks) takes packets.
FairSpec ==
    /\ Spec
    /\ WF_vars(Tick) /\ WF_vars(Poll) /\ WF_vars(ObeyStop)
    /\ WF_vars(ConnectOk \/ ConnectFail) /\ WF_vars(BackoffOver) /\ WF_vars(BackoffTransmit)
    /\ WF_vars(SendPacket \/ SendClosed) /\ WF_vars(RouterTake)
    /\ WF_vars(Transmit \/ TransmitIgnored) /\ WF_vars(WriteOk \/ WriteFail)
    /\ WF_vars(WatchdogFires)

-----------------------------------------------------------------------------
(* Properties.                                                              *)

TypeOK ==
    /\ kind \in {"tcp", "serial"}
    /\ state \in {"polling", "connecting", "loop", "sending", "writing", "backoff", "stopped"}
    /\ backoff \in InitialBackoff .. MaxBackoff /\ timer \in Nat
    /\ cmds \in Seq(Nat) /\ Len(cmds) <= CmdCap /\ handle \in BOOLEAN
    /\ tx \in Seq(Nat \ {0}) /\ aired \in Seq(Nat \ {0}) /\ ignored \subseteq Nat \ {0}
    /\ frames \in Seq(Nat) /\ delivered \in Seq(Nat)
    /\ routed \in 0 .. Len(delivered) /\ routerOpen \in BOOLEAN
    /\ quiet \in 0 .. Watchdog /\ warned \in BOOLEAN
    /\ issued \in Nat /\ heard \in Nat /\ fails \in Nat /\ warnings \in Nat
    /\ (state = "writing") <=> (tx # <<>>)
    /\ state = "sending" => frames # <<>>

\* The delay doubles with every wait since the last successful connection, from
\* InitialBackoff up to MaxBackoff.
BackoffFollowsFailures ==
    backoff = IF Unlimited[fails] < MaxBackoff THEN Unlimited[fails] ELSE MaxBackoff

\* No frame that was decoded is lost or reordered on its way to the router while
\* the interface runs: a full packet channel holds the interface up instead,
\* and reads cut off by commands lose nothing (unlike the APRS-IS client's).
NoFrameLost ==
    state # "stopped" => delivered \o frames = [i \in 1 .. heard |-> i]

\* Transmissions are written in the order they were asked for and never twice,
\* and each one asked for is queued, being written, written, or dropped.
TransmitOnce ==
    /\ \A i, j \in 1 .. Len(aired) : i < j => aired[i] < aired[j]
    /\ Range(aired) \cap ignored = {}
    /\ 1 .. issued = Range(aired) \cup ignored \cup Range(tx) \cup (Range(cmds) \ {Shutdown})

\* One silence brings one warning, and only when it has lasted long enough.
OneWarningPerSilence ==
    warnings <= 1 /\ (warnings = 1 => quiet = Watchdog)

\* A Shutdown command, or the loss of the handle, ends the interface, whatever
\* the router's backlog, the connection's state or the commands queued before.
StopsWhenTold == (Shutdown \in Range(cmds) \/ ~handle) ~> state = "stopped"
=============================================================================
