------------------------------- MODULE Gateway -------------------------------
(***************************************************************************)
(* The running program of src/src/main.rs (async_main): the radio           *)
(* interfaces, the APRS-IS client, the router, the Rx-iGate, dashboard and  *)
(* beacon tasks, the channels between them, and the shutdown sequence.      *)
(*                                                                          *)
(*   interfaces --send--> source --router--> igateQ --igate--> writeQ       *)
(*   client --try_send--^            \-----> dashQ               | |        *)
(*      ^-----------------------------------------recv-----------/ beacon   *)
(*                                                                          *)
(* A channel is closed when its senders are gone, and rejects when its      *)
(* receiver is: which tasks hold which ends is what the shutdown is about.  *)
(* Packets carry only their origin, "rf" or "is" (source_interface is       *)
(* "APRSIS"); the connection inside the client and the interfaces is that   *)
(* of AprsIsClient and KissInterface, reduced to when they use a channel.   *)
(***************************************************************************)
EXTENDS Integers, Sequences, FiniteSets, Functions

CONSTANTS
    Interfaces,    \* the radio interfaces of the configuration
    SourceCap,     \* ROUTER_CHANNEL_SIZE
    ConsumerCap,   \* CONSUMER_CHANNEL_SIZE
    WriteCap,      \* APRSIS_WRITE_CHANNEL_SIZE
    MaxRf,         \* bound: packets heard by radio
    MaxIs,         \* bound: packets heard from APRS-IS
    MaxBeacons     \* bound: beacons fired

ASSUME GatewayAssumption ==
    /\ IsFiniteSet(Interfaces)
    /\ SourceCap \in Nat \ {0} /\ ConsumerCap \in Nat \ {0} /\ WriteCap \in Nat \ {0}
    /\ MaxRf \in Nat /\ MaxIs \in Nat /\ MaxBeacons \in Nat

VARIABLES
    config,   \* the sections the configuration has besides the interfaces
    main,     \* "running", "awaitClient", "awaitRouter", "done"
    iface,    \* iface[i]: "up", "sending" (a packet waits for room), "stopped"
    client,   \* "connecting", "connected", "backoff", "stopped"
    router,   \* "running", "ended"
    igate,    \* "recv", "sending" (a gated line waits for room), "ended"
    beacon,   \* "timer", "sending", "ended"
    dash,     \* "recv", "ended"
    source,   \* the router's channel: a sequence of origins
    igateQ,   \* the consumer channel of the igate
    dashQ,    \* the consumer channel of the dashboard
    writeQ,   \* the APRS-IS write channel: origins, or "beacon"
    line,     \* the origin of the line the igate is sending
    uplinked, \* history: origins of the lines the client took
    rfs, iss, beacons   \* history: packets heard and beacons fired

tasks  == <<config, main, iface, client, router, igate, beacon, dash>>
queues == <<source, igateQ, dashQ, writeQ, line>>
counts == <<uplinked, rfs, iss, beacons>>
vars   == <<tasks, queues, counts>>

Init ==
    /\ config \in SUBSET {"aprsis", "web"}
    /\ main = "running"
    /\ iface = [i \in Interfaces |-> "up"]
    /\ client = (IF "aprsis" \in config THEN "connecting" ELSE "stopped")
    /\ router = "running" /\ igate = "recv" /\ beacon = "timer"
    /\ dash = (IF "web" \in config THEN "recv" ELSE "ended")
    /\ source = <<>> /\ igateQ = <<>> /\ dashQ = <<>> /\ writeQ = <<>> /\ line = "none"
    /\ uplinked = {} /\ rfs = 0 /\ iss = 0 /\ beacons = 0

-----------------------------------------------------------------------------
(* Who holds which end of the channels.                                     *)

\* main dropped its own packet_tx, so every sender left is a task's, and the
\* router outlives them all: their sends are never refused.
SourceClosed == client = "stopped" /\ \A i \in Interfaces : iface[i] = "stopped"

\* Senders: main's own until the shutdown, and the igate's and the beacon's.
WriteClosed == main # "running" /\ igate = "ended" /\ beacon = "ended"

\* write_rx lives in the client; without [aprsis] it is dropped at the start.
WriteRejects == client = "stopped"

-----------------------------------------------------------------------------
(* Radio interfaces.                                                        *)

\* A frame is decoded: the interface calls packet_tx.send.
Hear(i) ==
    /\ iface[i] = "up" /\ rfs < MaxRf
    /\ rfs' = rfs + 1 /\ iface' = [iface EXCEPT ![i] = "sending"]
    /\ UNCHANGED <<config, main, client, router, igate, beacon, dash, queues,
                   uplinked, iss, beacons>>

\* There is room in the channel: send returns.
Sent(i) ==
    /\ iface[i] = "sending" /\ Len(source) < SourceCap
    /\ source' = Append(source, "rf") /\ iface' = [iface EXCEPT ![i] = "up"]
    /\ UNCHANGED <<config, main, client, router, igate, beacon, dash,
                   igateQ, dashQ, writeQ, line, counts>>

\* The interface ends: it is told to, or lost a port it does not reopen.  While
\* it waits in send it looks at no command.
InterfaceStops(i) ==
    /\ iface[i] = "up"
    /\ iface' = [iface EXCEPT ![i] = "stopped"]
    /\ UNCHANGED <<config, main, client, router, igate, beacon, dash, queues, counts>>

-----------------------------------------------------------------------------
(* The APRS-IS client.                                                      *)

Connects ==
    /\ client = "connecting" /\ client' = "connected"
    /\ UNCHANGED <<config, main, iface, router, igate, beacon, dash, queues, counts>>

Breaks ==
    /\ client \in {"connecting", "connected"} /\ client' = "backoff"
    /\ UNCHANGED <<config, main, iface, router, igate, beacon, dash, queues, counts>>

Reconnects ==
    /\ client = "backoff" /\ client' = "connecting"
    /\ UNCHANGED <<config, main, iface, router, igate, beacon, dash, queues, counts>>

\* A packet line arrives: try_send, which drops it when the channel is full.
ClientHears ==
    /\ client = "connected" /\ iss < MaxIs
    /\ iss' = iss + 1
    /\ source' = (IF Len(source) < SourceCap THEN Append(source, "is") ELSE source)
    /\ UNCHANGED <<tasks, igateQ, dashQ, writeQ, line, uplinked, rfs, beacons>>

\* Mutant: nothing is taken while there is no connection.
TakesWhenConnected ==
    /\ client = "connected" /\ writeQ # <<>>
    /\ uplinked' = uplinked \cup {Head(writeQ)} /\ writeQ' = Tail(writeQ)
    /\ UNCHANGED <<tasks, source, igateQ, dashQ, line, rfs, iss, beacons>>

\* The next line is taken: written when connected, kept in the backoff.
ClientTakes ==
    /\ client \in {"connected", "backoff"} /\ writeQ # <<>>
    /\ uplinked' = uplinked \cup {Head(writeQ)} /\ writeQ' = Tail(writeQ)
    /\ UNCHANGED <<tasks, source, igateQ, dashQ, line, rfs, iss, beacons>>

\* recv returns None: the write channel is closed and drained.
ClientStops ==
    /\ client \in {"connected", "backoff"} /\ writeQ = <<>> /\ WriteClosed
    /\ client' = "stopped"
    /\ UNCHANGED <<config, main, iface, router, igate, beacon, dash, queues, counts>>

-----------------------------------------------------------------------------
(* The router and the dashboard's consumer task.                            *)

\* try_send: p is dropped for a consumer that is gone or whose channel is full.
Offer(q, alive, p) == IF alive /\ Len(q) < ConsumerCap THEN Append(q, p) ELSE q

\* Mutant: send in the place of try_send.
RouteWaiting ==
    /\ router = "running" /\ source # <<>>
    /\ igate # "ended" => Len(igateQ) < ConsumerCap
    /\ source' = Tail(source)
    /\ igateQ' = Offer(igateQ, igate # "ended", Head(source))
    /\ dashQ'  = Offer(dashQ, dash # "ended", Head(source))
    /\ UNCHANGED <<tasks, writeQ, line, counts>>

Route ==
    /\ router = "running" /\ source # <<>>
    /\ source' = Tail(source)
    /\ igateQ' = Offer(igateQ, igate # "ended", Head(source))
    /\ dashQ'  = Offer(dashQ, dash # "ended", Head(source))
    /\ UNCHANGED <<tasks, writeQ, line, counts>>

RouterEnds ==
    /\ router = "running" /\ source = <<>> /\ SourceClosed
    /\ router' = "ended"
    /\ UNCHANGED <<config, main, iface, client, igate, beacon, dash, queues, counts>>

DashTakes ==
    /\ dash = "recv" /\ dashQ # <<>>
    /\ dashQ' = Tail(dashQ)
    /\ UNCHANGED <<tasks, source, igateQ, writeQ, line, counts>>

DashEnds ==
    /\ dash = "recv" /\ dashQ = <<>> /\ router = "ended"
    /\ dash' = "ended"
    /\ UNCHANGED <<config, main, iface, client, router, igate, beacon, queues, counts>>

-----------------------------------------------------------------------------
(* The Rx-iGate task.                                                       *)

\* Mutant: the origin is not looked at.
IgnoresNothing(p) == FALSE
\* Only packets from radio interfaces are gated.
NotGated(p) == p = "is"

\* Mutant: break in the place of continue.
IgateSkipsByEnding ==
    /\ igate = "recv" /\ igateQ # <<>>
    /\ igateQ' = (IF NotGated(Head(igateQ)) THEN <<>> ELSE Tail(igateQ))
    /\ igate' = (IF NotGated(Head(igateQ)) THEN "ended" ELSE "recv")
    /\ UNCHANGED <<config, main, iface, client, router, beacon, dash,
                   source, dashQ, writeQ, line, counts>>

\* A packet is skipped, or gate_to_aprsis drops it.
IgateSkips ==
    /\ igate = "recv" /\ igateQ # <<>>
    /\ igateQ' = Tail(igateQ)
    /\ UNCHANGED <<tasks, source, dashQ, writeQ, line, counts>>

\* gate_to_aprsis returns a line: the task calls aprsis_tx.send.
IgateGates ==
    /\ igate = "recv" /\ igateQ # <<>> /\ ~NotGated(Head(igateQ))
    /\ igateQ' = Tail(igateQ) /\ line' = Head(igateQ) /\ igate' = "sending"
    /\ UNCHANGED <<config, main, iface, client, router, beacon, dash,
                   source, dashQ, writeQ, counts>>

IgateSends ==
    /\ igate = "sending" /\ ~WriteRejects /\ Len(writeQ) < WriteCap
    /\ writeQ' = Append(writeQ, line) /\ line' = "none" /\ igate' = "recv"
    /\ UNCHANGED <<config, main, iface, client, router, beacon, dash,
                   source, igateQ, dashQ, counts>>

\* send fails and breaks the loop, or the router has ended: igate_rx is dropped.
IgateEnds ==
    /\ \/ igate = "sending" /\ WriteRejects
       \/ igate = "recv" /\ igateQ = <<>> /\ router = "ended"
    /\ igate' = "ended" /\ igateQ' = <<>> /\ line' = "none"
    /\ UNCHANGED <<config, main, iface, client, router, beacon, dash,
                   source, dashQ, writeQ, counts>>

-----------------------------------------------------------------------------
(* The beacon task.                                                         *)

BeaconFires ==
    /\ beacon = "timer" /\ beacons < MaxBeacons
    /\ beacons' = beacons + 1 /\ beacon' = "sending"
    /\ UNCHANGED <<config, main, iface, client, router, igate, dash, queues,
                   uplinked, rfs, iss>>

BeaconSends ==
    /\ beacon = "sending" /\ ~WriteRejects /\ Len(writeQ) < WriteCap
    /\ writeQ' = Append(writeQ, "beacon") /\ beacon' = "timer"
    /\ UNCHANGED <<config, main, iface, client, router, igate, dash,
                   source, igateQ, dashQ, line, counts>>

BeaconEnds ==
    /\ beacon = "sending" /\ WriteRejects
    /\ beacon' = "ended"
    /\ UNCHANGED <<config, main, iface, client, router, igate, dash, queues, counts>>

-----------------------------------------------------------------------------
(* main's shutdown sequence.                                                *)

\* ctrl_c: a Shutdown to every interface, and aprsis_write_tx is dropped.
Interrupt ==
    /\ main = "running" /\ main' = "awaitClient"
    /\ UNCHANGED <<config, iface, client, router, igate, beacon, dash, queues, counts>>

\* Mutant: the tasks are left running.
AbortsNothing ==
    /\ main' = "awaitRouter"
    /\ UNCHANGED <<config, iface, client, router, igate, beacon, dash, queues, counts>>

\* igate, beacon and dashboard tasks are aborted; main then waits for the router.
Abort ==
    /\ main' = "awaitRouter"
    /\ igate' = "ended" /\ beacon' = "ended" /\ dash' = "ended"
    /\ igateQ' = <<>> /\ dashQ' = <<>> /\ line' = "none"
    /\ UNCHANGED <<config, iface, client, router, source, writeQ, counts>>

\* The wait for the client: its handle is ready (or there is none), or timeout.
ClientJoined   == main = "awaitClient" /\ client = "stopped" /\ Abort
ClientTimesOut == main = "awaitClient" /\ client # "stopped" /\ Abort

\* The wait for the router, which is the last: it ended, or timeout.
Returns ==
    /\ main' = "done"
    /\ UNCHANGED <<config, iface, client, router, igate, beacon, dash, queues, counts>>
RouterJoined   == main = "awaitRouter" /\ router = "ended" /\ Returns
RouterTimesOut == main = "awaitRouter" /\ router # "ended" /\ Returns

\* async_main has returned: the runtime is dropped with every task.
Done == main = "done" /\ UNCHANGED vars

InterfaceStep == \E i \in Interfaces : Hear(i) \/ Sent(i) \/ InterfaceStops(i)
ClientStep == Connects \/ Breaks \/ Reconnects \/ ClientHears \/ ClientTakes \/ ClientStops
RouterStep == Route \/ RouterEnds
DashStep   == DashTakes \/ DashEnds
IgateStep  == IgateSkips \/ IgateGates \/ IgateSends \/ IgateEnds
BeaconStep == BeaconFires \/ BeaconSends \/ BeaconEnds
MainStep   == Interrupt \/ ClientJoined \/ ClientTimesOut \/ RouterJoined \/ RouterTimesOut

Next ==
    \/ /\ main # "done"
       /\ \/ InterfaceStep \/ ClientStep \/ RouterStep
          \/ DashStep \/ IgateStep \/ BeaconStep \/ MainStep
    \/ Done

Spec == Init /\ [][Next]_vars

-----------------------------------------------------------------------------
(* Fairness.  Up(A): the step A of a task while the runtime is there.       *)

Up(A) == main # "done" /\ A

\* Tasks that are ready are polled.  The channel's queue of waiting senders is
\* first come, first served, hence the strong fairness of Sent.  Nothing is
\* assumed of the client, of what is heard, of main, or of a radio.
TaskFairness ==
    /\ \A i \in Interfaces : SF_vars(Up(Sent(i)))
    /\ WF_vars(Up(RouterStep)) /\ WF_vars(Up(DashStep))
    /\ WF_vars(Up(IgateSkips \/ IgateGates)) /\ WF_vars(Up(IgateEnds))
    /\ WF_vars(Up(BeaconEnds))
FairSpec == Spec /\ TaskFairness

\* The client: a connection attempt ends, the backoff timer fires, and recv is
\* polled whenever the client is connected or backs off; in the backoff a ready
\* recv precedes the timer, so that a client that only flaps is fair as well.
\* A socket write is taken to return.
ClientFairness ==
    /\ WF_vars(Up(Connects \/ Breaks)) /\ WF_vars(Up(Reconnects))
    /\ SF_vars(Up(ClientTakes)) /\ SF_vars(Up(ClientStops))
    /\ SF_vars(Up(IgateSends)) /\ SF_vars(Up(BeaconSends))

\* The shutdown: a signalled interface obeys when it is not in send, the wait for
\* the client ends when its handle is ready, or by the timeout, and the wait for
\* the router when that has ended.  Of RouterTimesOut nothing is assumed.
ShutdownFairness ==
    /\ \A i \in Interfaces : SF_vars(Up(main # "running" /\ InterfaceStops(i)))
    /\ WF_vars(ClientJoined \/ ClientTimesOut) /\ WF_vars(RouterJoined)

-----------------------------------------------------------------------------
(* Properties.                                                              *)

TypeOK ==
    /\ config \subseteq {"aprsis", "web"}
    /\ main \in {"running", "awaitClient", "awaitRouter", "done"}
    /\ iface \in [Interfaces -> {"up", "sending", "stopped"}]
    /\ client \in {"connecting", "connected", "backoff", "stopped"}
    /\ router \in {"running", "ended"}
    /\ igate \in {"recv", "sending", "ended"}
    /\ beacon \in {"timer", "sending", "ended"}
    /\ dash \in {"recv", "ended"}
    /\ source \in Seq({"rf", "is"}) /\ Len(source) <= SourceCap
    /\ igateQ \in Seq({"rf", "is"}) /\ Len(igateQ) <= ConsumerCap
    /\ dashQ \in Seq({"rf", "is"}) /\ Len(dashQ) <= ConsumerCap
    /\ writeQ \in Seq({"rf", "is", "beacon"}) /\ Len(writeQ) <= WriteCap
    /\ line \in {"none", "rf", "is"}
    /\ uplinked \subseteq {"rf", "is", "beacon"}
    /\ rfs \in 0 .. MaxRf /\ iss \in 0 .. MaxIs /\ beacons \in 0 .. MaxBeacons

\* No packet that came from APRS-IS is sent back to APRS-IS: the feed from the
\* client through the router and the igate to the client is not a loop.
OnlyRadioIsGated == "is" \notin uplinked \cup Range(writeQ) \cup {line}

\* With an [aprsis] section the pipeline stays up until main aborts it: neither
\* radios that stop nor a connection that breaks ends the client, the router,
\* the igate, the beacon or the dashboard task.  (So the shutdown signal of
\* dropping aprsis_write_tx does not end the client either: the two tasks that
\* hold clones of it end only after the client does.)
StaysUpUntilAbort ==
    "aprsis" \in config /\ main \in {"running", "awaitClient"} =>
        /\ client # "stopped" /\ router = "running"
        /\ igate # "ended" /\ beacon # "ended" /\ ("web" \in config => dash # "ended")

\* A radio interface that has a packet for the router gets rid of it, however
\* long the APRS-IS server, and with it the igate, is stuck.
RadioNeverStuck ==
    \A i \in Interfaces : iface[i] = "sending" ~> iface[i] # "sending" \/ main = "done"

\* The igate's line is taken, or refused, also while the server is away: the
\* client keeps taking lines in its backoff.
IgateNeverStuck == ClientFairness =>
    (igate = "sending" ~> igate # "sending" \/ main = "done")

\* Once interrupted, main returns; and it needs no timeout on the router for
\* that: the aborts close the write channel, that ends the client, and with the
\* interfaces stopped the router runs out of senders.
ShutdownCompletes == ClientFairness /\ ShutdownFairness =>
    (main = "awaitClient" ~> main = "done")
=============================================================================
