-------------------------------- MODULE Wiring --------------------------------
(***************************************************************************)
(* From the configuration to running interfaces and back: the loop of       *)
(* src/src/main.rs over the [[interface]] sections, the registry of handles *)
(* (src/src/interface/mod.rs), what the tasks do with commands, the erlang  *)
(* channels (src/src/erlang.rs) that are made by the way, and shutdown_all. *)
(*                                                                          *)
(* An interface is the place of its section.  The program only shuts down   *)
(* through the registry: that its users also look handles up and transmit   *)
(* is taken from the operations it offers.  A registry may also be filled   *)
(* by hand, with the kernel AX.25 interfaces that the loop leaves out.      *)
(***************************************************************************)
EXTENDS Integers, SequencesExt

CONSTANTS
    InterfaceConfig, \* sections: type, callsign, device, host, port, tx_ok, igate_group
    mycall,
    CmdCap,          \* CMD_CHANNEL_SIZE
    MaxHeard,        \* bound: packets heard by radio, and from APRS-IS
    MaxAsked         \* bound: commands sent

VARIABLES
    by,       \* the registry is filled by "main" or by "hand"
    phase,    \* "starting", "up", "closing", "closed"
    next,     \* section that the loop is at; handle that shutdown_all is at
    handles,  \* InterfaceRegistry.handles: metadata and place, in the order of registration
    tasks,    \* interfaces whose task runs
    cmds,     \* command channel of each
    channels, \* ErlangMonitor.channels: a name and its rx_packets
    asked,    \* history: commands sent
    heard     \* history: packets received on each interface, and from APRS-IS

vars == <<by, phase, next, handles, tasks, cmds, channels, asked, heard>>

Sections == DOMAIN InterfaceConfig
APRSIS   == 0

Init ==
    /\ by \in {"main", "hand"} /\ phase = "starting" /\ next = 1
    /\ handles = <<>> /\ tasks = {} /\ cmds = [i \in Sections |-> <<>>]
    /\ channels = <<>> /\ asked = 0
    /\ heard = [i \in Sections \cup {APRSIS} |-> 0]

-----------------------------------------------------------------------------
(* Start-up.                                                                *)

CallOf(i) ==
    IF InterfaceConfig[i].callsign = {} THEN mycall
    ELSE CHOOSE c \in InterfaceConfig[i].callsign : TRUE

\* The erlang channel of an interface is named for the callsign and the place;
\* a packet carries the callsign of the interface that received it.
ChannelName(i) == IF i = APRSIS THEN <<"APRSIS">> ELSE <<CallOf(i), i>>
SourceName(i)  == IF i = APRSIS THEN <<"APRSIS">> ELSE <<CallOf(i)>>

add_channel(name) == channels' = Append(channels, [name |-> name, rx |-> 0])

\* A section without what its type needs is skipped, and so are other types.
Complete(i) ==
    LET s == InterfaceConfig[i]
    IN  \/ s.type = "serial" /\ s.device
        \/ s.type = "tcp" /\ s.host /\ s.port

InterfaceMetadata(i, type) ==
    [place |-> i, callsign |-> CallOf(i), iface_type |-> type,
     tx_ok |-> InterfaceConfig[i].tx_ok, igate_group |-> InterfaceConfig[i].igate_group]
SerialInterface(i)     == InterfaceMetadata(i, "serial")
TcpKissInterface(i)    == InterfaceMetadata(i, "tcp")
Ax25KernelInterface(i) == InterfaceMetadata(i, "ax25")

\* The handle is registered and the task is spawned.
register(iface) == handles' = Append(handles, iface) /\ tasks' = tasks \cup {iface.place}

Places(some) == {h.place : h \in some}

StartSection ==
    /\ by = "main" /\ phase = "starting" /\ next <= Len(InterfaceConfig)
    /\ add_channel(ChannelName(next))
    /\ IF Complete(next)
       THEN register(IF InterfaceConfig[next].type = "tcp" THEN TcpKissInterface(next)
                                                          ELSE SerialInterface(next))
       ELSE UNCHANGED <<handles, tasks>>
    /\ next' = next + 1
    /\ UNCHANGED <<by, phase, cmds, asked, heard>>

RegisterByHand(i) ==
    /\ by = "hand" /\ phase = "starting" /\ i \notin Places(Range(handles))
    /\ InterfaceConfig[i].type = "ax25" /\ register(Ax25KernelInterface(i))
    /\ UNCHANGED <<by, phase, next, cmds, channels, asked, heard>>

\* The APRS-IS client, if it is configured, gets its channel after the interfaces.
Started ==
    /\ phase = "starting" /\ (by = "main" => next > Len(InterfaceConfig))
    /\ phase' = "up"
    /\ \/ by = "main" /\ add_channel(ChannelName(APRSIS))
       \/ UNCHANGED channels
    /\ UNCHANGED <<by, next, handles, tasks, cmds, asked, heard>>

-----------------------------------------------------------------------------
(* The igate task counts what it receives.                                  *)

\* get_mut: the first channel of that name.
get_mut(name) == SelectInSeq(channels, LAMBDA c : c.name = name)

record_rx(source_interface) ==
    IF get_mut(source_interface) = 0 THEN UNCHANGED channels
    ELSE channels' = [channels EXCEPT ![get_mut(source_interface)].rx = @ + 1]

\* A packet by radio, or from APRS-IS.
Hear(i) ==
    /\ by = "main" /\ phase = "up" /\ heard[i] < MaxHeard
    /\ IF i = APRSIS THEN get_mut(ChannelName(APRSIS)) # 0 ELSE i \in tasks
    /\ heard' = [heard EXCEPT ![i] = @ + 1] /\ record_rx(SourceName(i))
    /\ UNCHANGED <<by, phase, next, handles, tasks, cmds, asked>>

-----------------------------------------------------------------------------
(* The registry.                                                            *)

\* The first of that callsign, if there is one; all that may transmit; all of a group.
find_by_callsign(call) ==
    {handles[k] : k \in {SelectInSeq(handles, LAMBDA h : h.callsign = call)} \ {0}}
tx_capable            == {h \in Range(handles) : h.tx_ok}
by_igate_group(group) == {h \in Range(handles) : h.igate_group = group}

Found ==
    tx_capable \cup UNION {find_by_callsign(CallOf(i)) \cup by_igate_group(InterfaceConfig[i].igate_group)
                               : i \in Sections}

\* send().await: the channel has room, or its receiver is gone and it fails.
CanSend(i) == i \in tasks => Len(cmds[i]) < CmdCap
Queued(i, cmd) == IF i \in tasks THEN [cmds EXCEPT ![i] = Append(@, cmd)] ELSE cmds

\* transmit, or shutdown, through a handle.
Ask(i, cmd) ==
    /\ phase = "up" /\ i \in Places(Found) /\ asked < MaxAsked /\ asked' = asked + 1
    /\ CanSend(i) /\ cmds' = Queued(i, cmd)
    /\ UNCHANGED <<by, phase, next, handles, tasks, channels, heard>>

Interrupt ==
    /\ phase = "up" /\ phase' = "closing" /\ next' = 1
    /\ UNCHANGED <<by, handles, tasks, cmds, channels, asked, heard>>

\* Mutant: the first handle whose task is gone ends the loop.
ShutdownUntilError ==
    /\ phase = "closing" /\ next <= Len(handles)
    /\ LET i == handles[next].place
       IN  /\ CanSend(i) /\ cmds' = Queued(i, "Shutdown")
           /\ next' = IF i \in tasks THEN next + 1 ELSE Len(handles) + 1
    /\ UNCHANGED <<by, phase, handles, tasks, channels, asked, heard>>
\* shutdown_all: one handle after the other, whatever becomes of each.
ShutdownNext ==
    /\ phase = "closing" /\ next <= Len(handles)
    /\ CanSend(handles[next].place) /\ cmds' = Queued(handles[next].place, "Shutdown")
    /\ next' = next + 1
    /\ UNCHANGED <<by, phase, handles, tasks, channels, asked, heard>>

ShutdownOver ==
    /\ phase = "closing" /\ next > Len(handles) /\ phase' = "closed"
    /\ UNCHANGED <<by, next, handles, tasks, cmds, channels, asked, heard>>

-----------------------------------------------------------------------------
(* The tasks.                                                               *)

Ends(i) == tasks' = tasks \ {i} /\ cmds' = [cmds EXCEPT ![i] = <<>>]

\* A packet is sent or not; the kernel interface has nowhere to send it.
TakeTransmit(i) ==
    /\ i \in tasks /\ cmds[i] # <<>> /\ Head(cmds[i]) = "Transmit"
    /\ cmds' = [cmds EXCEPT ![i] = Tail(@)]
    /\ UNCHANGED <<by, phase, next, handles, tasks, channels, asked, heard>>
TakeShutdown(i) ==
    /\ i \in tasks /\ cmds[i] # <<>> /\ Head(cmds[i]) = "Shutdown"
    /\ Ends(i)
    /\ UNCHANGED <<by, phase, next, handles, channels, asked, heard>>

\* The port cannot be opened, or fails: a serial interface does not try again.
SerialFails(i) ==
    /\ i \in tasks /\ InterfaceConfig[i].type = "serial"
    /\ Ends(i)
    /\ UNCHANGED <<by, phase, next, handles, channels, asked, heard>>

Done == phase = "closed" /\ (\A i \in tasks : cmds[i] = <<>>) /\ UNCHANGED vars

Next ==
    \/ StartSection \/ Started \/ Hear(APRSIS) \/ Interrupt
    \/ ShutdownNext \/ ShutdownOver \/ Done
    \/ \E i \in Sections : \/ RegisterByHand(i) \/ Hear(i)
                           \/ Ask(i, "Transmit") \/ Ask(i, "Shutdown")
                           \/ TakeTransmit(i) \/ TakeShutdown(i) \/ SerialFails(i)

-----------------------------------------------------------------------------
TypeOK ==
    /\ phase \in {"starting", "up", "closing", "closed"} /\ next \in 1 .. Len(InterfaceConfig) + 1
    /\ \A k \in DOMAIN handles : handles[k] = InterfaceMetadata(handles[k].place, handles[k].iface_type)
    /\ tasks \subseteq Places(Range(handles))
    /\ \A i \in Sections : Len(cmds[i]) <= CmdCap

\* Once shutdown_all is over every interface that was started has been told to
\* stop, or has stopped: neither a full command channel nor a task that is gone
\* in the middle of the list keeps the word from those behind it.
ShutdownReaches ==
    phase = "closed" => \A i \in tasks : "Shutdown" \in Range(cmds[i])

\* "Record erlang rx for the source interface" (main.rs:319)
RxRecorded ==
    (by = "main" /\ phase = "up") =>
        \A i \in DOMAIN heard :
            heard[i] > 0 => channels[get_mut(ChannelName(i))].rx = heard[i]
=============================================================================
