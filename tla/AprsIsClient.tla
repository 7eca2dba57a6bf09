---------------------------- MODULE AprsIsClient ----------------------------
(***************************************************************************)
(* The APRS-IS client of src/src/aprsis.rs: one task that keeps a TCP       *)
(* connection to one of several servers, logs in, writes the lines that    *)
(* other tasks queue on the write channel, and hands the lines it reads to  *)
(* the router's packet channel.                                             *)
(*                                                                          *)
(* The task is a single coroutine, so the code between two awaits is one    *)
(* step and `state` names the await the task is suspended at:               *)
(*    connecting  timeout(CONNECT_TIMEOUT, TcpStream::connect)              *)
(*    login       write_all of the login line                               *)
(*    flushing    write_all of a line of pending_writes, or the flush       *)
(*    select      select! of timeout(heartbeat, read_line) and recv         *)
(*    writing     write_all of the line in hand, inside the recv branch     *)
(*    backoff     select! of sleep(RECONNECT_BACKOFF) and recv              *)
(*    stopped     run() has returned                                        *)
(*                                                                          *)
(* Lines to write are numbered in the order the write channel accepted      *)
(* them.  The server's byte stream is a stream of fragments: fragment       *)
(* 2n - 1 is the beginning of line n and fragment 2n its end with the line  *)
(* feed, so that a line may arrive in two reads.  Time is counted in ticks, *)
(* and at most one timer is armed at any await.                             *)
(***************************************************************************)
EXTENDS Queues, FiniteSets

CONSTANTS
    NumServers,      \* servers.len(); 0 means run() returns at once
    WriteCap,        \* capacity of the write channel
    PacketCap,       \* capacity of the router's packet channel
    BatchMax,        \* WRITE_BATCH_MAX
    Heartbeat,       \* heartbeat_timeout, in ticks
    Backoff,         \* RECONNECT_BACKOFF, in ticks
    ConnectTimeout,  \* CONNECT_TIMEOUT, in ticks
    Comments,        \* the server lines that begin with '#'
    MaxLines,        \* bound: lines offered to the write channel
    MaxServerLines,  \* bound: lines the server sends
    MaxAge           \* bound: where the history variable age saturates

ASSUME ClientAssumption ==
    /\ NumServers \in Nat \ {0}
    /\ WriteCap \in Nat \ {0} /\ PacketCap \in Nat \ {0} /\ BatchMax \in Nat \ {0}
    /\ Heartbeat \in Nat \ {0} /\ Backoff \in Nat \ {0} /\ ConnectTimeout \in Nat \ {0}
    /\ Comments \subseteq Nat
    /\ MaxLines \in Nat /\ MaxServerLines \in Nat
    /\ MaxAge \in Nat /\ MaxAge > Heartbeat /\ MaxAge > Backoff

VARIABLES
    state,      \* the await the task is suspended at
    server,     \* server_idx
    timer,      \* ticks left on the armed timer, 0 when none is armed
    writeRx,    \* lines in the write channel
    writers,    \* TRUE while a Sender of the write channel is alive
    pending,    \* pending_writes
    hand,       \* the line taken from the channel and being written: <<>> or <<n>>
    batch,      \* batch_count
    sent,       \* fragments the server has sent
    read,       \* fragments read_line has consumed, or a disconnect discarded
    partial,    \* TRUE when line_buf holds the beginning of a line
    eof,        \* the server has closed its side of the connection
    delivered,  \* packets the packet channel accepted, in order
    routed,     \* how many of them the router has taken
    routerOpen, \* FALSE once the router's receiver is dropped
    dash,       \* aprsis_connected and aprsis_server of the dashboard
    accepted,   \* history: lines the write channel has accepted
    wire,       \* history: lines written to a server, in order
    lost,       \* history: lines a failed write discarded
    age         \* history: ticks since the last complete line, or since the break

conn  == <<state, server, timer, dash>>
out   == <<writeRx, writers, pending, hand, batch, accepted, wire, lost>>
in    == <<sent, read, partial, eof>>
pkts  == <<delivered, routed, routerOpen>>
vars  == <<conn, out, in, pkts, age>>

Timed     == {"connecting", "select", "backoff"}
Connected == {"login", "flushing", "select", "writing"}

LineOf(k) == (k + 1) \div 2
IsHead(k) == k % 2 = 1

Init ==
    /\ state = "connecting" /\ server = 0 /\ timer = ConnectTimeout
    /\ dash = [connected |-> FALSE, server |-> 0]
    /\ writeRx = <<>> /\ writers = TRUE /\ pending = <<>> /\ hand = <<>> /\ batch = 0
    /\ sent = 0 /\ read = 0 /\ partial = FALSE /\ eof = FALSE
    /\ delivered = <<>> /\ routed = 0 /\ routerOpen = TRUE
    /\ accepted = 0 /\ wire = <<>> /\ lost = {} /\ age = 0

-----------------------------------------------------------------------------
(* The connection: run() and the first half of connect_and_run().           *)

\* The next server to try after a failure.
NextServer == (server + 1) % NumServers

\* Mutant: the dashboard is not told of the break.
DisconnectSilently ==
    /\ state' = "backoff" /\ timer' = Backoff /\ age' = 0
    /\ server' = NextServer
    /\ sent' = 2 * LineOf(sent) /\ read' = 2 * LineOf(sent)
    /\ partial' = FALSE /\ eof' = FALSE
    /\ UNCHANGED dash

\* connect_and_run returned Disconnected: the flag is cleared, the server
\* rotated and the backoff begins; what the broken stream held is gone.
Disconnect ==
    /\ state' = "backoff" /\ timer' = Backoff /\ age' = 0
    /\ dash' = [dash EXCEPT !.connected = FALSE]
    /\ server' = NextServer
    /\ sent' = 2 * LineOf(sent) /\ read' = 2 * LineOf(sent)
    /\ partial' = FALSE /\ eof' = FALSE

\* connect_and_run returned Shutdown, or the channel closed in the backoff.
Stop ==
    /\ state' = "stopped" /\ timer' = 0
    /\ UNCHANGED <<server, dash, out, in, pkts, age>>

ConnectOk ==
    /\ state = "connecting"
    /\ state' = "login" /\ timer' = 0 /\ age' = 0
    /\ dash' = [connected |-> TRUE, server |-> server]
    /\ UNCHANGED <<server, out, in, pkts>>

\* The connect fails, or its timeout elapses.
ConnectFail ==
    /\ state = "connecting"
    /\ Disconnect
    /\ UNCHANGED <<out, pkts>>

LoginOk ==
    /\ state = "login"
    /\ state' = "flushing"
    /\ UNCHANGED <<server, timer, dash, out, in, pkts, age>>

LoginFail ==
    /\ state = "login"
    /\ Disconnect
    /\ UNCHANGED <<out, pkts>>

\* Mutant: the buffer is iterated and not drained.
FlushLineKept ==
    /\ state = "flushing" /\ pending # <<>>
    /\ wire' = Append(wire, Head(pending))
    /\ UNCHANGED <<conn, writeRx, writers, pending, hand, batch, accepted, lost, in, pkts, age>>

FlushLine ==
    /\ state = "flushing" /\ pending # <<>>
    /\ wire' = Append(wire, Head(pending)) /\ pending' = Tail(pending)
    /\ UNCHANGED <<conn, writeRx, writers, hand, batch, accepted, lost, in, pkts, age>>

\* The drain(..) is dropped with the early return: it discards the line whose
\* write failed and every line behind it.
FlushFail ==
    /\ state = "flushing"
    /\ Disconnect
    /\ pending' = <<>> /\ lost' = lost \cup Range(pending)
    /\ UNCHANGED <<writeRx, writers, hand, batch, accepted, wire, pkts>>

\* Mutant: the buffered lines are left for later.
FlushDoneEarly ==
    /\ state = "flushing"
    /\ state' = "select" /\ timer' = Heartbeat /\ age' = 0
    /\ UNCHANGED <<server, dash, out, in, pkts>>

FlushDone ==
    /\ state = "flushing" /\ pending = <<>>
    /\ state' = "select" /\ timer' = Heartbeat /\ age' = 0
    /\ UNCHANGED <<server, dash, out, in, pkts>>

-----------------------------------------------------------------------------
(* The main select loop: reading.                                           *)

\* read_line consumed the beginning of a line and waits for the rest.
ReadHead ==
    /\ state = "select" /\ read < sent /\ IsHead(read + 1)
    /\ read' = read + 1 /\ partial' = TRUE
    /\ UNCHANGED <<conn, sent, eof, out, pkts, age>>

\* read_line can return: it meets the line feed, or the end of the stream with
\* the beginning of a line in hand.
HasLine ==
    /\ state = "select"
    /\ \/ read < sent /\ ~IsHead(read + 1)
       \/ read = sent /\ eof /\ partial

\* What it returns.  The line is whole only when this same call read its
\* beginning and its end; without its beginning no '#' is seen.
Consumed  == IF read < sent THEN read + 1 ELSE read
Packet    == [line |-> LineOf(Consumed), part |-> CASE ~partial    -> "end"
                                                    [] read < sent -> "whole"
                                                    [] OTHER       -> "beginning"]
IsComment == partial /\ Packet.line \in Comments

\* Mutant: line_buf is not cleared.
ReadLineUncleared ==
    /\ HasLine /\ (IsComment \/ routerOpen)
    /\ delivered' = IF ~IsComment /\ Len(delivered) - routed < PacketCap
                    THEN Append(delivered, Packet) ELSE delivered
    /\ read' = Consumed
    /\ timer' = Heartbeat /\ age' = 0
    /\ UNCHANGED <<state, server, dash, out, sent, partial, eof, routed, routerOpen>>

\* A comment is skipped; a packet is offered to the router with try_send, and
\* dropped when the packet channel is full.
ReadLine ==
    /\ HasLine /\ (IsComment \/ routerOpen)
    /\ delivered' = IF ~IsComment /\ Len(delivered) - routed < PacketCap
                    THEN Append(delivered, Packet) ELSE delivered
    /\ read' = Consumed /\ partial' = FALSE
    /\ timer' = Heartbeat /\ age' = 0
    /\ UNCHANGED <<state, server, dash, out, sent, eof, routed, routerOpen>>

\* try_send finds the packet channel closed.
ReadClosed ==
    /\ HasLine /\ ~IsComment /\ ~routerOpen
    /\ Stop

\* read_line returned Ok(0).
ReadEof ==
    /\ state = "select" /\ eof /\ read = sent /\ ~partial
    /\ Disconnect
    /\ UNCHANGED <<out, pkts>>

ReadError ==
    /\ state = "select"
    /\ Disconnect
    /\ UNCHANGED <<out, pkts>>

HeartbeatTimeout ==
    /\ state = "select" /\ timer = 0
    /\ Disconnect
    /\ UNCHANGED <<out, pkts>>

-----------------------------------------------------------------------------
(* The main select loop: writing.                                           *)

\* Mutants: the backoff is a plain sleep that does not poll the channel.
CanRecvConnected   == state = "select" /\ writeRx # <<>>
SeesCloseConnected == state = "select" /\ writeRx = <<>> /\ ~writers

\* The two awaits that poll write_rx, and what recv finds there.
CanRecv   == state \in {"select", "backoff"} /\ writeRx # <<>>
SeesClose == state \in {"select", "backoff"} /\ writeRx = <<>> /\ ~writers

\* The recv branch wins: the read_line future is dropped with what it read.
Recv ==
    /\ state = "select" /\ CanRecv
    /\ state' = "writing" /\ timer' = 0
    /\ hand' = <<Head(writeRx)>> /\ writeRx' = Tail(writeRx) /\ batch' = 1
    /\ partial' = FALSE
    /\ UNCHANGED <<server, dash, writers, pending, accepted, wire, lost,
                   sent, read, eof, pkts, age>>

\* The line in hand is written and the batch goes on with the next queued line.
WriteNext ==
    /\ state = "writing" /\ writeRx # <<>> /\ batch < BatchMax
    /\ wire' = wire \o hand
    /\ hand' = <<Head(writeRx)>> /\ writeRx' = Tail(writeRx) /\ batch' = batch + 1
    /\ UNCHANGED <<conn, writers, pending, accepted, lost, in, pkts, age>>

\* Mutant: the timeout is not armed again.
WriteLastUnarmed ==
    /\ state = "writing" /\ (writeRx = <<>> \/ batch = BatchMax)
    /\ wire' = wire \o hand /\ hand' = <<>> /\ batch' = 0
    /\ state' = "select"
    /\ UNCHANGED <<server, timer, dash, writeRx, writers, pending, accepted, lost,
                   in, pkts, age>>

\* The line in hand is written, and the queue is empty or the batch complete:
\* flush and back to the select, whose heartbeat timeout starts afresh.
WriteLast ==
    /\ state = "writing" /\ (writeRx = <<>> \/ batch = BatchMax)
    /\ wire' = wire \o hand /\ hand' = <<>> /\ batch' = 0
    /\ state' = "select" /\ timer' = Heartbeat
    /\ UNCHANGED <<server, dash, writeRx, writers, pending, accepted, lost, in, pkts, age>>

WriteFail ==
    /\ state = "writing"
    /\ Disconnect
    /\ lost' = lost \cup Range(hand) /\ hand' = <<>> /\ batch' = 0
    /\ UNCHANGED <<writeRx, writers, pending, accepted, wire, pkts>>

RecvClosed ==
    /\ state = "select" /\ SeesClose
    /\ Stop

-----------------------------------------------------------------------------
(* The backoff between two connections.                                     *)

\* The line is kept for the next connection; the loop then creates a new sleep.
BackoffRecv ==
    /\ state = "backoff" /\ CanRecv
    /\ pending' = Append(pending, Head(writeRx)) /\ writeRx' = Tail(writeRx)
    /\ timer' = Backoff
    /\ UNCHANGED <<state, server, dash, writers, hand, batch, accepted, wire, lost,
                   in, pkts, age>>

BackoffClosed ==
    /\ state = "backoff" /\ SeesClose
    /\ Stop

Reconnect ==
    /\ state = "backoff" /\ timer = 0
    /\ state' = "connecting" /\ timer' = ConnectTimeout
    /\ UNCHANGED <<server, dash, out, in, pkts, age>>

-----------------------------------------------------------------------------
(* The environment: the tasks that write, the router, the server, time.     *)

\* Another task's send is accepted by the write channel.
Produce ==
    /\ writers /\ state # "stopped" /\ Len(writeRx) < WriteCap /\ accepted < MaxLines
    /\ accepted' = accepted + 1 /\ writeRx' = Append(writeRx, accepted + 1)
    /\ UNCHANGED <<conn, writers, pending, hand, batch, wire, lost, in, pkts, age>>

CloseWriters ==
    /\ writers /\ writers' = FALSE
    /\ UNCHANGED <<conn, writeRx, pending, hand, batch, accepted, wire, lost,
                   in, pkts, age>>

RouterTake ==
    /\ routerOpen /\ routed < Len(delivered)
    /\ routed' = routed + 1
    /\ UNCHANGED <<conn, out, in, delivered, routerOpen, age>>

RouterClose ==
    /\ routerOpen /\ routerOpen' = FALSE
    /\ UNCHANGED <<conn, out, in, delivered, routed, age>>

ServerSend ==
    /\ state \in Connected /\ ~eof /\ sent < 2 * MaxServerLines
    /\ sent' = sent + 1
    /\ UNCHANGED <<conn, out, read, partial, eof, pkts, age>>

ServerClose ==
    /\ state \in Connected /\ ~eof /\ eof' = TRUE
    /\ UNCHANGED <<conn, out, sent, read, partial, pkts, age>>

\* The select has a branch that is ready: it runs before time passes.
Ready ==
    \/ CanRecv \/ SeesClose
    \/ state = "select" /\ (read < sent \/ eof)

Tick ==
    /\ state # "stopped" /\ ~Ready
    /\ state \in Timed => timer > 0
    /\ timer' = IF state \in Timed THEN timer - 1 ELSE timer
    /\ age' = IF age < MaxAge THEN age + 1 ELSE age
    /\ UNCHANGED <<state, server, dash, out, in, pkts>>

\* run() has returned: nothing is left to do.
Done == state = "stopped" /\ UNCHANGED vars

Connection == \/ ConnectOk \/ ConnectFail \/ LoginOk \/ LoginFail
              \/ FlushLine \/ FlushFail \/ FlushDone
Reading    == ReadHead \/ ReadLine \/ ReadClosed \/ ReadEof \/ ReadError \/ HeartbeatTimeout
Writing    == Recv \/ WriteNext \/ WriteLast \/ WriteFail \/ RecvClosed
Waiting    == BackoffRecv \/ BackoffClosed \/ Reconnect
Environment == \/ Produce \/ CloseWriters \/ RouterTake \/ RouterClose
               \/ ServerSend \/ ServerClose \/ Tick

Next == Connection \/ Reading \/ Writing \/ Waiting \/ Environment \/ Done

Spec == Init /\ [][Next]_vars

\* The runtime polls every ready branch (weak fairness of each), timers run,
\* connect attempts end (CONNECT_TIMEOUT), and a write ends one way or the
\* other: the last is the peer's doing, the code puts no limit on write_all.
ClientFairness ==
    /\ WF_vars(Tick)
    /\ WF_vars(ConnectOk \/ ConnectFail)
    /\ WF_vars(LoginOk \/ LoginFail)
    /\ WF_vars(FlushLine \/ FlushDone \/ FlushFail)
    /\ WF_vars(WriteNext \/ WriteLast \/ WriteFail)
    /\ WF_vars(ReadHead \/ ReadLine \/ ReadClosed \/ ReadEof)
    /\ WF_vars(Recv) /\ WF_vars(RecvClosed) /\ WF_vars(HeartbeatTimeout)
    /\ WF_vars(BackoffRecv) /\ WF_vars(BackoffClosed) /\ WF_vars(Reconnect)

FairSpec == Spec /\ ClientFairness

-----------------------------------------------------------------------------
(* Properties.                                                              *)

\* Types, with the two facts that tie the buffers to the await: a line is in
\* hand exactly while it is being written, and pending_writes is empty there.
ConnTypeOK ==
    /\ state \in Connected \cup {"connecting", "backoff", "stopped"}
    /\ server \in 0 .. NumServers - 1
    /\ timer \in Nat /\ age \in Nat
    /\ dash \in [connected : BOOLEAN, server : 0 .. NumServers - 1]

OutTypeOK ==
    /\ writeRx \in Seq(Nat) /\ Len(writeRx) <= WriteCap /\ writers \in BOOLEAN
    /\ pending \in Seq(Nat) /\ hand \in Seq(Nat) /\ batch \in 0 .. BatchMax
    /\ accepted \in Nat /\ wire \in Seq(Nat) /\ lost \subseteq Nat
    /\ IF state = "writing" THEN Len(hand) = 1 ELSE hand = <<>>
    /\ state \in {"select", "writing"} => pending = <<>>

InTypeOK ==
    /\ sent \in Nat /\ read \in 0 .. sent /\ partial \in BOOLEAN /\ eof \in BOOLEAN

PacketTypeOK ==
    /\ delivered \in Seq([line : Nat, part : {"whole", "beginning", "end"}])
    /\ routed \in 0 .. Len(delivered) /\ routerOpen \in BOOLEAN

TypeOK == ConnTypeOK /\ OutTypeOK /\ InTypeOK /\ PacketTypeOK

\* Lines reach the servers in the order the channel accepted them and never
\* twice, whatever breaks and reconnections lie between (pending_writes is
\* sent before the channel is read again).
WireInOrder == Increasing(wire)

\* Every accepted line is in exactly one place: written, discarded by a failed
\* write, in hand, kept for the next connection, or still in the channel.
NoLineVanishes ==
    1 .. accepted = Range(wire) \cup lost \cup Range(hand)
                        \cup Range(pending) \cup Range(writeRx)

Once ==
    /\ lost \cap (Range(wire) \cup Range(hand) \cup Range(pending) \cup Range(writeRx)) = {}
    /\ Range(wire) \cap (Range(hand) \cup Range(pending) \cup Range(writeRx)) = {}
    /\ Range(pending) \cap Range(writeRx) = {}

ExactlyOnePlace == NoLineVanishes /\ Once

\* The dashboard says "connected" exactly while a connection is up, and then
\* names the server it is to, until the task ends.
DashboardTruth ==
    state # "stopped" =>
        /\ dash.connected <=> state \in Connected
        /\ dash.connected => dash.server = server

\* Packets go to the router in the order the server sent their lines, at most
\* one packet for a line, across torn reads, truncation and reconnection.
PacketsInOrder ==
    \A i, j \in 1 .. Len(delivered) : i < j => delivered[i].line < delivered[j].line

\* A connection is declared dead only after Heartbeat ticks without a complete
\* line from the server, and a server is never retried before the whole backoff
\* has elapsed, however the select loops create their timers anew.
TimersRunOut ==
    [][/\ HeartbeatTimeout => age >= Heartbeat
       /\ Reconnect => age >= Backoff]_vars

\* Once every sender of the write channel is gone the task ends, in whatever
\* state the closing finds it and whatever is still queued.
StopsWhenWritersGone == ~writers ~> state = "stopped"

\* A full write channel does not stay full: the tasks blocked in send on it go
\* on, connected or not.
ChannelDrains ==
    Len(writeRx) = WriteCap ~> (Len(writeRx) < WriteCap \/ state = "stopped")

-----------------------------------------------------------------------------
(* What comments of the code say, and the code does not do: the run of this *)
(* finds a counterexample.                                                  *)

\* "Read a line from the server" and "Valid APRS packet line": what goes to the
\* router is not a line whose beginning another branch of the select threw away.
NoHeadlessLine == \A i \in 1 .. Len(delivered) : delivered[i].part # "end"
=============================================================================
