# vaprs in TLA+

vaprs is an APRS gateway: it receives packets from radios (KISS TNCs on a TCP
or serial port), gates them to the APRS-IS network, sends beacons, counts
traffic and shows what it does on a web page. This directory holds TLA+ models
of the program, configurations that check them with TLC on small instances, and
proofs, checked by TLAPS, of the properties that matter most for every instance.

Every definition is translated from the source (`src/` in this repository).
`PROJECT.json` maps each definition to the lines it stands for.

Run a check with `tlc -config aprsis.cfg AprsIsClient`, a proof with
`tlapm AprsIsClientProofs.tla`.

## 1. The system

The program is one process. `main.rs` runs everything on a *current-thread*
tokio runtime (main.rs:109): tasks interleave only at an `await` that suspends,
and the code between two awaits is atomic. This sets the grain of all models:
an action is what a task does from one suspension to the next.

| Part | State | Operations | Interacts with |
|---|---|---|---|
| APRS-IS client (`aprsis.rs`) | connection, `pending_writes`, `line_buf`, current server, two timers | connect in turn to the servers, log in, read lines, write lines, back off | write channel (receiver), packet channel (`try_send`), dashboard flag |
| Radio interfaces (`interface/tcp.rs`, `serial.rs`) | connection, backoff, KISS decoder, watchdog | connect, read, decode, transmit, back off, stop | command channel (receiver), packet channel (`send`) |
| Frames (`interface/serial.rs`, `ax25.rs`, `agwpe.rs`) | none | a frame to a packet and back | called by the radio interfaces |
| Handles and registry (`interface/mod.rs`) | list of handles | register, find, transmit, shut all down | command channels (sender) |
| Router (`router.rs`) | list of consumers | hand each packet to every consumer with `try_send` | packet channel (receiver), one bounded channel per consumer |
| iGate (`igate.rs`, `history.rs`, task in `main.rs`) | heard-station history, statistics | gate RF to IS, gate IS to RF | a consumer channel, the write channel (`send`) |
| Beacons (`beacon.rs`) | next time of each, a running command | poll, fire, make the text, send | the write channel (`send`) |
| Digipeater (`digipeater/`) | duplicate table, viscous queue, rate limiter, filter chain | relay a packet, filter, delay, cancel | library code; not wired into `main.rs` |
| Erlang counters (`erlang.rs`) | windows per channel | count, rotate every minute | an RwLock shared with the web server |
| Dashboard (`web/`) | stations, ring of 200 packets, iGate counters, SSE connections, a request's lines | record, serve pages, stream events | a consumer channel, an RwLock |
| Codecs (`kiss.rs`, `ax25.rs`, `crc.rs`, `parse_aprs.rs`, `dprsgw.rs`, `packet.rs`) | none but the KISS decoder's buffer | parse and format | pure |
| Process (`main` in `main.rs`) | PID file | start in the foreground or not, run, remove the file | other instances, through the file |
| Configuration, logging, errors | none after start-up | | |

The channels: interfaces and client to router (256), router to each consumer
(128), iGate and beacons to client (64), registry to each interface (32).
`send` waits for room; `try_send` drops. Which of the two each edge uses is what
keeps the graph free of deadlock, although it has a cycle (the client feeds
the router, which feeds the iGate, which feeds the client).

What is hard here, part by part, and what makes the part correct:

* **APRS-IS client.** Two `select!` loops that drop unfinished futures, timers
  that are created anew with each pass, a buffer that is filled in one loop and
  flushed in another, seven early returns between setting and clearing a shared
  flag. Correct: lines leave in order and none twice; each line is written, lost
  to a failed write, or still held; no timeout comes early; the dashboard tells
  the truth; the channel never stays full; the task ends when its writers do.
* **Radio interfaces.** Commands consumed in three places with different
  treatment; a `send` that waits in the middle of a batch of frames; a backoff
  that four paths reset, double or cap. Correct: no decoded frame lost, no
  transmission made twice, exponential backoff, one warning per silence, a
  Shutdown always obeyed.
* **Router.** Consumers that are slow or gone. Correct: it is a lossy fan-out,
  and no consumer influences another or the router.
* **The program as a whole.** Backpressure around a cycle; a shutdown that works
  by closing channels whose ends are cloned into several tasks. Correct: nothing
  from APRS-IS goes back to APRS-IS, radios are never held up by the network,
  nothing ends before it should, and the shutdown completes.
* **Digipeater.** Paths relayed by several stations; duplicates that expire;
  delayed relays that are cancelled. Correct: a path runs out, no station relays
  a packet twice, a delayed packet is sent or cancelled, never both.
* **iGate rules.** Two directions and a history. Correct: no packet loops between
  RF and IS; messages go to RF only for stations heard recently.
* **Digipeater filters.** Filters that admit and filters that reject, in any
  order. Correct: the verdict depends on what they name, not on their places.
* **Codecs.** A KISS stream cut anywhere; check bytes made here and checked
  elsewhere; frames that cross several links; degrees in four notations. Correct:
  the cuts do not matter; an intact frame passes and a garbled one does not;
  addresses survive every link; a place arrives as it was meant or not at all.
* **Dashboard and SSE.** A ring read by sequence number while it is written,
  tables that two tasks write, lines cut anywhere. Correct: a reader misses
  nothing that is still in the ring and sees nothing twice; the limit on
  connections holds; the tables say what happened; lines come whole.
* **Registry and process.** Commands to tasks that may be gone, in channels that
  may be full; several instances around one PID file. Correct: the word to stop
  reaches every interface; nobody takes away the file of another.
* **Beacons, Erlang.** Deadlines and rolling windows across gaps in time; a
  command that blocks the only thread. Correct: no beacon early; each window is
  the sum over its stretch of time; no command holds the program up for long, or
  outlives the call.

## 2. Modules

| Module | Models | Notes |
|---|---|---|
| `AprsIsClient` | `aprsis.rs`, all of `run` and `connect_and_run` | the network, the server and the writers are its environment |
| `KissInterface` | `interface/tcp.rs`, `interface/serial.rs` | `kind` chooses the TCP or the serial variant at the start |
| `LossyFanout` | what the router promises | abstract specification |
| `Router` | `router.rs` and the consumers' ends of its channels | implements `LossyFanout` |
| `Wiring` | the loop of `main.rs` over the interface sections, `interface/mod.rs`, the names of the Erlang channels | |
| `Daemon` | `main` and the PID file | several instances |
| `Program` | | composes `Router`, `Wiring` and `Daemon` |
| `Gateway` | `async_main` in `main.rs`: tasks, channels, shutdown | composes abstractions of client, router and interfaces with iGate and beacons |
| `KissCodec` | `kiss.rs`, encoder and decoder | at the two ends of a line that disturbs |
| `Crc` | `crc.rs` and the check bytes of `kiss.rs` | at the two ends of a line with a burst of errors |
| `Ax25`, `RadioLink` | `ax25.rs`; `process_kiss_frame` and `prepare_transmit` in `interface/serial.rs` | a frame over several links |
| `Agwpe` | `interface/agwpe.rs` | |
| `RequestLines` | `read_line_bounded` in `web/server.rs` | |
| `Positions`, `AprsData`, `PlaceReports` | coordinates of `config.rs`, `dprsgw.rs` and `beacon.rs`; `parse_aprs.rs`; the way of a place to the dashboard | each extends the one before |
| `Codecs` | | composes `KissCodec`, `Crc`, `RadioLink`, `Agwpe`, `RequestLines` and `PlaceReports` |
| `Gating` | `igate.rs`, `history.rs` | several gateways on one channel and one network |
| `Digipeat` | `process_digipeat` in `digipeater/mod.rs` | several digipeaters and one packet |
| `RecentPackets` | what the duplicate check promises | abstract specification |
| `DupeChecker`, `ViscousQueue`, `RateLimiter`, `Filters` | `digipeater/dedupe.rs`, `viscous.rs`, `RateLimiter` in `mod.rs`, `filter.rs` | `DupeChecker` implements `RecentPackets` |
| `PacketRules` | | composes `Gating`, `Digipeat` and these four |
| `Beacons`, `BeaconText`, `Erlang` | `beacon.rs` with its task in `main.rs`; what a beacon says; `erlang.rs` with its task | |
| `Timers` | | composes these three |
| `Dashboard` | `web/server.rs`, the packet ring of `web/mod.rs` | every connection is a task |
| `HeardTables` | stations and iGate counters of `web/mod.rs` | |
| `Board` | | composes these two |
| `Queues`, `SharedLemmas` | | increasing queues and selections from a queue; what the proofs share: facts about these, induction, recursive functions |
| `AprsIsClientProofs`, `KissInterfaceProofs`, `GatewayProofs` | | theorems about the module each is named for |
| `ProgramProofs`, `CodecProofs`, `RuleProofs`, `BoardProofs` | | theorems about `Program` and `Timers`, `Codecs`, `PacketRules` and `Board`, and their parts |
| `MC…` | | constants for TLC that a configuration cannot write |

`Gateway` composes what interacts: tasks that hold each other's channels.
`Program`, `Codecs`, `PacketRules`, `Timers` and `Board` put together parts that
share no state but have one purpose. Interleaving such parts multiplies their
states and shows nothing more, so a variable `part`, chosen in the initial state,
says which of them makes steps; all of them are explored, one at a time.

### AprsIsClient

`state` says at which await the task is suspended; the list at the head of the
module names them. Lines to write are numbered in the order the channel accepted
them, so that `wire`, `lost`, `queue`, `pending` and `batch` can say where each
of them is. A server line arrives as one or two reads: `line_buf` after the
first is the part that a dropped `read_line` future throws away. The read
timeout and the backoff count ticks; `Tick` is enabled only when no task that
is ready has been left unpolled, which is what the runtime does with timers.
Passcode, login line and line clean-up are pure text and left out.

### KissInterface

`run_kiss_loop` is shared by both kinds of interface in the code and is here.
What differs is what happens before and after it: a TCP interface polls its
commands, connects under a timeout, and backs off; a serial one opens its port
and ends when it loses it (`Lost`). The decoder is reduced to the number of
packets that one read completes; `RadioLink` shows what becomes of a frame.

### Router and LossyFanout

The loop over the consumers has no await, so that routing a packet is one step.
`LossyFanout` states the promise of the header comment of `router.rs` with sets
of unread packets per consumer; the refinement maps a consumer's channel to the
set of the packets in it, and holds only because these differ. It also says when
it is over: not before every packet that was accepted has gone to the consumers,
and for each of these not before it has read what it was given.

### Gateway

One variable per task and per channel. A packet is its origin, `"rf"` or `"is"`,
which is all that the property about loops needs. The conditions under which a
channel is closed (all senders gone) or rejects (receiver gone) are definitions
of their own, `SourceClosed`, `WriteClosed`, `WriteRejects`, because the
shutdown works through them. `config` ranges over all combinations of the
`[aprsis]` and `[web]` sections; without `[aprsis]` the write channel has no
receiver from the start, and the iGate task ends at the first packet it gates.
A handle whose wait times out is only detached: the task goes on until the
runtime is dropped, and so does the client's here.
`gate_to_aprsis` is abstracted to a choice between dropping and gating.
The Erlang timer and the web server task hold no channel end of the pipeline;
they have modules of their own.

### KissCodec

The decoder works byte by byte and keeps its state between reads, so that the
cuts of a stream into reads cannot matter and are not modelled. The line may
lose, add or garble any byte, delimiters and the bytes of an escape included.
`clean` counts for how many frames it has not. The plain bytes are model values;
the four special ones are those of the code, `MaxLen` is its length limit.

### Crc

A number is the set of the places of its bits, and the exclusive or of two is
their symmetric difference, which is what a proof can speak of. The tables are
computed from the polynomials, one bit at a time; a frame crosses
the line byte by byte, and sender and receiver each keep a running sum. One burst
may hit the data or the check bytes: of up to two adjacent bytes in SMACK, of one in
FlexNet and BPQCRC. For FlexNet this is all there is to claim: it shifts to the left
with a table made for shifts to the right, and of the bursts of two bytes seven pass unseen
(0x91 then 0x85 is one of them), which the attempt to prove more has shown. Both ends use
one length and order of the check bytes; that the receiver compares its
sum with a residue is the modem's business, since vaprs itself checks nothing.

### Ax25 and RadioLink

A frame is its address fields and what follows them. A field is six characters,
an SSID, the H-bit and the end bit; that a character is shifted by one bit in it is
all that is left out. `decode_ax25_address` drops every space, not only those that
fill the field, and takes any other character, and so does the model: what is
claimed of an address is that its other characters come through, in order
(`SaidAs`). Fields go on to the first end bit from the source on, so a frame without one
is fields as far as it goes, its payload among them. The end bit of the destination
is not looked at (ax25.rs:159), and a frame counts as well-formed whatever it says.
The text is characters, each of one byte or two: what `b as char` makes of a byte
from 0x80 on is a character of two bytes (`AsChar`). `LineOf` says of each byte of
a line, without `Text`, what has to be there for it.
`RadioLink` takes a frame from link to link:
`process_kiss_frame`, the packet, `prepare_transmit`, the check bytes of the next
link. These stay behind the payload, because the decoder hands over all it gets,
and the packet carries its AX.25 bytes on: its text is for others to read.

### Positions, AprsData and PlaceReports

An angle is an integer in thirds of a hundredth of a minute, so that no value
lies on the border between two roundings, where f64 might go either way. A
payload is a record of what the parser looks at: its first byte, its length, where
its first colon is, what stands where a position is expected. A text is bytes
and characters at the same time: `wide` are the places at which it cannot be cut
because a character goes across, and `Cuts` the places at which the parser cuts.

### RequestLines

`fill_buf` gives whatever has arrived, and the call goes on with the next when
there is no line feed in it. A line can therefore be refused in two places: when
it is taken over, and before more is.

### Wiring and Daemon

A handle is its interface's metadata; the task behind it takes commands from its
own channel and may end on its own (a serial port that fails, line serial.rs:327,
ends its interface for good). The loop over the sections gives each an Erlang
channel, started or not. `Daemon` has several processes, since the PID file is
what instances share: each can be refused, fail to make or write the file, fail
to build its runtime, crash at any point, or leave in order, with the file removed
or, if that fails, with a warning and the file left behind.

### Gating

A packet is the sequence of its headers from the outermost inwards, so that
third-party frames may be nested, with the kind of its payload and `trip`, the
history of its crossings between radio and network. Every gateway hears what
any of them transmits, and reads what any of them writes to APRS-IS. The loop
that strips third-party headers ends, in every case the code accepts, at the
innermost header (`Inner`). `main.rs` does not call `gate_to_rf` yet; that it
is called with each line from APRS-IS, and `heard` with each packet received,
is taken from the comments of `igate.rs` and `history.rs`.

### Digipeat

One packet and four digipeaters, each of which may relay it at any time, also
more than once: duplicates are somebody else's business (`DupeChecker`), and
what must hold without that table is asked here. A via is a call, the number
after its dash and the H-bit. Who relayed the packet is remembered in `relays` and compared with what its path tells. A relay may add a via to a path
that is full already; the decoder of the next station rejects such a path
(ax25.rs:164), which is a guard here, with `MaxVias` for the limit.

### DupeChecker, ViscousQueue, RateLimiter, Filters

The program does not start a digipeater yet. So any call of each may come at any
time. `RecentPackets` remembers for each key how long ago it was new;
`DupeChecker` keeps a map with expired entries in it until a check or a cleanup
takes them out; a packet and its key are different things, since two packets that
differ in their path or in blanks at the end are the same to it. The f64 of the
token bucket is a count of fractions, `Unit` to the token. The viscous queue
drains in a loop that replaces what it removes by the last element: `DrainStep`
is one round of it. A regular expression of a filter is the set of the texts
that it matches, if it compiles; a callsign is a sequence of letters.

### Beacons, Erlang and Timers

Both tasks sleep on a tokio interval and do their work late when the runtime is
late (`MaxLate`); an interval makes up for the ticks it missed at once, as
tokio's default does. `last` and `ages`, the time since each beacon fired and since
each packet was recorded, are history. `timer` says which of the two tasks, or the
text of a beacon, is followed. A packet too old for any window leaves the history.

`BeaconText` is what happens when a beacon fires. Its command runs as a process
of its own, with a pipe that holds `PipeSize`, which the program looks at every
50 ms, asleep in between; it reads the pipe only when the shell has ended, and then to
its end: until nobody has it open any more. A process that the shell left behind writes too
(`Add`), before and after the end of the shell, and what it writes is said with the rest. The
text is a length, and whether a character lies across the place where it is cut; where a
process has added to it, it may or may not.

### Dashboard, HeardTables and Board

Every connection is a task with its own await, `Push` is the task that feeds
the ring. The count of open streams is taken at `Subscribe` and given back on
every way out. What a page was shown, as events and as states, is history.
A page may stop reading at any time; every `write_all` then waits without a
timeout, and the deadline of the stream is not looked at (see section 5).
`HeardTables` keeps what was recorded, as history, and compares the tables with it.

## 3. What the runs check

| Run | Instance | Shows |
|---|---|---|
| `aprsis` | 2 servers, batches of 2, channel of 2, 3 lines to write, 2 to read | `WireInOrder`, `ExactlyOnePlace`: order and accounting of lines; `TimersRunOut`: no timeout early; `DashboardTruth`; `PacketsInOrder`: what reaches the router; `StopsWhenWritersGone`, `ChannelDrains` |
| `router` | consumers with channels of 1 and 2, 5 packets; 5 sections of which 2 start, command channels of 2; 3 processes | `FanoutSpec`: refinement of `LossyFanout`, to the end of the stream; `ShutdownReaches`: the word to stop; `PidOwned`: the PID file |
| `kiss` | both kinds, command channel of 2, packet channel of 1, 2 frames and 2 transmissions | `NoFrameLost`, `TransmitOnce`, `BackoffFollowsFailures`, `StopsWhenTold` |
| `gateway` | all 4 configurations, 1 radio, all channels of size 1 | `OnlyRadioIsGated`: no loop; `StaysUpUntilAbort`: nothing ends before `main` says so; `RadioNeverStuck`, `IgateNeverStuck`: backpressure; `ShutdownCompletes` |
| `codec` | 31 KISS frames of up to 3 bytes over 6 bytes, 3 sent, 2 disturbances; sums over 3 bytes; AX.25 frames with up to 16 vias, also with spaces within their addresses, without an end bit or too short, over 2 links with check bytes that are an LF or no ASCII; callsigns of 0 to 11 bytes; requests of 6 bytes with lines of 3; places at, next to and beyond what a text can show | `Recovers`: a disturbance costs no frame but those it touches and the next; `CheckTells`: intact frames pass, bursts are found; `FramesKept`: AX.25 frames come through, broken ones do not; `AgwpeKept`: so do AGWPE frames; `LinesKept`: lines of a request come whole, cut anywhere; `PlaceKept`: a place arrives as it was meant |
| `rules` | 2 gateways, 2 packets, 3 crossings; 4 digipeaters, all paths of up to 4 vias over 9; 3 packets, 4 relays with a delay of 0 or 2, a window of 2, 2 tokens; chains of 3 filters out of 22 | `NoReturn`: nothing transmitted by a gateway comes back to the net; `OnlyForTheDistant`: who is gated to radio; `PathTellsHistory`: the path names who relayed it, nobody twice, and every relay costs a hop; `RecentSpec`: refinement of `RecentPackets`; `OneFate`: sent or cancelled, never both; `RateKept`: the limit over every stretch of time; `VerdictsFollow`: the filter chain |
| `timers` | intervals of 5 ticks polled every 2, minutes of 2, windows of 2 and 3 minutes, up to 2 late; commands that write up to 5 to a pipe of 3, and processes left behind that write up to 4 more | `Spacing`: no beacon early; `Windows`: each window is the sum over the right stretch; `CommandOver`: what a command can do to the program |
| `dashboard` | 2 pages, 1 slot, ring of 2, 4 packets; 2 stations in capitals and in small letters, 3 recorded | `SlotsCounted`, `EventsInOrder`, `CaughtUp`, `SlotComesBack`; `TablesTell` |

Four runs each check a statement that a comment of the code makes and that the
code does not keep; TLC must find it violated:

| Run | The statement | What happens |
|---|---|---|
| `aprsis_torn_line` | "Valid APRS packet line" (aprsis.rs:274) | `read_line` is not cancellation safe: a line loses its beginning and the rest is routed |
| `beacon_spacing` | "Each beacon group shares the cycle time, evenly spaced." (beacon.rs:210) | each beacon gets the cycle divided by the number of beacons, from the same start: all fire together, each as many times per cycle as there are beacons |
| `unanswered_line` | "Unrecognized or unparseable format." (parse_aprs.rs:46) | a payload with a character of several bytes where the parser cuts is not unrecognized: the cut panics, and `panic = "abort"` (Cargo.toml:25) ends the program |
| `erlang_uncounted` | "Record erlang rx for the source interface" (main.rs:319) | the channels are named `callsign_index`, the packets carry the callsign alone: no radio packet is ever counted |

Each property has a mutant in `PROJECT.json`: a change of one definition, as a
plausible bug would make it, under which the same run finds it violated. Type
invariants are not among the runs' properties: they are proved where a theorem
about the module needs them.

**Bounds.** Every bound is a constant, named as such where it is declared: lines
(`MaxLines`), server lines, packets, frames, transmissions, beacons, crossings,
disturbances, and the saturation of ages (`MaxAge`) and of failure counts
(`MaxFails`). They are chosen so that the queues overflow and are reused: two
servers make the rotation wrap; batches of two with three lines give a full
batch with more behind it, a partial write failure, and a failure with lines in
the channel; a source channel of 1 or 2 with three or four packets fills, drains
and fills again; a ring of two with four packets overruns a reader. Timers of
one or two ticks let every timer expire before, at and after the event it
races. Two disturbances break both bytes of an escape, or one frame's end and
the next one's beginning. Three crossings take a packet from the net to the
air, back, and out again. Two links are one more than it takes for check bytes to
meet those of the link before. Lines of three bytes in requests of six let a
line end before, at and behind the limit and be cut at any place. A third
process is one that finds the file of a second where the first one's was. A pipe
of three and an output limit of two let a text exceed none, one and both.
Constants like `MaxVias` = 5 and a command channel of 2 are smaller than the
code's (8 and 32) so that the limit is reached in a few steps; the limit of
eight vias itself is in `Ax25`.
The proofs below do not depend on any of these.

**Deadlock.** It is checked in every run but `codec` and `unanswered_line`, where
the line falls silent when all frames are sent and all disturbances used up, and
where a conversion ends with its result. A task that has ended,
or a program whose `main` has returned, stutters by an explicit `Done`.

**Fairness.** Specifications for liveness add weak fairness of what the runtime
polls when it is ready, and no more than that: a connection attempt ends (it is
under a timeout), a timer fires, a ready `recv` or `send` is polled. Nothing is
assumed of the environment: the server may be silent, a consumer may never
read, and nobody has to send. Where a property needs another task to be
polled it says so as an assumption inside the property (`ConsumerFairness`,
`ClientFairness`, `ShutdownFairness`), so that the same run checks properties
under different assumptions. Strong fairness is used in `Gateway` for channel
permits, which tokio hands out first come, first served, and for the client's
`recv`, which the backoff loop polls before its timer. A socket write is taken
to return; the code has no timeout on it, and this is listed as a hazard. In
`Dashboard` the deadline is one of three branches of a `select!`, which polls
them in random order: strong fairness of `Expire` says that it is not passed
over for ever. That a page keeps reading is the assumption inside
`SlotComesBack`.

## 4. What is proved

TLAPS proves the following for every value of the constants allowed by the
`ASSUME` of each module (sizes positive, timers positive, finite sets; for `Codecs`,
that bytes have eight bits, frames and callsigns are sequences, coordinates are
integers, and a report has the place of its first colon) or by the
predicate that says which configurations make sense (`Sensible` of `Digipeat` and
of `Filters`).

* **SharedLemmas**. Induction over the natural numbers is stated in the library
  with an operator as a parameter, which the provers cannot instantiate; with a set
  in its place it is first-order, and follows from the least element of a set
  that well-foundedness gives (`LeastElement`, `Induction`). `Recursion` gives a
  function for any start and any step: what a recursive definition chooses
  exists, so that it satisfies its own equation. The lemmas on `Select` say what
  a selection from a queue keeps, counts and appends.
* **AprsIsClientProofs**: `TypeCorrect`, `OrderCorrect` (lines go out in order,
  none twice), `AccountingCorrect` (each accepted line is in exactly one place),
  `TimersCorrect` (no early heartbeat timeout or reconnection),
  `DashboardCorrect`, `PacketOrderCorrect`. Neither order nor accounting is
  inductive alone. `QueueInv` orders the places a line can be in: everything
  written or lost is before everything in the batch, that before what is
  pending, that before what is in the channel; each place is increasing and all
  together are the numbers given out so far. Each action moves lines across
  one of the borders. `ClockInv` relates each timer to the age it measures (the
  sum of what is left and what has passed), `PacketInv` the partial line to the
  number of lines the server has sent.
* **KissInterfaceProofs**: `FramesCorrect`, `WarningsCorrect`,
  `TransmissionsCorrect` and `BackoffCorrect`, for both kinds of interface.
  `FrameInv` says that what was delivered followed by what the last read left is
  exactly `1 .. heard`, and that nothing is left except while sending.
  `TransmitInv` orders the places of a transmission as `QueueInv` does for lines;
  the Shutdown command may stand anywhere between them, so `InOrder` and `Asked`
  look past it. `BackoffInv` compares the delay, which is doubled and capped at
  each failure, with `Unlimited`, the delay that is only doubled: capping twice
  is capping once, because `Unlimited` grows (`Doublings`).
* **GatewayProofs**: `TypeCorrect`, `LoopFree` and `StaysUp`. `StaysUpUntilAbort`
  is inductive as it stands, because its parts hold each other up: the client
  cannot end while the iGate or beacon task holds a sender, these end only after
  the client or the router, and the router only after the client.
* **CodecProofs**. KISS: `RecoveryCorrect`, for any bytes, frames and number of
  disturbances (`ProgramRecovers` says it of `CodecsSpec`). Within a clean frame the
  decoder hunts or escapes when the
  encoder does (`InStep`), so that the frame's end, at the latest, leaves it
  collecting with an empty buffer. Within the second clean frame its buffer is
  the part of the frame already sent, and an escape is half read when it is half
  sent (`Follows`).
  The sums: `CheckCorrect`, for any bytes, lengths and garbled bits. A step is
  linear (`StepLinear`), so that the difference between the receiver's sum and the
  right one goes its own way, whatever the data (`LineDiffers`). `SumInv` says what is known
  of it: it is empty as long as nothing was garbled and never becomes empty again.
  In SMACK it stays because only the entry of 0 has no upper byte (`UpperMark`); in FlexNet, whose
  steps lose bits, because a garbled byte never makes a difference that fades
  (`ByteStays`, `FadesBack`).
  The frames: `FramesCorrect`, `AgwpeCorrect` and `LinesCorrect`, for any frames, callsigns
  and data, any number of links and lines of any length. `LinkInv`: a packet is what was heard
  with all the check bytes since behind it, and a frame that is read once is read again with
  more behind it (`FrameRead`, `RestGrown`). What is read of an address or a line is a selection
  from a sequence, in which each element has the place that it has among those selected
  (`SelectPlaces`): so the decoder's loops give what `SaidAs` and `LineOf` ask for
  (`AddressRead`, `CharactersRead`). `AgwInv` follows a request to its bytes and back. `LinesInv`: there are
  marks in the text, one per line returned, each at the next end of a line, and
  what is read and not returned is the text behind the last mark; the property,
  which counts the ends instead, follows by induction over the marks (`MarksTell`).
  The places: `PlaceCorrect`, for any coordinates, comments and reports. `PlaceInv`
  says of a line from which place it was written; what the parser reads in it is
  spelled out for every form (`SpotsIn`, `ParsedIs`), and the roundings on the way
  are together at most half a hundredth of a minute (`NumberKept`, `TextKept`). Of other
  stations' reports the theorem takes for granted (`ReportsRead`) that the parser
  reads them whole as they are meant, and shows that cutting them at a colon never
  makes another place of them (`Shorter`); the run checks the reading itself, on reports that
  come with what they mean.
* **ProgramProofs**, the router: `TypeCorrect`, `OrderCorrect` and
  `ImplementsFanout`, the refinement of `LossyFanout`, its end included (`AllRouted`). The invariant `IInv` adds
  to the properties that the source channel holds exactly the packets
  `routed + 1 .. offered` and that consumers have only been given packets that
  were routed; hence the packet offered next is larger than all a consumer has,
  its channel holds distinct packets, and its length is the cardinality that the
  abstract specification compares with the room.
  The registry: `ShutdownCorrect`, for any sections and command channels of any
  size. `WiringInv` follows `shutdown_all` through the list: every interface it
  has come past has the word in its channel or is gone. An interface takes a
  command out of its channel, but the word to stop ends it (`WordKept`).
  The PID file: `PidCorrect`, for any number of processes. `DaemonInv` adds
  that only the process that made the file, and nobody since, is about to write
  its number (`life[p] = "writing"`), so that a file that is there excludes
  any other writer.
  The timers: `SpacingCorrect`, `CommandCorrect` and `WindowsCorrect`.
  `BeaconsInv`: the time since a beacon fired and the time it still waits are
  together at least 80% of its interval. `TextInv` follows a command: which child
  belongs to which step of the call (`CallInv`), that the pipe and what is still to
  be written and added are together what it and those it left behind mean to write
  (`WrittenInv`), and for how long
  it was waited for (`WaitedInv`). `WindowsInv` is about every border between two samples, not only the
  three that the windows begin at: the packets counted in the samples after it
  are the latest ones, none of them recorded before the time of the border, and
  those before it no later than that time, up to the lateness of the task
  (`Splits`). A rotation turns each border into the one before it, and the sums
  over what is behind the borders follow (`LatestRotates`, `SumAppend`).
* **RuleProofs**. The iGate: `NoReturnCorrect`, `HistoryCorrect`,
  `DistantCorrect`, for any number of gateways and packets. A packet on the air
  that has been gated has `TCPIP` in its innermost header (`OnAirOK`), which
  `gate_to_aprsis` refuses there however deep it is wrapped; `NoReturn` alone does
  not say why the packets on the air are safe. `ClockInv` says that the time left
  to an entry and the time since it was made add up to the lifetime.
  The duplicate check: `ImplementsRecent`, the refinement of `RecentPackets`.
  `TableOK` bounds what an entry can say; a step that takes out an expired
  entry is then a stutter of the abstract memory.
  The viscous queue: `FateCorrect`. `QueueInv` says that the numbers waiting, sent
  and cancelled are distinct and apart; the drain is followed round by round, by induction: what is
  left and what is out are together what was waiting (`Parted`).
  The rate limiter: `RateCorrect`. `BucketInv` bounds what was allowed in every
  stretch by what the bucket lacks now: the tokens left and the cost of what was
  allowed are together at most a burst and what the rate adds.
  The digipeater: `PathCorrect`. `PathInv` says that the used
  vias come first and which they are; the target splits a path in two, and the
  count of hops over a changed path is compared with that over the old one, via
  by via (`Sums`, `SameHops`).
  The filters: `VerdictsCorrect`. `ChainInv` says that every filter in the chain
  is one that `parse_filter` accepted.
* **BoardProofs**: `CountCorrect`, for any number of pages and any limit.
  `SlotTaken`, `SlotKept` and `SlotGivenBack` are the three ways in which a step
  can change who holds a slot; every way out of a stream must be the third.
  `OrderCorrect` and `CompleteCorrect`, by `PagesInv`: the ring increases and ends
  with the latest packet, what a page is being sent is beyond all it was sent
  before (`Ordered`), and of what was polled a page lacks only what is being sent
  (`Complete`). `TablesCorrect`: `StationsInv` adds
  the type of the entries, `CountersInv` that the set of gated stations, of
  which the dashboard shows only the size, is that of the stations judged gated.

Only model-checked are: all liveness (fairness and ENABLED are beyond the
prover), and that `parse_aprs` reads the reports of other stations as they are meant
(`ReportsRead`), which is a matter of the reports given.

## 5. Seen while modelling

What follows was seen on the way and has no run of its own, because a reader
sees it in the code or because no statement in the repository decides it.

* A write error while the pending lines are flushed drops the line and all behind
  it (aprsis.rs:163 sets out not to "drop queued data"); `ExactlyOnePlace` counts
  these lines as lost.
* Each outgoing line restarts the heartbeat timeout (aprsis.rs:67 speaks of server
  data), and each line buffered during the backoff restarts the backoff.
* The client notices that the router is gone only when a packet arrives
  (aprsis.rs:115).
* Dropping the write channel "to signal the client" (main.rs:465) does not: the
  iGate and beacon tasks hold clones. The client's timeout ends it.
* The deadline of an event stream, a "safety net for zombies" (server.rs:39), is
  not looked at during a write. A page's state event and the poll that follows
  send the same packets twice, once in each form.
* The header limit of a request accepts one header fewer than it names.
* `MAX_FRAME_LEN` (kiss.rs:12) is not checked for bytes that were escaped.
* Once the watchdog has fired the time it has left is zero, and the select's
  `sleep(0)` is ready at every pass until data arrives (serial.rs:200).
* `process_digipeat` makes a path of nine vias from one of eight; the next decoder
  rejects it (ax25.rs:164). It changes the text of a packet only, while
  `prepare_transmit` sends the AX.25 bytes the packet came with.
* FlexNet's sum misses seven bursts of two bytes, however many bytes follow (see Crc).
* The text of a frame drops every CR before the first LF, those within the line as
  well, although the comment says "strip trailing CR" (ax25.rs:219). A byte from 0x80
  on becomes the character of that number, so that a text in UTF-8 comes out encoded
  twice. `FramesKept` says so of these bytes instead of claiming that they are kept.
* An address with spaces between its characters is read without them, though only
  "trailing spaces" are to be trimmed (ax25.rs:80), and any other character is taken,
  such as the `,`, `>`, `-` or `*` that separate and mark addresses in the text: read
  from the text, such an address is not the one that was sent. The frame itself is
  sent on unchanged.
* Check bytes are never checked and never taken off: they become part of the text,
  more of them with every SMACK, FlexNet or BPQ link.
* `unique_stations_gated` counts the outer source of third-party packets.
* Several interfaces with one callsign are one to `find_by_callsign`, which
  returns the first.
* A serial interface ends for good when its port cannot be opened or fails; a TCP
  interface tries again.
* A beacon that runs a command does so with a blocking sleep, on the only thread.
  A shell that writes more than a pipe holds runs into its timeout, and one that
  leaves a process in the background with the pipe open holds the program up
  for as long as that goes on, and has what it writes sent with the beacon. An output that is cut within a character (beacon.rs) panics, and so
  does a duration that ends in a character of several bytes.
* The interval of a beacon is the cycle divided by the number of all beacons, those
  that are skipped included. Beacons with mode `both` or `radio` go to APRS-IS only.
* A minute that rounds to 60.00 is written and then rejected by the program's own
  parser. `is_aprs_format` accepts spaces at the ends and either axis' letter.
* `extract_position` takes what is between the first two colons: a colon as a
  symbol, as a base-91 digit or in an object's name loses the position. Latitudes
  such as 90°59' and base-91 digits up to 124 are accepted.
* The map of stations is never pruned.
* A line from APRS-IS that is not UTF-8 is a read error, and ends the connection.
* The PID file stays behind after a crash, and after `exit(1)` when the runtime
  cannot be built; it stays empty if its writing fails. It also stays, with the number
  of a process that ended in order, when it cannot be removed: main.rs:122 only warns.

## 6. Not modelled

The components list in `PROJECT.json` says why for each part. Telemetry, the
log entry of a packet and `aprs_passcode` are pure text, which nothing in the
program or nothing but the login line uses. Callsigns and symbols of D-PRS are
not converted here, since the program never calls the converter; its coordinates
are. The text of messages is left out of `AprsData`. Reading the configuration
file is serde's; what it says is a constant of the modules that use it. The
browser's code and the packaging are not part of the program.

`write_all` without a timeout is in the models as a step that the peer may never
allow; what is assumed of it for liveness is said in section 3.

## 7. Plan

Every component that keeps state is modelled. What could follow:

1. `DigiNetwork`, once the program starts digipeaters: those of `Digipeat`, each
   with its own duplicate check, filters and queue, in the order the code will fix.
2. The text of an address, `CALL-SSID*`, as characters that are parsed again, which would
   say which odd addresses become those of another station.
