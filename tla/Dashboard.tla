------------------------------ MODULE Dashboard ------------------------------
(***************************************************************************)
(* The dashboard: the ring of recent packets (src/src/web/mod.rs) and the   *)
(* connections that follow it over server-sent events                       *)
(* (src/src/web/server.rs).  Each connection is a task of its own; `at`     *)
(* names the await it is suspended at:                                      *)
(*    none        no connection                                             *)
(*    request     read_line_bounded, under a timeout, of a line of the      *)
(*                request                                                   *)
(*    responding  write_response                                            *)
(*    headers     write_all of the headers of the event stream              *)
(*    initial     send_sse_event of the state sent first                    *)
(*    idle        select! of the deadline and the two intervals             *)
(*    packets     send_sse_event of a packet                                *)
(*    state       send_sse_event of the state sent every five seconds       *)
(* A packet is its sequence number.  What a state event tells is the ring.  *)
(***************************************************************************)
EXTENDS Queues, FiniteSets

CONSTANTS
    Pages,       \* clients, each with at most one connection at a time
    RingCap,     \* MAX_RECENT_PACKETS
    MaxSse,      \* MAX_SSE_CONNECTIONS
    MaxHeaders,  \* MAX_HEADER_COUNT
    Lifetime,    \* SSE_MAX_LIFETIME_SECS, in ticks
    MaxPackets   \* bound: packets pushed

ASSUME DashboardAssumption ==
    /\ IsFiniteSet(Pages)
    /\ RingCap \in Nat \ {0} /\ MaxSse \in Nat /\ MaxHeaders \in Nat \ {0}
    /\ Lifetime \in Nat /\ MaxPackets \in Nat

VARIABLES
    sequence,  \* packet_sequence
    ring,      \* recent_packets
    count,     \* sse_count
    at,        \* the await each connection is suspended at
    headers,   \* header_count
    out,       \* the packets that are being sent
    last,      \* last_sequence
    age,       \* ticks since the deadline was set, saturating past it
    shown,     \* history: the packets the page was sent, in whatever event
    events,    \* history: the packets it was sent one by one, in order
    refreshed  \* history: a state was sent after the first one

state == <<sequence, ring>>
stream == <<out, last, age, shown, events, refreshed>>
vars == <<state, count, at, headers, stream>>

Streaming == {"idle", "packets", "state"}
Open      == {"headers", "initial"} \cup Streaming

Init ==
    /\ sequence = 0 /\ ring = <<>> /\ count = 0
    /\ at = [c \in Pages |-> "none"]
    /\ headers = [c \in Pages |-> 0]
    /\ out = [c \in Pages |-> <<>>]
    /\ last = [c \in Pages |-> 0]
    /\ age = [c \in Pages |-> 0]
    /\ shown = [c \in Pages |-> {}]
    /\ events = [c \in Pages |-> <<>>]
    /\ refreshed = [c \in Pages |-> FALSE]

\* A connection moves from one await to another.
Goes(c, from, to) == at[c] = from /\ at' = [at EXCEPT ![c] = to]

\* The task returns and with it goes what it held.
Forget(c) ==
    /\ at' = [at EXCEPT ![c] = "none"]
    /\ headers' = [headers EXCEPT ![c] = 0]
    /\ out' = [out EXCEPT ![c] = <<>>]
    /\ last' = [last EXCEPT ![c] = 0]
    /\ age' = [age EXCEPT ![c] = 0]
    /\ shown' = [shown EXCEPT ![c] = {}]
    /\ events' = [events EXCEPT ![c] = <<>>]
    /\ refreshed' = [refreshed EXCEPT ![c] = FALSE]

-----------------------------------------------------------------------------
\* push_packet, by the consumer of the router's packets.
Push ==
    /\ sequence < MaxPackets
    /\ sequence' = sequence + 1
    /\ ring' = Append(IF Len(ring) >= RingCap THEN Tail(ring) ELSE ring, sequence + 1)
    /\ UNCHANGED <<count, at, headers, stream>>

-----------------------------------------------------------------------------
(* handle_connection.                                                       *)

Accept(c) ==
    /\ Goes(c, "none", "request")
    /\ UNCHANGED <<state, count, headers, stream>>

\* A header line, one of too many at the limit.
ReadHeader(c) ==
    /\ Goes(c, "request", IF headers[c] + 1 >= MaxHeaders THEN "responding" ELSE "request")
    /\ headers' = [headers EXCEPT ![c] = @ + 1]
    /\ UNCHANGED <<state, count, stream>>

\* The request cannot be read, or asks for anything but the events.
Refuse(c) ==
    /\ Goes(c, "request", "responding")
    /\ UNCHANGED <<state, count, headers, stream>>

\* The client is silent for too long, or closes.
RequestTimeout(c) ==
    /\ at[c] = "request" /\ Forget(c)
    /\ UNCHANGED <<state, count>>

Respond(c) ==
    /\ at[c] = "responding" /\ Forget(c)
    /\ UNCHANGED <<state, count>>

\* GET /api/events: handle_sse takes a slot, or gives it back at once.
Subscribe(c) ==
    /\ Goes(c, "request", IF count < MaxSse THEN "headers" ELSE "responding")
    /\ count' = IF count < MaxSse THEN count + 1 ELSE count
    /\ UNCHANGED <<state, headers, stream>>

-----------------------------------------------------------------------------
(* handle_sse.                                                              *)

\* Of the whole state, what the events have to agree with.
to_json == ring

HeadersSent(c) ==
    /\ Goes(c, "headers", "initial")
    /\ out' = [out EXCEPT ![c] = to_json]
    /\ UNCHANGED <<state, count, headers, last, age, shown, events, refreshed>>

\* What was pushed during the send is not in the state that was sent, but
\* counts as sent: last_sequence is read only now.
InitialSent(c) ==
    /\ Goes(c, "initial", "idle")
    /\ shown' = [shown EXCEPT ![c] = Range(out[c])]
    /\ out' = [out EXCEPT ![c] = <<>>]
    /\ last' = [last EXCEPT ![c] = sequence]
    /\ UNCHANGED <<state, count, headers, age, events, refreshed>>

Newer(n) == Select(ring, n + 1 .. sequence)

\* Mutants: last_sequence stays behind; the first new packet is taken for old.
PollAgain(c) ==
    /\ Goes(c, "idle", "packets") /\ sequence > last[c]
    /\ out' = [out EXCEPT ![c] = Newer(last[c])]
    /\ UNCHANGED <<state, count, headers, last, age, shown, events, refreshed>>
PollSkips(c) ==
    /\ Goes(c, "idle", "packets") /\ sequence > last[c] + 1
    /\ out' = [out EXCEPT ![c] = Newer(last[c] + 1)]
    /\ last' = [last EXCEPT ![c] = sequence]
    /\ UNCHANGED <<state, count, headers, age, shown, events, refreshed>>

\* The poll interval: new packets are copied from the ring, and sent later.
Poll(c) ==
    /\ Goes(c, "idle", "packets") /\ sequence > last[c]
    /\ out' = [out EXCEPT ![c] = Newer(last[c])]
    /\ last' = [last EXCEPT ![c] = sequence]
    /\ UNCHANGED <<state, count, headers, age, shown, events, refreshed>>

PacketSent(c) ==
    /\ Goes(c, "packets", IF Len(out[c]) = 1 THEN "idle" ELSE "packets")
    /\ shown' = [shown EXCEPT ![c] = @ \cup {Head(out[c])}]
    /\ events' = [events EXCEPT ![c] = Append(@, Head(out[c]))]
    /\ out' = [out EXCEPT ![c] = Tail(@)]
    /\ UNCHANGED <<state, count, headers, last, age, refreshed>>

\* The state interval.
SendState(c) ==
    /\ Goes(c, "idle", "state")
    /\ out' = [out EXCEPT ![c] = to_json]
    /\ UNCHANGED <<state, count, headers, last, age, shown, events, refreshed>>

StateSent(c) ==
    /\ Goes(c, "state", "idle")
    /\ shown' = [shown EXCEPT ![c] = @ \cup Range(out[c])]
    /\ out' = [out EXCEPT ![c] = <<>>]
    /\ refreshed' = [refreshed EXCEPT ![c] = TRUE]
    /\ UNCHANGED <<state, count, headers, last, age, events>>

\* Mutant: one of the early returns does not give the slot back.
WriteFailLeaks(c) ==
    /\ at[c] \in Open \ {"idle"} /\ Forget(c)
    /\ count' = IF at[c] = "headers" THEN count ELSE count - 1
    /\ UNCHANGED state

\* Any of the writes fails.
WriteFail(c) ==
    /\ at[c] \in Open \ {"idle"} /\ Forget(c)
    /\ count' = count - 1
    /\ UNCHANGED state

\* Mutant: the deadline ends the loop only while nothing is new.
ExpireQuiet(c) ==
    /\ at[c] = "idle" /\ age[c] >= Lifetime /\ last[c] = sequence /\ Forget(c)
    /\ count' = count - 1
    /\ UNCHANGED state

\* The deadline.
Expire(c) ==
    /\ at[c] = "idle" /\ age[c] >= Lifetime /\ Forget(c)
    /\ count' = count - 1
    /\ UNCHANGED state

\* Time passes once the deadlines that are over have been seen.
Tick ==
    /\ \A c \in Pages : at[c] = "idle" => age[c] < Lifetime
    /\ age' = [c \in Pages |->
                  IF at[c] \in Streaming /\ age[c] <= Lifetime THEN age[c] + 1 ELSE age[c]]
    /\ UNCHANGED <<state, count, at, headers, out, last, shown, events, refreshed>>

Request(c) == Accept(c) \/ ReadHeader(c) \/ Refuse(c) \/ RequestTimeout(c) \/ Respond(c)
Written(c) == HeadersSent(c) \/ InitialSent(c) \/ PacketSent(c) \/ StateSent(c) \/ WriteFail(c)
Follow(c)  == Subscribe(c) \/ Written(c) \/ Poll(c) \/ SendState(c) \/ Expire(c)

Next == Push \/ Tick \/ \E c \in Pages : Request(c) \/ Follow(c)

Spec == Init /\ [][Next]_vars

\* Timers run, and the select, which chooses at random, takes each branch that
\* is ready again and again.  That a write returns depends on the page and is
\* not among these.
FairSpec ==
    /\ Spec
    /\ WF_vars(Tick)
    /\ \A c \in Pages : SF_vars(Expire(c))

-----------------------------------------------------------------------------
(* Properties.                                                              *)

TypeOK ==
    /\ sequence \in Nat /\ ring \in Seq(1 .. sequence) /\ Len(ring) <= RingCap
    /\ count \in Nat
    /\ at \in [Pages -> {"none", "request", "responding"} \cup Open]
    /\ headers \in [Pages -> 0 .. MaxHeaders]
    /\ out \in [Pages -> Seq(1 .. sequence)]
    /\ last \in [Pages -> 0 .. sequence]
    /\ age \in [Pages -> 0 .. Lifetime + 1]
    /\ shown \in [Pages -> SUBSET (1 .. sequence)]
    /\ events \in [Pages -> Seq(1 .. sequence)]
    /\ refreshed \in [Pages -> BOOLEAN]

\* The counter is the number of event streams that are open, on whatever path
\* each of them began and ended, and never above the limit.
SlotsCounted == count = Cardinality({c \in Pages : at[c] \in Open}) /\ count <= MaxSse

\* However the ring moves on while packets are being sent, a page gets each
\* packet at most once as an event of its own, and in order.
EventsInOrder ==
    \A c \in Pages :
        /\ Increasing(events[c])
        /\ at[c] = "packets" => Increasing(events[c] \o out[c])

\* Once a page was sent a second state, it has been sent every packet of the
\* ring up to its last poll.  (Before, it lacks what came during the first.)
CaughtUp ==
    \A c \in Pages : at[c] = "idle" /\ refreshed[c] => Range(ring) \cap 1 .. last[c] \subseteq shown[c]

\* An event stream ends and its slot is free again, if its page keeps reading:
\* the deadline is not looked at during a write.
SlotComesBack ==
    \A c \in Pages :
        WF_vars(Written(c)) => (at[c] \in Open ~> at[c] \notin Open)
=============================================================================
