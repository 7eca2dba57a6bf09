------------------------------- MODULE Router -------------------------------
(***************************************************************************)
(* The packet router of src/src/router.rs: one task that receives packets   *)
(* from the source channel and hands a copy of each to every registered     *)
(* consumer with try_send, on a bounded channel per consumer.               *)
(*                                                                          *)
(* The loop over the consumers holds no await, so that a packet reaches all *)
(* of them in one step.  Packets are numbered in the order the source       *)
(* channel accepted them.                                                   *)
(***************************************************************************)
EXTENDS Queues, FiniteSets

CONSTANTS
    Consumers,   \* the registered consumers (add_consumer)
    BufferSize,  \* BufferSize[c]: the capacity of c's channel
    SourceCap,   \* the capacity of the source channel
    MaxPackets   \* bound: packets offered to the router

ASSUME RouterAssumption ==
    /\ IsFiniteSet(Consumers)
    /\ BufferSize \in [Consumers -> Nat \ {0}]
    /\ SourceCap \in Nat \ {0}
    /\ MaxPackets \in Nat

VARIABLES
    source,   \* rx: the packets waiting to be routed
    senders,  \* TRUE while a sender of the source channel is alive
    running,  \* TRUE until run() returns and drops the consumers' senders
    queue,    \* queue[c]: the channel to c
    status,   \* status[c]: "reading", "gone" (receiver dropped), "ended" (recv saw None)
    offered,  \* history: packets the source channel accepted
    routed,   \* history: packets taken off it
    taken     \* history: taken[c], the packets c received, in order

vars == <<source, senders, running, queue, status, offered, routed, taken>>

Init ==
    /\ source = <<>> /\ senders = TRUE /\ running = TRUE
    /\ queue = [c \in Consumers |-> <<>>]
    /\ status = [c \in Consumers |-> "reading"]
    /\ offered = 0 /\ routed = 0
    /\ taken = [c \in Consumers |-> <<>>]

-----------------------------------------------------------------------------
\* An interface or the APRS-IS client gets a packet into the source channel.
Send ==
    /\ senders /\ Len(source) < SourceCap /\ offered < MaxPackets
    /\ offered' = offered + 1 /\ source' = Append(source, offered + 1)
    /\ UNCHANGED <<senders, running, queue, status, routed, taken>>

\* The last sender is dropped.
CloseSenders ==
    /\ senders /\ senders' = FALSE
    /\ UNCHANGED <<source, running, queue, status, offered, routed, taken>>

\* try_send returns Ok for c: its receiver is alive and its channel has room.
\* Mutant: one slot less than the channel has.
AcceptsOneLess(c) == status[c] = "reading" /\ Len(queue[c]) < BufferSize[c] - 1
Accepts(c)        == status[c] = "reading" /\ Len(queue[c]) < BufferSize[c]

\* recv returned a packet: it is offered to every consumer; for one whose
\* channel is full or closed it is dropped.
Route ==
    /\ running /\ source # <<>>
    /\ source' = Tail(source) /\ routed' = routed + 1
    /\ queue' = [c \in Consumers |-> IF Accepts(c) THEN Append(queue[c], Head(source))
                                                  ELSE queue[c]]
    /\ UNCHANGED <<senders, running, status, offered, taken>>

\* Mutant: the loop ends when the senders are gone, whatever is still queued.
RunReturnsEarly ==
    /\ running /\ ~senders
    /\ running' = FALSE
    /\ UNCHANGED <<source, senders, queue, status, offered, routed, taken>>

\* recv returned None: the channel is closed and drained, run() returns.
RunReturns ==
    /\ running /\ source = <<>> /\ ~senders
    /\ running' = FALSE
    /\ UNCHANGED <<source, senders, queue, status, offered, routed, taken>>

\* The consumer's recv returns its oldest packet.
Receive(c) ==
    /\ status[c] = "reading" /\ queue[c] # <<>>
    /\ taken' = [taken EXCEPT ![c] = Append(@, Head(queue[c]))]
    /\ queue' = [queue EXCEPT ![c] = Tail(@)]
    /\ UNCHANGED <<source, senders, running, status, offered, routed>>

\* Its recv returns None: the router is gone and the channel drained.
SeeEnd(c) ==
    /\ status[c] = "reading" /\ queue[c] = <<>> /\ ~running
    /\ status' = [status EXCEPT ![c] = "ended"]
    /\ UNCHANGED <<source, senders, running, queue, offered, routed, taken>>

\* The consumer drops its receiver, and with it what is queued.
DropReceiver(c) ==
    /\ status[c] = "reading"
    /\ status' = [status EXCEPT ![c] = "gone"]
    /\ queue' = [queue EXCEPT ![c] = <<>>]
    /\ UNCHANGED <<source, senders, running, offered, routed, taken>>

\* Everything has ended.
Done == ~running /\ (\A c \in Consumers : status[c] # "reading") /\ UNCHANGED vars

ConsumerStep(c) == Receive(c) \/ SeeEnd(c) \/ DropReceiver(c)

Next == \/ Send \/ CloseSenders \/ Route \/ RunReturns
        \/ \E c \in Consumers : ConsumerStep(c)
        \/ Done

Spec == Init /\ [][Next]_vars

-----------------------------------------------------------------------------
(* Properties.                                                              *)

TypeOK ==
    /\ source \in Seq(Nat) /\ Len(source) <= SourceCap
    /\ senders \in BOOLEAN /\ running \in BOOLEAN
    /\ queue \in [Consumers -> Seq(Nat)]
    /\ \A c \in Consumers : Len(queue[c]) <= BufferSize[c]
    /\ status \in [Consumers -> {"reading", "gone", "ended"}]
    /\ offered \in Nat /\ routed \in Nat
    /\ taken \in [Consumers -> Seq(Nat)]

\* Each consumer sees packets in the order they entered the router and none
\* twice, however many were dropped for it in between.
EachInOrder == \A c \in Consumers : Increasing(taken[c] \o queue[c])

Fanout == INSTANCE LossyFanout WITH
    Room      <- BufferSize,
    accepted  <- offered,
    count     <- routed,
    unread    <- [c \in Consumers |-> Range(queue[c])],
    listening <- {c \in Consumers : status[c] # "gone"},
    over      <- ~running,
    told      <- {c \in Consumers : status[c] = "ended"}

\* The router implements the lossy fan-out: what a consumer is given depends on
\* its own channel alone, a packet is dropped for it only when that is full, and
\* neither does the router end nor a consumer see the end before every packet
\* that was accepted has been routed and, where there was room, read.
FanoutSpec == Fanout!Spec
=============================================================================
