---------------------------- MODULE ProgramProofs ----------------------------
(***************************************************************************)
(* The parts of Program, each for every value of its constants.             *)
(*                                                                          *)
(* The router, for any set of consumers and any channel capacities: types,  *)
(* the order each consumer sees, that nothing is stranded at the end, and   *)
(* that it implements the lossy fan-out.  The registry, for any             *)
(* configuration: the word to stop reaches every interface.  The PID file,  *)
(* for any number of processes.                                             *)
(***************************************************************************)
EXTENDS Program, Timers, SharedLemmas

-----------------------------------------------------------------------------
(* The router.                                                              *)

\* The packets c was given: those it has taken, and those queued behind them.
Seen(c) == taken[c] \o queue[c]

\* The source channel holds the packets after the last one routed, in order.
SourceInv ==
    /\ Len(source) = offered - routed
    /\ \A i \in 1 .. Len(source) : source[i] = routed + i

\* A consumer was only given packets that were routed.
RoutedInv == \A c \in Consumers : \A i \in 1 .. Len(Seen(c)) : Seen(c)[i] <= routed

EndInv ==
    /\ ~running => source = <<>> /\ ~senders
    /\ \A c \in Consumers : status[c] = "ended" => ~running /\ queue[c] = <<>>

IInv == TypeOK /\ SourceInv /\ EachInOrder /\ RoutedInv /\ EndInv

-----------------------------------------------------------------------------
(* Types.                                                                   *)

LEMMA TypeInit == Init => TypeOK
<1>1. <<>> \in Seq(Nat) /\ Len(<<>>) = 0
  BY EmptyType
<1> QED BY <1>1, RouterAssumption DEF Init, TypeOK

\* What routing packet p does to the channels.
LEMMA RouteTypes ==
    ASSUME TypeOK, NEW p \in Nat, NEW c \in Consumers
    PROVE  LET q == IF Accepts(c) THEN Append(queue[c], p) ELSE queue[c]
           IN  q \in Seq(Nat) /\ Len(q) <= BufferSize[c]
<1>1. queue[c] \in Seq(Nat) /\ Len(queue[c]) <= BufferSize[c] /\ Len(queue[c]) \in Nat
  BY DEF TypeOK
<1>2. BufferSize[c] \in Nat
  BY RouterAssumption
<1>3. Append(queue[c], p) \in Seq(Nat) /\ Len(Append(queue[c], p)) = Len(queue[c]) + 1
  BY <1>1
<1> QED BY <1>1, <1>2, <1>3 DEF Accepts

LEMMA TypeStep == TypeOK /\ [Next]_vars => TypeOK'
<1> SUFFICES ASSUME TypeOK, [Next]_vars PROVE TypeOK'
  OBVIOUS
<1> USE DEF TypeOK
<1>1. CASE Send
  <2>1. source' \in Seq(Nat) /\ Len(source') <= SourceCap
    BY <1>1, RouterAssumption DEF Send
  <2> QED BY <1>1, <2>1 DEF Send
<1>2. CASE CloseSenders
  BY <1>2 DEF CloseSenders
<1>3. CASE Route
  <2>1. Head(source) \in Nat /\ source' \in Seq(Nat) /\ Len(source') <= SourceCap
    BY <1>3, RouterAssumption, TailType DEF Route
  <2>2. /\ queue' = [c \in Consumers |-> IF Accepts(c) THEN Append(queue[c], Head(source))
                                                       ELSE queue[c]]
        /\ routed' = routed + 1 /\ UNCHANGED <<senders, running, status, offered, taken>>
    BY <1>3 DEF Route
  <2>3. queue' \in [Consumers -> Seq(Nat)] /\ \A c \in Consumers : Len(queue'[c]) <= BufferSize[c]
    BY <2>1, <2>2, RouteTypes
  <2> QED BY <2>1, <2>2, <2>3
<1>4. CASE RunReturns
  BY <1>4 DEF RunReturns
<1>5. ASSUME NEW c \in Consumers, Receive(c) PROVE TypeOK'
  <2>1. /\ Head(queue[c]) \in Nat /\ Tail(queue[c]) \in Seq(Nat)
        /\ Len(Tail(queue[c])) = Len(queue[c]) - 1
    BY <1>5, TailType DEF Receive
  <2>2. Append(taken[c], Head(queue[c])) \in Seq(Nat)
    BY <2>1
  <2>3. Len(Tail(queue[c])) <= BufferSize[c]
    BY <2>1, RouterAssumption
  <2> QED BY <1>5, <2>1, <2>2, <2>3 DEF Receive
<1>6. ASSUME NEW c \in Consumers, SeeEnd(c) PROVE TypeOK'
  BY <1>6 DEF SeeEnd
<1>7. ASSUME NEW c \in Consumers, DropReceiver(c) PROVE TypeOK'
  <2>1. <<>> \in Seq(Nat) /\ Len(<<>>) <= BufferSize[c]
    BY EmptyType, RouterAssumption
  <2> QED BY <1>7, <2>1 DEF DropReceiver
<1>8. CASE UNCHANGED vars
  BY <1>8 DEF vars
<1> QED
  BY <1>1, <1>2, <1>3, <1>4, <1>5, <1>6, <1>7, <1>8 DEF Next, ConsumerStep, Done

-----------------------------------------------------------------------------
(* The invariant.                                                           *)

LEMMA InvInit == Init => IInv
<1> SUFFICES ASSUME Init PROVE IInv
  OBVIOUS
<1>1. TypeOK
  BY TypeInit
<1>2. <<>> \in Seq(Nat) /\ Len(<<>>) = 0 /\ <<>> \o <<>> = <<>>
  BY EmptyType, ConcatEmptySeq
<1>3. \A c \in Consumers : Seen(c) = <<>>
  BY <1>2 DEF Init, Seen
<1>4. EachInOrder /\ RoutedInv
  <2>1. \A c \in Consumers : Len(Seen(c)) = 0
    BY <1>2, <1>3
  <2>2. \A c \in Consumers : 1 .. Len(Seen(c)) = {}
    BY <2>1
  <2> QED BY <2>2, Zenon DEF EachInOrder, RoutedInv, Seen, Increasing
<1>5. SourceInv /\ EndInv
  BY <1>2 DEF Init, SourceInv, EndInv
<1> QED BY <1>1, <1>4, <1>5 DEF IInv

\* The next packet to route is the one after the last.
LEMMA NextRouted ==
    ASSUME TypeOK, SourceInv, source # <<>>
    PROVE  Head(source) = routed + 1
<1>1. Len(source) \in Nat \ {0} /\ Head(source) = source[1]
  BY DEF TypeOK
<1> QED BY <1>1 DEF SourceInv, TypeOK

LEMMA SourceStep == IInv /\ [Next]_vars => SourceInv'
<1> SUFFICES ASSUME IInv, [Next]_vars PROVE SourceInv'
  OBVIOUS
<1> USE DEF IInv
<1>1. CASE Send
  <2>1. /\ source \in Seq(Nat) /\ offered + 1 \in Nat /\ source' = Append(source, offered + 1)
        /\ offered' = offered + 1 /\ routed' = routed /\ routed \in Nat /\ offered \in Nat
    BY <1>1 DEF Send, TypeOK
  <2>2. /\ Len(source) = offered - routed
        /\ \A i \in 1 .. Len(source) : source[i] = routed + i
    BY DEF SourceInv
  <2>3. /\ Len(source) \in Nat /\ Len(source') = Len(source) + 1
        /\ source'[Len(source) + 1] = offered + 1
        /\ \A i \in 1 .. Len(source) : source'[i] = source[i]
    BY <2>1
  <2>4. offered + 1 = routed + (Len(source) + 1) /\ Len(source') = offered' - routed'
    BY <2>1, <2>2, <2>3
  <2>5. ASSUME NEW i \in 1 .. Len(source') PROVE source'[i] = routed' + i
    <3>1. CASE i \in 1 .. Len(source)
      BY <2>1, <2>2, <2>3, <3>1
    <3>2. CASE i = Len(source) + 1
      BY <2>1, <2>3, <2>4, <3>2
    <3> QED BY <2>3, <3>1, <3>2
  <2> QED BY <2>4, <2>5 DEF SourceInv
<1>2. CASE Route
  <2>1. /\ source \in Seq(Nat) /\ source # <<>> /\ source' = Tail(source)
        /\ routed' = routed + 1 /\ offered' = offered /\ routed \in Nat /\ offered \in Nat
    BY <1>2 DEF Route, TypeOK
  <2>2. /\ Len(source) \in Nat /\ Len(source') = Len(source) - 1
        /\ \A i \in 1 .. Len(source) - 1 : source'[i] = source[i + 1]
    BY <2>1
  <2> QED BY <2>1, <2>2 DEF SourceInv
<1>3. CASE UNCHANGED <<source, offered, routed>>
  BY <1>3 DEF SourceInv
<1> QED
  BY <1>1, <1>2, <1>3
  DEF Next, CloseSenders, RunReturns, ConsumerStep, Receive, SeeEnd, DropReceiver, Done, vars

LEMMA EndStep == IInv /\ [Next]_vars => EndInv'
<1> SUFFICES ASSUME IInv, [Next]_vars PROVE EndInv'
  OBVIOUS
<1> USE DEF IInv, EndInv
<1>1. CASE Send \/ CloseSenders \/ RunReturns
  BY <1>1 DEF Send, CloseSenders, RunReturns
<1>2. CASE Route
  <2>1. \A c \in Consumers : status'[c] # "ended"
    BY <1>2 DEF Route
  <2> QED BY <1>2, <2>1 DEF Route
<1>3. ASSUME NEW c \in Consumers, ConsumerStep(c) PROVE EndInv'
  <2>1. UNCHANGED <<running, source, senders>>
    BY <1>3 DEF ConsumerStep, Receive, SeeEnd, DropReceiver
  <2>2. ASSUME NEW d \in Consumers, status'[d] = "ended" PROVE ~running /\ queue'[d] = <<>>
    <3>1. CASE Receive(c)
      BY <3>1, <2>2 DEF Receive, TypeOK
    <3>2. CASE SeeEnd(c)
      BY <3>2, <2>2 DEF SeeEnd, TypeOK
    <3>3. CASE DropReceiver(c)
      BY <3>3, <2>2 DEF DropReceiver, TypeOK
    <3> QED BY <1>3, <3>1, <3>2, <3>3 DEF ConsumerStep
  <2> QED BY <2>1, <2>2
<1>4. CASE UNCHANGED vars
  BY <1>4 DEF vars
<1> QED BY <1>1, <1>2, <1>3, <1>4 DEF Next, Done

\* What a consumer was given is extended, or cut back to what it took, and
\* stays in order and within what was routed.
LEMMA SeenExtended ==
    ASSUME NEW s \in Seq(Nat), NEW n \in Nat, Increasing(s),
           \A i \in 1 .. Len(s) : s[i] <= n
    PROVE  /\ Increasing(Append(s, n + 1))
           /\ \A i \in 1 .. Len(Append(s, n + 1)) : Append(s, n + 1)[i] <= n + 1
<1>1. Before(Range(s), {n + 1}) /\ n + 1 \in Nat
  BY DEF Before, Range
<1>2. Increasing(Append(s, n + 1))
  BY <1>1, AppendIncreasing
<1>3. /\ Len(s) \in Nat /\ Len(Append(s, n + 1)) = Len(s) + 1
      /\ Append(s, n + 1)[Len(s) + 1] = n + 1
      /\ \A i \in 1 .. Len(s) : Append(s, n + 1)[i] = s[i]
  BY <1>1, AppendElements
<1>4. ASSUME NEW i \in 1 .. Len(s) + 1 PROVE Append(s, n + 1)[i] <= n + 1
  BY <1>3
<1> QED BY <1>2, <1>3, <1>4

LEMMA SeenStep == IInv /\ [Next]_vars => (EachInOrder /\ RoutedInv)'
<1> SUFFICES ASSUME IInv, [Next]_vars, NEW c \in Consumers
             PROVE  Increasing(Seen(c))' /\ (\A i \in 1 .. Len(Seen(c)) : Seen(c)[i] <= routed)'
  BY DEF EachInOrder, RoutedInv, Seen
<1>t. /\ taken[c] \in Seq(Nat) /\ queue[c] \in Seq(Nat) /\ Seen(c) \in Seq(Nat)
      /\ routed \in Nat
  BY ConcatProperties DEF IInv, TypeOK, Seen
<1>i. Increasing(Seen(c)) /\ \A i \in 1 .. Len(Seen(c)) : Seen(c)[i] <= routed
  BY DEF IInv, EachInOrder, RoutedInv, Seen
<1>1. CASE Route
  <2>1. Head(source) = routed + 1 /\ routed' = routed + 1
    BY <1>1, NextRouted DEF Route, IInv
  <2>2. CASE Accepts(c)
    <3>1. Seen(c)' = Append(Seen(c), routed + 1)
      <4>1. taken'[c] = taken[c] /\ queue'[c] = Append(queue[c], routed + 1)
        BY <1>1, <2>1, <2>2 DEF Route
      <4>2. taken[c] \o Append(queue[c], routed + 1) = Append(taken[c] \o queue[c], routed + 1)
        <5>1. routed + 1 \in Nat
          BY <1>t
        <5> QED BY <5>1, <1>t, TakenQueuedAppend, Zenon
      <4> QED BY <4>1, <4>2 DEF Seen
    <3> QED BY <3>1, <2>1, <1>t, <1>i, SeenExtended DEF Increasing
  <2>3. CASE ~Accepts(c)
    <3>1. Seen(c)' = Seen(c)
      BY <1>1, <2>3 DEF Route, Seen
    <3> QED BY <3>1, <2>1, <1>t, <1>i DEF Increasing
  <2> QED BY <2>2, <2>3
<1>2. CASE Seen(c)' = Seen(c) /\ routed' = routed
  BY <1>2, <1>i DEF Increasing
<1>3. ASSUME NEW d \in Consumers, Receive(d) PROVE Seen(c)' = Seen(c) /\ routed' = routed
  <2>1. CASE d = c
    <3>1. /\ queue[c] # <<>> /\ taken'[c] = Append(taken[c], Head(queue[c]))
          /\ queue'[c] = Tail(queue[c])
      BY <1>3, <2>1 DEF Receive, IInv, TypeOK
    <3> QED BY <3>1, <1>t, <1>3, TakenQueuedTake DEF Seen, Receive
  <2>2. CASE d # c
    BY <1>3, <2>2 DEF Receive, Seen, IInv, TypeOK
  <2> QED BY <2>1, <2>2
<1>4. ASSUME NEW d \in Consumers, DropReceiver(d)
      PROVE  Increasing(Seen(c))' /\ (\A i \in 1 .. Len(Seen(c)) : Seen(c)[i] <= routed)'
  <2>1. CASE d = c
    <3>1. Seen(c)' = taken[c] /\ routed' = routed
      <4>1. queue'[c] = <<>> /\ taken'[c] = taken[c]
        BY <1>4, <2>1 DEF DropReceiver, IInv, TypeOK
      <4> QED BY <4>1, <1>t, <1>4, ConcatEmptySeq DEF Seen, DropReceiver
    <3>2. Increasing(taken[c])
      BY <1>t, <1>i, PrefixIncreasing DEF Seen
    <3>3. \A i \in 1 .. Len(taken[c]) : i \in 1 .. Len(Seen(c)) /\ Seen(c)[i] = taken[c][i]
      BY <1>t, PrefixElements DEF Seen
    <3> QED BY <3>1, <3>2, <3>3, <1>i DEF Increasing
  <2>2. CASE d # c
    <3>1. Seen(c)' = Seen(c) /\ routed' = routed
      BY <1>4, <2>2 DEF DropReceiver, Seen, IInv, TypeOK
    <3> QED BY <3>1, <1>2
  <2> QED BY <2>1, <2>2
<1>5. CASE UNCHANGED <<taken, queue, routed>>
  BY <1>5, <1>2 DEF Seen
<1> QED
  BY <1>1, <1>2, <1>3, <1>4, <1>5
  DEF Next, Send, CloseSenders, RunReturns, ConsumerStep, SeeEnd, Done, vars

LEMMA Invariant == Spec => []IInv
<1>1. IInv /\ [Next]_vars => IInv'
  BY TypeStep, SourceStep, SeenStep, EndStep DEF IInv
<1> QED BY InvInit, <1>1, PTL DEF Spec

\* Every variable keeps its type, and every channel its capacity.
THEOREM TypeCorrect == Spec => []TypeOK
  BY Invariant, PTL DEF IInv

\* Whatever is dropped for whom, each consumer's packets are in router order.
THEOREM OrderCorrect == Spec => []EachInOrder
  BY Invariant, PTL DEF IInv

-----------------------------------------------------------------------------
(* Refinement.                                                              *)

\* The packets accepted and not yet routed are those in the source channel.
LEMMA AllRouted ==
    ASSUME IInv
    PROVE  /\ routed \in Nat /\ offered \in Nat
           /\ source = <<>> => routed = offered
           /\ source # <<>> => routed < offered
<1>1. source \in Seq(Nat) /\ Len(source) \in Nat /\ Len(source) = offered - routed
      /\ routed \in Nat /\ offered \in Nat
  BY DEF IInv, SourceInv, TypeOK
<1>2. source = <<>> <=> Len(source) = 0
  BY <1>1, EmptyType
<1> QED BY <1>1, <1>2

LEMMA FanoutInit == Init => Fanout!Init
<1> SUFFICES ASSUME Init PROVE Fanout!Init
  OBVIOUS
<1>1. /\ [c \in Consumers |-> Range(queue[c])] = [c \in Consumers |-> {}]
      /\ {c \in Consumers : status[c] # "gone"} = Consumers
      /\ {c \in Consumers : status[c] = "ended"} = {}
  BY RangeEmpty DEF Init
<1> QED BY <1>1 DEF Init, Fanout!Init

\* The channel has room exactly when the fan-out has: the packets in it differ.
LEMMA RoomIsRoom ==
    ASSUME IInv, running, NEW c \in Consumers
    PROVE  Accepts(c) <=> Fanout!HasRoom(c)
<1>1. queue[c] \in Seq(Nat) /\ taken[c] \in Seq(Nat) /\ Increasing(queue[c])
  BY PrefixIncreasing DEF IInv, TypeOK, EachInOrder
<1>2. Cardinality(Range(queue[c])) = Len(queue[c])
  BY <1>1, IncreasingCardinality
<1>3. c \in {d \in Consumers : status[d] # "gone"} <=> status[c] = "reading"
  BY DEF IInv, EndInv, TypeOK
<1>4. [d \in Consumers |-> Range(queue[d])][c] = Range(queue[c])
  OBVIOUS
<1>5. Fanout!Cardinality(Range(queue[c])) = Cardinality(Range(queue[c]))
  BY Zenon DEF Cardinality, Fanout!Cardinality
<1> QED BY <1>2, <1>3, <1>4, <1>5 DEF Accepts, Fanout!HasRoom

LEMMA FanoutStep == IInv /\ [Next]_vars => [Fanout!Next]_Fanout!vars
<1> SUFFICES ASSUME IInv, [Next]_vars PROVE [Fanout!Next]_Fanout!vars
  OBVIOUS
<1>1. CASE UNCHANGED <<offered, routed, queue, status, running>>
  BY <1>1 DEF Fanout!vars
<1>6. CASE Send
  <2>1. running /\ offered' = offered + 1 /\ UNCHANGED <<running, queue, status, routed>>
    BY <1>6 DEF Send, IInv, EndInv
  <2>2. Fanout!Accept
    BY <2>1 DEF Fanout!Accept
  <2> QED BY <2>2 DEF Fanout!Next
<1>7. CASE RunReturns
  <2>1. running /\ ~running' /\ routed = offered /\ UNCHANGED <<queue, status, offered, routed>>
    BY <1>7, AllRouted DEF RunReturns
  <2>2. Fanout!End
    BY <2>1 DEF Fanout!End
  <2> QED BY <2>2 DEF Fanout!Next
<1>2. CASE Route
  <2>1. Head(source) = routed + 1 /\ routed' = routed + 1 /\ running /\ status' = status
        /\ offered' = offered /\ running' = running /\ routed < offered
    BY <1>2, NextRouted, AllRouted DEF Route, IInv
  <2>2. ASSUME NEW c \in Consumers
        PROVE  Range(queue'[c]) = IF Fanout!HasRoom(c) THEN Range(queue[c]) \cup {routed + 1}
                                                       ELSE Range(queue[c])
    <3>1. queue'[c] = IF Accepts(c) THEN Append(queue[c], routed + 1) ELSE queue[c]
      BY <1>2, <2>1 DEF Route
    <3>2. Range(Append(queue[c], routed + 1)) = Range(queue[c]) \cup {routed + 1}
      <4>1. queue[c] \in Seq(Nat) /\ routed + 1 \in Nat
        BY DEF IInv, TypeOK
      <4> QED BY <4>1, RangeAppend
    <3> QED BY <3>1, <3>2, <2>1, RoomIsRoom
  <2>3. Fanout!Broadcast
    BY <2>1, <2>2 DEF Fanout!Broadcast
  <2> QED BY <2>3 DEF Fanout!Next
<1>3. ASSUME NEW c \in Consumers, Receive(c) PROVE Fanout!Next
  <2>1. /\ queue[c] \in Seq(Nat) /\ queue[c] # <<>> /\ taken[c] \in Seq(Nat)
        /\ queue' = [queue EXCEPT ![c] = Tail(@)] /\ queue \in [Consumers -> Seq(Nat)]
        /\ UNCHANGED <<offered, routed, status, running>>
    BY <1>3 DEF Receive, IInv, TypeOK
  <2>2. /\ Range(Tail(queue[c])) = Range(queue[c]) \ {Head(queue[c])}
        /\ Head(queue[c]) \in Range(queue[c])
        /\ \A q \in Range(queue[c]) : Head(queue[c]) <= q
    BY <2>1, PrefixIncreasing, TailElements DEF IInv, EachInOrder
  <2>3. [d \in Consumers |-> Range(queue'[d])] =
        [[d \in Consumers |-> Range(queue[d])] EXCEPT ![c] = @ \ {Head(queue[c])}]
    BY <2>1, <2>2
  <2>4. Fanout!Read(c)
    BY <2>1, <2>2, <2>3 DEF Fanout!Read
  <2> QED BY <2>4 DEF Fanout!Next
<1>4. ASSUME NEW c \in Consumers, DropReceiver(c) PROVE Fanout!Next
  <2>1. /\ queue' = [queue EXCEPT ![c] = <<>>] /\ queue \in [Consumers -> Seq(Nat)]
        /\ status[c] = "reading" /\ status' = [status EXCEPT ![c] = "gone"]
        /\ status \in [Consumers -> {"reading", "gone", "ended"}]
        /\ UNCHANGED <<offered, routed, running>>
    BY <1>4 DEF DropReceiver, IInv, TypeOK
  <2>2. [d \in Consumers |-> Range(queue'[d])] =
        [[d \in Consumers |-> Range(queue[d])] EXCEPT ![c] = {}]
    BY <2>1, RangeEmpty
  <2>3. {d \in Consumers : status'[d] # "gone"} = {d \in Consumers : status[d] # "gone"} \ {c}
    BY <2>1
  <2>5. {d \in Consumers : status'[d] = "ended"} = {d \in Consumers : status[d] = "ended"}
    BY <2>1
  <2>4. Fanout!Leave(c)
    BY <2>1, <2>2, <2>3, <2>5 DEF Fanout!Leave
  <2> QED BY <2>4 DEF Fanout!Next
<1>5. ASSUME NEW c \in Consumers, SeeEnd(c) PROVE Fanout!Next
  <2>1. /\ status[c] = "reading" /\ queue[c] = <<>> /\ ~running
        /\ status' = [status EXCEPT ![c] = "ended"]
        /\ status \in [Consumers -> {"reading", "gone", "ended"}]
        /\ UNCHANGED <<offered, routed, queue, running>>
    BY <1>5 DEF SeeEnd, IInv, TypeOK
  <2>2. {d \in Consumers : status'[d] # "gone"} = {d \in Consumers : status[d] # "gone"}
    BY <2>1
  <2>3. {d \in Consumers : status'[d] = "ended"} = {d \in Consumers : status[d] = "ended"} \cup {c}
    BY <2>1
  <2>4. [d \in Consumers |-> Range(queue[d])][c] = {}
    BY <2>1, RangeEmpty
  <2>5. Fanout!Tell(c)
    BY <2>1, <2>2, <2>3, <2>4 DEF Fanout!Tell
  <2> QED BY <2>5 DEF Fanout!Next
<1> QED
  BY <1>1, <1>2, <1>3, <1>4, <1>5, <1>6, <1>7
  DEF Next, CloseSenders, ConsumerStep, Done, vars

\* The router implements the lossy fan-out: what one consumer is given does not
\* depend on any other, and all that was accepted is routed before the end, for
\* any number of consumers with channels of any size.
THEOREM ImplementsFanout == Spec => FanoutSpec
  BY Invariant, FanoutInit, FanoutStep, PTL DEF Spec, FanoutSpec, Fanout!Spec

-----------------------------------------------------------------------------
(* The registry.                                                            *)

Commands   == {"Transmit", "Shutdown"}
Interfaces == {Wire!InterfaceMetadata(i, type) : i \in DOMAIN InterfaceConfig, type \in {"serial", "tcp", "ax25"}}

WiringTypeOK ==
    /\ phase \in {"starting", "up", "closing", "closed"} /\ next \in Nat \ {0}
    /\ handles \in Seq(Interfaces)
    /\ \A i \in tasks : \E k \in 1 .. Len(handles) : handles[k].place = i
    /\ cmds \in [DOMAIN InterfaceConfig -> Seq(Commands)]

Told(i) == i \in tasks => "Shutdown" \in Range(cmds[i])

\* The interfaces that shutdown_all has come past have been told, or are gone.
WiringInv ==
    /\ WiringTypeOK
    /\ phase = "closing" => \A k \in 1 .. Len(handles) : k < next => Told(handles[k].place)
    /\ phase = "closed"  => \A k \in 1 .. Len(handles) : Told(handles[k].place)

LEMMA ConfigIsSequence ==
    /\ Len(InterfaceConfig) \in Nat /\ DOMAIN InterfaceConfig = 1 .. Len(InterfaceConfig)
    /\ Wire!Sections = DOMAIN InterfaceConfig
  BY ProgramAssumption DEF Wire!Sections

LEMMA PlaceOf ==
    ASSUME NEW h \in Interfaces
    PROVE  h.place \in DOMAIN InterfaceConfig
  BY DEF Interfaces, Wire!InterfaceMetadata

\* A command is queued behind what is there.
LEMMA QueuedKeeps ==
    ASSUME WiringTypeOK, NEW i \in DOMAIN InterfaceConfig, NEW cmd \in Commands
    PROVE  /\ Wire!Queued(i, cmd) \in [DOMAIN InterfaceConfig -> Seq(Commands)]
           /\ \A j \in DOMAIN InterfaceConfig :
                 Range(Wire!Queued(i, cmd)[j]) =
                    IF j = i /\ i \in tasks THEN Range(cmds[j]) \cup {cmd} ELSE Range(cmds[j])
<1>1. cmds[i] \in Seq(Commands) /\ cmds \in [DOMAIN InterfaceConfig -> Seq(Commands)]
  BY DEF WiringTypeOK
<1>2. Append(cmds[i], cmd) \in Seq(Commands) /\ Range(Append(cmds[i], cmd)) = Range(cmds[i]) \cup {cmd}
  BY <1>1, RangeAppend
<1>3. CASE i \in tasks
  BY <1>1, <1>2, <1>3 DEF Wire!Queued
<1>4. CASE i \notin tasks
  BY <1>1, <1>4 DEF Wire!Queued
<1> QED BY <1>3, <1>4

\* A step that starts nothing, and after which whoever was told still is or is
\* gone, keeps the invariant.
LEMMA WordKept ==
    ASSUME WiringInv, tasks' \subseteq tasks, UNCHANGED <<phase, next, handles>>,
           cmds' \in [DOMAIN InterfaceConfig -> Seq(Commands)],
           \A i \in DOMAIN InterfaceConfig :
              i \in tasks' /\ "Shutdown" \in Range(cmds[i]) => "Shutdown" \in Range(cmds'[i])
    PROVE  WiringInv'
<1>1. \A k \in 1 .. Len(handles) : handles[k].place \in DOMAIN InterfaceConfig
  <2>1. ASSUME NEW k \in 1 .. Len(handles) PROVE handles[k] \in Interfaces
    BY DEF WiringInv, WiringTypeOK
  <2> QED BY <2>1, PlaceOf
<1>2. \A k \in 1 .. Len(handles) : Told(handles[k].place) => Told(handles[k].place)'
  BY <1>1 DEF Told
<1>3. WiringTypeOK'
  BY DEF WiringInv, WiringTypeOK
<1> QED BY <1>2, <1>3 DEF WiringInv

LEMMA WiringInit == Wire!Init => WiringInv
<1> SUFFICES ASSUME Wire!Init PROVE WiringInv
  OBVIOUS
<1>1. <<>> \in Seq(Interfaces) /\ <<>> \in Seq(Commands)
  BY EmptyType
<1> QED BY <1>1, ConfigIsSequence DEF Wire!Init, WiringInv, WiringTypeOK

LEMMA Registered ==
    ASSUME WiringInv, NEW iface \in Interfaces, Wire!register(iface)
    PROVE  /\ handles' \in Seq(Interfaces)
           /\ \A i \in tasks' : \E k \in 1 .. Len(handles') : handles'[k].place = i
<1>1. handles \in Seq(Interfaces) /\ handles' = Append(handles, iface) /\ tasks' = tasks \cup {iface.place}
  BY DEF WiringInv, WiringTypeOK, Wire!register
<1>2. /\ Len(handles) \in Nat /\ Len(handles') = Len(handles) + 1
      /\ handles'[Len(handles) + 1] = iface
      /\ \A k \in 1 .. Len(handles) : handles'[k] = handles[k]
  BY <1>1, AppendElements
<1>3. handles' \in Seq(Interfaces)
  BY <1>1
<1>4. ASSUME NEW i \in tasks' PROVE \E k \in 1 .. Len(handles') : handles'[k].place = i
  <2>1. CASE i \in tasks
    <3>1. PICK k \in 1 .. Len(handles) : handles[k].place = i
      BY <2>1 DEF WiringInv, WiringTypeOK
    <3>2. k \in 1 .. Len(handles')
      BY <1>2
    <3> QED BY <1>2, <3>1, <3>2
  <2>2. CASE i = iface.place
    <3>1. Len(handles) + 1 \in 1 .. Len(handles')
      BY <1>2
    <3> QED BY <1>2, <2>2, <3>1
  <2> QED BY <1>1, <2>1, <2>2
<1> QED BY <1>3, <1>4

LEMMA WiringStep == WiringInv /\ Wire!Next => WiringInv'
<1> SUFFICES ASSUME WiringInv, Wire!Next PROVE WiringInv'
  OBVIOUS
<1> USE ConfigIsSequence
<1>1. CASE Wire!StartSection
  <2>1. /\ phase = "starting" /\ next \in DOMAIN InterfaceConfig /\ next' = next + 1
        /\ phase' = phase /\ cmds' = cmds
    BY <1>1 DEF Wire!StartSection, WiringInv, WiringTypeOK
  <2>2. CASE UNCHANGED <<handles, tasks>>
    BY <2>1, <2>2 DEF WiringInv, WiringTypeOK
  <2>3. ASSUME NEW iface \in {Wire!TcpKissInterface(next), Wire!SerialInterface(next)}, Wire!register(iface)
        PROVE  WiringInv'
    <3>1. iface \in Interfaces
      BY <2>1, <2>3 DEF Interfaces, Wire!TcpKissInterface, Wire!SerialInterface
    <3> QED BY <2>1, <2>3, <3>1, Registered DEF WiringInv, WiringTypeOK
  <2> QED BY <1>1, <2>2, <2>3 DEF Wire!StartSection
<1>2. CASE Wire!Started
  BY <1>2 DEF Wire!Started, WiringInv, WiringTypeOK
<1>3. CASE Wire!Interrupt
  <2>1. phase' = "closing" /\ next' = 1 /\ UNCHANGED <<handles, tasks, cmds>>
    BY <1>3 DEF Wire!Interrupt
  <2>2. \A k \in 1 .. Len(handles') : ~(k < next')
    BY <2>1
  <2> QED BY <2>1, <2>2 DEF WiringInv, WiringTypeOK
<1>4. CASE Wire!ShutdownNext
  <2> DEFINE i == handles[next].place
  <2>1. /\ phase = "closing" /\ next \in 1 .. Len(handles) /\ next' = next + 1
        /\ cmds' = Wire!Queued(i, "Shutdown") /\ UNCHANGED <<phase, handles, tasks>>
    BY <1>4 DEF Wire!ShutdownNext, WiringInv, WiringTypeOK
  <2>2. \A k \in 1 .. Len(handles) : handles[k].place \in DOMAIN InterfaceConfig
    BY PlaceOf DEF WiringInv, WiringTypeOK
  <2>3. /\ cmds' \in [DOMAIN InterfaceConfig -> Seq(Commands)]
        /\ \A j \in DOMAIN InterfaceConfig :
              Range(cmds'[j]) = IF j = i /\ i \in tasks THEN Range(cmds[j]) \cup {"Shutdown"} ELSE Range(cmds[j])
    BY <2>1, <2>2, QueuedKeeps DEF WiringInv, Commands
  <2>4. ASSUME NEW k \in 1 .. Len(handles), k < next + 1 PROVE Told(handles[k].place)'
    <3>1. CASE k = next
      BY <2>1, <2>2, <2>3, <3>1 DEF Told
    <3>2. CASE k # next
      <4>1. k < next /\ Told(handles[k].place)
        BY <2>1, <2>4, <3>2 DEF WiringInv
      <4> QED BY <2>1, <2>2, <2>3, <4>1 DEF Told
    <3> QED BY <3>1, <3>2
  <2> QED BY <2>1, <2>3, <2>4 DEF WiringInv, WiringTypeOK
<1>5. CASE Wire!ShutdownOver
  <2>1. \A k \in 1 .. Len(handles) : k < next
    BY <1>5 DEF Wire!ShutdownOver, WiringInv, WiringTypeOK
  <2>2. phase = "closing" /\ phase' = "closed" /\ UNCHANGED <<next, handles, tasks, cmds>>
    BY <1>5 DEF Wire!ShutdownOver
  <2>3. \A k \in 1 .. Len(handles) : Told(handles[k].place)'
    BY <2>1, <2>2 DEF WiringInv, Told
  <2> QED BY <2>2, <2>3 DEF WiringInv, WiringTypeOK
<1>6. CASE Wire!Done
  BY <1>6, WordKept DEF Wire!Done, Wire!vars, WiringInv, WiringTypeOK
<1>7. ASSUME NEW i \in DOMAIN InterfaceConfig \cup {0}, Wire!Hear(i) PROVE WiringInv'
  BY <1>7, WordKept DEF Wire!Hear, WiringInv, WiringTypeOK
<1>8. ASSUME NEW i \in DOMAIN InterfaceConfig, Wire!RegisterByHand(i) PROVE WiringInv'
  <2>1. Wire!Ax25KernelInterface(i) \in Interfaces
    BY DEF Interfaces, Wire!Ax25KernelInterface
  <2> QED BY <1>8, <2>1, Registered DEF Wire!RegisterByHand, WiringInv, WiringTypeOK
<1>9. ASSUME NEW i \in DOMAIN InterfaceConfig, NEW cmd \in Commands, Wire!Ask(i, cmd) PROVE WiringInv'
  BY <1>9, QueuedKeeps, WordKept DEF Wire!Ask, WiringInv
<1>10. ASSUME NEW i \in DOMAIN InterfaceConfig, Wire!TakeTransmit(i) PROVE WiringInv'
  <2>1. /\ cmds[i] \in Seq(Commands) /\ cmds[i] # <<>> /\ Head(cmds[i]) = "Transmit"
        /\ cmds' = [cmds EXCEPT ![i] = Tail(cmds[i])] /\ UNCHANGED <<phase, next, handles, tasks>>
    BY <1>10 DEF Wire!TakeTransmit, WiringInv, WiringTypeOK
  <2>2. Tail(cmds[i]) \in Seq(Commands) /\ Range(cmds[i]) = {"Transmit"} \cup Range(Tail(cmds[i]))
    BY <2>1, TailType, TakeElements
  <2> QED BY <2>1, <2>2, WordKept DEF WiringInv, WiringTypeOK
<1>11. ASSUME NEW i \in DOMAIN InterfaceConfig, Wire!Ends(i), UNCHANGED <<phase, next, handles>>
       PROVE  WiringInv'
  BY <1>11, EmptyType, WordKept DEF Wire!Ends, WiringInv, WiringTypeOK
<1>12. ASSUME NEW i \in DOMAIN InterfaceConfig, Wire!TakeShutdown(i) \/ Wire!SerialFails(i)
       PROVE  WiringInv'
  BY <1>11, <1>12 DEF Wire!TakeShutdown, Wire!SerialFails
<1> QED
  BY <1>1, <1>2, <1>3, <1>4, <1>5, <1>6, <1>7, <1>8, <1>9, <1>10, <1>12 DEF Wire!Next, Wire!APRSIS, Commands

LEMMA WiringStays == WiringInv /\ UNCHANGED wiringVars => WiringInv'
  BY DEF WiringInv, WiringTypeOK, Told, wiringVars

\* Once shutdown_all is over every interface has been told to stop or has
\* stopped, in any configuration, with whatever commands asked before.
THEOREM ShutdownCorrect == ProgramSpec => []ShutdownReaches
<1>1. ProgramInit => WiringInv
  BY WiringInit DEF ProgramInit
<1>2. WiringInv /\ [ProgramNext]_programVars => WiringInv'
  BY WiringStep, WiringStays DEF ProgramNext, Routing, Wires, Process, programVars
<1>3. WiringInv => ShutdownReaches
  BY DEF WiringInv, WiringTypeOK, Told, ShutdownReaches, Wire!ShutdownReaches, Range, Wire!Range
<1> QED BY <1>1, <1>2, <1>3, PTL DEF ProgramSpec

-----------------------------------------------------------------------------
(* The process and its PID file.                                            *)

DaemonTypeOK ==
    /\ life \in [Pids -> {"new", "opening", "writing", "building", "running", "leaving",
                          "exited", "warned", "failed", "crashed"}]
    /\ made \in [Pids -> BOOLEAN]
    /\ file \in Pids \cup {"empty", "none"} /\ maker \in Pids \cup {"none"}

\* A process that is to write its number is the one that made the file, and
\* has not written yet; what is there was made by somebody.
DaemonInv ==
    /\ DaemonTypeOK
    /\ file = "none" <=> maker = "none"
    /\ file \in Pids => file = maker /\ made[maker]
    /\ file = "empty" => ~made[maker]
    /\ \A p \in Pids : life[p] = "writing" => file = "empty" /\ maker = p /\ ~made[p]
    /\ \A p \in Pids : made[p] => life[p] \notin {"new", "opening", "writing"}
    /\ \A p \in Pids : made[p] /\ ~Proc!Over(p) => file = p /\ maker = p
    /\ \A p \in Pids : made[p] /\ life[p] = "exited" => file # p

LEMMA NoSuchPid == "empty" \notin Pids /\ "none" \notin Pids
  BY ProgramAssumption

LEMMA DaemonInit == Proc!Init => DaemonInv
  BY NoSuchPid DEF Proc!Init, DaemonInv, DaemonTypeOK

LEMMA DaemonStep == DaemonInv /\ Proc!Next => DaemonInv'
<1> SUFFICES ASSUME DaemonInv, Proc!Next PROVE DaemonInv'
  OBVIOUS
<1> USE NoSuchPid DEF DaemonInv, DaemonTypeOK, Proc!Over
<1>1. CASE Proc!ClearStale
  BY <1>1 DEF Proc!ClearStale
<1>2. CASE Proc!Done
  BY <1>2 DEF Proc!Done, Proc!vars
<1> USE DEF Proc!Goes
\* The steps that leave the file alone.
<1>3. ASSUME NEW p \in Pids, NEW to \in {"exited", "opening", "building", "running", "failed", "leaving", "warned"},
             Proc!Goes(p, life[p], to), UNCHANGED <<made, file, maker>>,
             life[p] \notin {"exited", "warned", "failed", "crashed"},
             life[p] = "writing" => to = "building",
             to = "opening" => life[p] = "new",
             to = "exited" => ~made[p]
      PROVE  DaemonInv'
  BY <1>3
<1>4. ASSUME NEW p \in Pids, Proc!Create(p) PROVE DaemonInv'
  BY <1>4 DEF Proc!Create
<1>5. ASSUME NEW p \in Pids, Proc!Write(p) PROVE DaemonInv'
  BY <1>5 DEF Proc!Write
<1>6. ASSUME NEW p \in Pids, Proc!Remove(p) PROVE DaemonInv'
  BY <1>6 DEF Proc!Remove
<1>7. ASSUME NEW p \in Pids, Proc!Crash(p) PROVE DaemonInv'
  BY <1>7 DEF Proc!Crash
<1>8. ASSUME NEW p \in Pids,
             \/ Proc!Refuse(p) \/ Proc!Foreground(p) \/ Proc!Background(p)
             \/ Proc!CreateFails(p) \/ Proc!WriteFails(p)
             \/ Proc!Run(p) \/ Proc!RunFails(p) \/ Proc!Return(p) \/ Proc!RemoveFails(p)
      PROVE  DaemonInv'
  BY <1>3, <1>8 DEF Proc!Refuse, Proc!Foreground, Proc!Background, Proc!CreateFails,
                    Proc!WriteFails, Proc!Run, Proc!RunFails, Proc!Return, Proc!RemoveFails
<1> QED BY <1>1, <1>2, <1>4, <1>5, <1>6, <1>7, <1>8 DEF Proc!Next

LEMMA DaemonStays == DaemonInv /\ UNCHANGED daemonVars => DaemonInv'
  BY DEF DaemonInv, DaemonTypeOK, Proc!Over, daemonVars

\* However many instances start, fail, crash and end around one PID file, each
\* keeps what it made as long as it runs; and a number it leaves behind is that
\* of one that crashed, could not build its runtime or could not remove the file.
THEOREM PidCorrect == ProgramSpec => []PidOwned
<1>1. ProgramInit => DaemonInv
  BY DaemonInit DEF ProgramInit
<1>2. DaemonInv /\ [ProgramNext]_programVars => DaemonInv'
  BY DaemonStep, DaemonStays DEF ProgramNext, Routing, Wires, Process, programVars
<1>3. DaemonInv => PidOwned
  BY NoSuchPid DEF DaemonInv, DaemonTypeOK, PidOwned, Proc!PidOwned, Proc!Over
<1> QED BY <1>1, <1>2, <1>3, PTL DEF ProgramSpec

-----------------------------------------------------------------------------
(* The beacon task.                                                         *)

LEMMA MaxOfTwo ==
    ASSUME NEW x \in Int, NEW y \in Int
    PROVE  Bcn!Max({x, y}) = IF x >= y THEN x ELSE y
<1> DEFINE P(m) == m \in {x, y} /\ \A z \in {x, y} : m >= z
           m == IF x >= y THEN x ELSE y
<1>1. P(m) /\ \A n : P(n) => n = m
  OBVIOUS
<1>2. P(CHOOSE n : P(n))
  BY <1>1
<1>3. Bcn!Max({x, y}) = CHOOSE n : P(n)
  BY DEF Bcn!Max
<1> QED BY <1>1, <1>2, <1>3

LEMMA MinOfTwo ==
    ASSUME NEW x \in Int, NEW y \in Int
    PROVE  Bcn!Min({x, y}) = IF x <= y THEN x ELSE y
<1> DEFINE P(m) == m \in {x, y} /\ \A z \in {x, y} : m <= z
           m == IF x <= y THEN x ELSE y
<1>1. P(m) /\ \A n : P(n) => n = m
  OBVIOUS
<1>2. P(CHOOSE n : P(n))
  BY <1>1
<1>3. Bcn!Min({x, y}) = CHOOSE n : P(n)
  BY DEF Bcn!Min
<1> QED BY <1>1, <1>2, <1>3

LEMMA CycleType ==
    ASSUME NEW b \in DOMAIN Config
    PROVE  Bcn!Cycle(b) \in Nat
<1> DEFINE given == UNION {Bcn!parse_duration(d) : d \in Config[b].cycle}
<1>1. ASSUME NEW d PROVE Bcn!parse_duration(d) \subseteq Nat /\ \A x, y \in Bcn!parse_duration(d) : x = y
  <2>1. CASE d.unit \notin DOMAIN Bcn!Seconds \/ d.number \notin Nat
    BY <2>1 DEF Bcn!parse_duration
  <2>2. CASE ~(d.unit \notin DOMAIN Bcn!Seconds \/ d.number \notin Nat)
    <3>1. Bcn!parse_duration(d) = {d.number * Bcn!Seconds[d.unit]}
      BY <2>2 DEF Bcn!parse_duration
    <3>2. Bcn!Seconds[d.unit] \in Nat
      BY <2>2 DEF Bcn!Seconds
    <3> DEFINE s == Bcn!Seconds[d.unit]
               n == d.number
    <3>3. s \in Nat /\ n \in Nat
      BY <2>2, <3>2
    <3> HIDE DEF s, n
    <3>4. n * s \in Nat
      BY <3>3
    <3> QED BY <3>1, <3>4 DEF s, n
  <2> QED BY <2>1, <2>2
<1>2. given \subseteq Nat /\ \A x, y \in given : x = y
  BY <1>1, TimersAssumption
<1>3. CASE given = {}
  BY <1>3, TimersAssumption DEF Bcn!Cycle
<1>4. CASE given # {}
  <2> HIDE DEF given
  <2>1. PICK x : x \in given
    BY <1>4
  <2>2. given = {x} /\ x \in Nat
    BY <1>2, <2>1
  <2>3. Bcn!Max({x, x}) = x /\ {x, x} = {x}
    BY <2>2, MaxOfTwo
  <2> QED BY <1>4, <2>2, <2>3 DEF Bcn!Cycle, given
<1> QED BY <1>3, <1>4

LEMMA IntervalType ==
    ASSUME NEW b \in Bcn!Beacons
    PROVE  Bcn!Interval(b) \in Nat
<1>1. Len(Config) \in Nat \ {0} /\ b \in DOMAIN Config
  BY TimersAssumption DEF Bcn!Beacons
<1>2. Bcn!Cycle(b) \in Nat
  BY <1>1, CycleType
<1> DEFINE c == Bcn!Cycle(b)
           n == Len(Config)
<1> HIDE DEF c, n
<1>3. \A i \in Nat, j \in Nat \ {0} : i \div j \in Nat
  OBVIOUS
<1> QED BY <1>1, <1>2, <1>3 DEF Bcn!Interval

\* For every beacon, the time since it fired and the time until it does make
\* up 80% of its interval at least.
WaitingOK(b) ==
    /\ wait[b] \in Nat /\ last[b] \in Nat
    /\ 10 * (last[b] + wait[b]) >= 8 * Bcn!Interval(b)

BeaconsInv ==
    /\ wait \in [Bcn!Beacons -> Nat] /\ last \in [Bcn!Beacons -> Nat]
    /\ \A b \in Bcn!Beacons : WaitingOK(b)

LEMMA JitteredType ==
    ASSUME NEW b \in Bcn!Beacons, NEW d \in Bcn!Jittered(b)
    PROVE  d \in Nat /\ 10 * d >= 8 * Bcn!Interval(b)
  BY IntervalType DEF Bcn!Jittered

LEMMA BeaconsInit == Bcn!Init => BeaconsInv
<1> SUFFICES ASSUME Bcn!Init PROVE BeaconsInv
  OBVIOUS
<1>1. ASSUME NEW b \in Bcn!Beacons
      PROVE  /\ wait[b] \in Nat /\ last[b] = Bcn!Interval(b) /\ Bcn!Interval(b) \in Nat
             /\ 10 * wait[b] >= 8 * Bcn!Interval(b)
  BY JitteredType, IntervalType DEF Bcn!Init
<1>2. DOMAIN wait = Bcn!Beacons /\ wait = [b \in Bcn!Beacons |-> wait[b]]
      /\ last = [b \in Bcn!Beacons |-> Bcn!Interval(b)]
  BY DEF Bcn!Init
<1>3. wait \in [Bcn!Beacons -> Nat] /\ last \in [Bcn!Beacons -> Nat]
  BY <1>1, <1>2
<1>4. \A b \in Bcn!Beacons : WaitingOK(b)
  BY <1>1 DEF WaitingOK
<1> QED BY <1>3, <1>4 DEF BeaconsInv

LEMMA BeaconsPoll == ASSUME BeaconsInv, Bcn!Poll PROVE BeaconsInv'
<1>1. PICK w \in [Bcn!Due -> 0 .. Bcn!Longest] :
         /\ \A b \in Bcn!Due : w[b] \in Bcn!Jittered(b)
         /\ wait' = [b \in Bcn!Beacons |-> IF b \in Bcn!Due THEN w[b] ELSE wait[b]]
  BY DEF Bcn!Poll, Bcn!Fire
<1>2. last' = [b \in Bcn!Beacons |-> IF b \in Bcn!Due THEN 0 ELSE last[b]]
  BY DEF Bcn!Poll, Bcn!Fire
<1>3. ASSUME NEW b \in Bcn!Beacons PROVE WaitingOK(b)'
  <2>1. CASE b \in Bcn!Due
    <3>1. wait'[b] \in Nat /\ 10 * wait'[b] >= 8 * Bcn!Interval(b) /\ last'[b] = 0
      BY <1>1, <1>2, <2>1, JitteredType
    <3> QED BY <3>1 DEF WaitingOK
  <2>2. CASE b \notin Bcn!Due
    BY <1>1, <1>2, <2>2 DEF BeaconsInv, WaitingOK
  <2> QED BY <2>1, <2>2
<1>4. \A b \in Bcn!Beacons : wait'[b] \in Nat /\ last'[b] \in Nat
  BY <1>3 DEF WaitingOK
<1> QED BY <1>1, <1>2, <1>3, <1>4 DEF BeaconsInv

LEMMA BeaconsTick == ASSUME BeaconsInv, Bcn!Tick PROVE BeaconsInv'
<1>1. /\ wait' = [b \in Bcn!Beacons |-> Bcn!Max({wait[b] - 1, 0})]
      /\ last' = [b \in Bcn!Beacons |-> Bcn!Min({last[b] + 1, Bcn!Interval(b)})]
  BY DEF Bcn!Tick
<1>2. ASSUME NEW b \in Bcn!Beacons PROVE WaitingOK(b)'
  <2>1. /\ wait[b] \in Nat /\ last[b] \in Nat /\ Bcn!Interval(b) \in Nat
        /\ 10 * (last[b] + wait[b]) >= 8 * Bcn!Interval(b)
    BY IntervalType DEF BeaconsInv, WaitingOK
  <2>2. /\ wait'[b] = (IF wait[b] - 1 >= 0 THEN wait[b] - 1 ELSE 0)
        /\ last'[b] = (IF last[b] + 1 <= Bcn!Interval(b) THEN last[b] + 1 ELSE Bcn!Interval(b))
    BY <1>1, <2>1, MaxOfTwo, MinOfTwo
  <2> QED BY <2>1, <2>2 DEF WaitingOK
<1>3. \A b \in Bcn!Beacons : wait'[b] \in Nat /\ last'[b] \in Nat
  BY <1>2 DEF WaitingOK
<1> QED BY <1>1, <1>2, <1>3 DEF BeaconsInv

LEMMA BeaconsStep == ASSUME BeaconsInv, [TimersNext]_timersVars PROVE BeaconsInv'
<1>1. CASE UNCHANGED beaconVars
  BY <1>1 DEF beaconVars, BeaconsInv, WaitingOK
<1>2. CASE Bcn!Next
  BY <1>1, <1>2, BeaconsPoll, BeaconsTick
     DEF Bcn!Next, Bcn!Send, Bcn!SendFail, beaconVars, BeaconsInv, WaitingOK
<1> QED BY <1>1, <1>2 DEF TimersNext, BeaconTask, BeaconFire, ErlangTask, TimersDone, timersVars

\* However late the task is polled, however long a send holds it up, and for
\* any beacons, no beacon fires before 80% of its interval have passed.
THEOREM SpacingCorrect == TimersSpec => Spacing
<1>1. TimersInit => BeaconsInv
  BY BeaconsInit DEF TimersInit
<1>2. ASSUME BeaconsInv, Bcn!Poll, NEW b \in Bcn!Due PROVE 10 * last[b] >= 8 * Bcn!Interval(b)
  <2>1. b \in Bcn!Beacons /\ wait[b] = 0 /\ WaitingOK(b)
    BY <1>2 DEF Bcn!Due, BeaconsInv
  <2> QED BY <2>1, IntervalType DEF WaitingOK
<1>3. BeaconsInv /\ [TimersNext]_timersVars
        => [Bcn!Poll => \A b \in Bcn!Due : 10 * last[b] >= 8 * Bcn!Interval(b)]_Bcn!beaconVars
  BY <1>2
<1> QED BY <1>1, <1>3, BeaconsStep, PTL DEF TimersSpec, Spacing, Bcn!Spacing

-----------------------------------------------------------------------------
(* The command that makes the text of a beacon.                             *)

Command == firing.content

\* Where the call is, and what it knows of the shell.
CallInv ==
    /\ step \in {"idle", "check", "sleep", "read", "done", "aborted"}
    /\ child \in {"none", "runs", "exited", "reaped"} /\ held \in BOOLEAN
    /\ toWrite \in Nat /\ toAdd \in Nat /\ pipe \in Nat /\ waited \in Nat
    /\ step = "idle" => child = "none" /\ said = <<>> /\ pipe = 0 /\ ~held
    /\ child = "none" => step \in {"idle", "done", "aborted"} /\ waited = 0
    /\ step \in {"check", "sleep"} => child \in {"runs", "exited"}
    /\ step \in {"read", "done", "aborted"} => child \in {"none", "reaped"}

\* What the shell and the process it left behind have written is in the pipe
\* until it is read, all that the shell had to write if it was successful.
WrittenInv ==
    child # "none" =>
        /\ Command.text.len \in Nat /\ Command.left \in Nat /\ (held => Command.leaves)
        /\ toAdd <= Command.left
        /\ step \in {"check", "sleep", "read"} =>
              toWrite + toAdd + pipe = Command.text.len + Command.left
        /\ step \in {"check", "sleep"} => pipe <= PipeSize
        /\ child = "exited" => Command.ends /\ (Command.succeeds => toWrite = 0)
        /\ step = "read" => /\ Command.succeeds /\ Command.ends /\ toWrite = 0
                           /\ Command.text.len <= PipeSize

\* How long it was waited for.
WaitedInv ==
    child # "none" =>
        /\ step = "check" => waited <= Timeout + 1
        /\ step = "sleep" => waited <= Timeout
        /\ waited > Timeout + 1 => step \in {"read", "done", "aborted"} /\ Command.leaves

SaidInv ==
    (child # "none" /\ said # <<>>) =>
        /\ step \in {"done", "aborted"} /\ Command.succeeds /\ Command.ends
        /\ Command.text.len <= PipeSize
        /\ said.text = Txt!Min({Command.text.len + (Command.left - toAdd), MAX_BEACON_OUTPUT_LEN})

TextInv == CallInv /\ WrittenInv /\ WaitedInv /\ SaidInv

LEMMA TextInit == Txt!Init => TextInv
<1> SUFFICES ASSUME Txt!Init PROVE TextInv
  OBVIOUS
<1>1. CallInv
  BY DEF Txt!Init, CallInv
<1>2. WrittenInv /\ WaitedInv /\ SaidInv
  BY DEF Txt!Init, WrittenInv, WaitedInv, SaidInv
<1> QED BY <1>1, <1>2 DEF TextInv

LEMMA TextFire ==
    ASSUME TextInv, NEW c \in Contents, NEW v,
           Txt!FireFixed(c, v) \/ Txt!FireFile(c, v) \/ Txt!FireCommand(c, v)
    PROVE  TextInv'
<1> USE DEF TextInv, CallInv, WrittenInv, WaitedInv, SaidInv
<1>1. CASE Txt!FireFixed(c, v)
  BY <1>1 DEF Txt!FireFixed
<1>2. CASE Txt!FireFile(c, v)
  BY <1>2 DEF Txt!FireFile, Txt!Say
<1>3. CASE Txt!FireCommand(c, v)
  <2>1. step = "idle" /\ c.kind = "command" /\ firing' = [content |-> c, via |-> v]
        /\ UNCHANGED <<pipe, waited, said>>
    BY <1>3 DEF Txt!FireCommand
  <2>2. c.text.len \in Nat /\ c.left \in Nat /\ c.leaves \in BOOLEAN
    BY <2>1, TimersAssumption
  <2>3. CASE step' = "done" /\ UNCHANGED <<child, toWrite, toAdd, held>>
    BY <2>1, <2>3
  <2>4. CASE step' = "check" /\ child' = "runs" /\ toWrite' = c.text.len
                   /\ toAdd' = c.left /\ held' = c.leaves
    <3>1. Command' = c
      BY <2>1 DEF Command
    <3>2. pipe = 0 /\ waited = 0 /\ said = <<>> /\ PipeSize \in Nat /\ Timeout \in Nat
      BY <2>1, TimersAssumption
    <3> QED BY <2>1, <2>2, <2>4, <3>1, <3>2
  <2> QED BY <1>3, <2>3, <2>4 DEF Txt!FireCommand
<1> QED BY <1>1, <1>2, <1>3

\* try_wait, and the sleep after it.
LEMMA TextCheck ==
    ASSUME TextInv, Txt!TimeOut \/ Txt!CheckFails \/ Txt!Sleep \/ Txt!SeeExit
    PROVE  TextInv'
<1> USE DEF TextInv, CallInv, WrittenInv, WaitedInv, SaidInv, Command
<1>1. CASE Txt!TimeOut
  BY <1>1 DEF Txt!TimeOut
<1>2. CASE Txt!CheckFails
  BY <1>2 DEF Txt!CheckFails
<1>3. CASE Txt!Sleep
  BY <1>3 DEF Txt!Sleep
<1>4. CASE Txt!SeeExit
  <2>1. /\ step = "check" /\ child = "exited" /\ child' = "reaped"
        /\ step' = IF Command.succeeds THEN "read" ELSE "done"
        /\ UNCHANGED <<firing, toWrite, toAdd, pipe, held, waited, said>>
    BY <1>4 DEF Txt!SeeExit
  <2>2. Command' = Command
    BY <2>1 DEF Command
  <2> HIDE DEF Command
  <2>3. /\ Command.text.len \in Nat /\ Command.left \in Nat /\ toAdd <= Command.left
        /\ toWrite + toAdd + pipe = Command.text.len + Command.left /\ pipe <= PipeSize
        /\ Command.ends /\ (Command.succeeds => toWrite = 0) /\ said = <<>>
    BY <2>1
  <2>4. Command.succeeds => Command.text.len <= PipeSize
    BY <2>1, <2>3, TimersAssumption
  <2>5. WrittenInv'
    BY <2>1, <2>2, <2>3, <2>4
  <2> QED BY <2>1, <2>2, <2>3, <2>5
<1> QED BY <1>1, <1>2, <1>3, <1>4

LEMMA TextRead == ASSUME TextInv, Txt!ReadOutput PROVE TextInv'
<1>1. PICK wide : /\ step = "read" /\ ~held /\ pipe' = 0
                  /\ UNCHANGED <<firing, child, toWrite, toAdd, held, waited>>
                  /\ Txt!Say([len |-> pipe, wide |-> wide])
  BY DEF Txt!ReadOutput
<1>2. /\ child = "reaped" /\ said = <<>> /\ Command.succeeds /\ Command.ends /\ pipe \in Nat
      /\ pipe = Command.text.len + (Command.left - toAdd) /\ Command.text.len <= PipeSize
      /\ PipeSize \in Nat
  <2>1. /\ child = "reaped" /\ said = <<>> /\ pipe \in Nat /\ toWrite = 0 /\ toAdd \in Nat
        /\ Command.succeeds /\ Command.ends /\ Command.text.len <= PipeSize
        /\ Command.text.len \in Nat /\ Command.left \in Nat
        /\ toWrite + toAdd + pipe = Command.text.len + Command.left
    BY <1>1 DEF TextInv, CallInv, WrittenInv, SaidInv
  <2>2. pipe = Command.text.len + (Command.left - toAdd)
    BY <2>1
  <2> QED BY <2>1, <2>2, TimersAssumption
<1>3. CASE step' = "aborted" /\ UNCHANGED said
  BY <1>1, <1>2, <1>3 DEF TextInv, CallInv, WrittenInv, WaitedInv, SaidInv, Command
<1>4. CASE step' = "done" /\ said' = IF pipe = 0 THEN <<>>
                                     ELSE [path |-> <<"APRS">> \o firing.via,
                                           text |-> Txt!Min({pipe, MAX_BEACON_OUTPUT_LEN})]
  <2>1. pipe # 0 => said'.text = Txt!Min({pipe, MAX_BEACON_OUTPUT_LEN})
    BY <1>4
  <2>2. pipe = 0 => said' = <<>>
    BY <1>4
  <2>3. SaidInv'
    BY <1>1, <1>2, <1>4, <2>1, <2>2 DEF SaidInv, Command
  <2> QED BY <1>1, <1>2, <1>4, <2>3 DEF TextInv, CallInv, WrittenInv, WaitedInv, Command
<1> QED BY <1>1, <1>3, <1>4 DEF Txt!Say, Txt!maybe_add_via

\* The command, and time.
LEMMA TextGoesOn ==
    ASSUME TextInv, Txt!Write \/ Txt!Add \/ Txt!Exit \/ Txt!Release \/ Txt!Tick
    PROVE  TextInv'
<1> USE DEF TextInv, CallInv, WrittenInv, WaitedInv, SaidInv, Command
<1>0. PipeSize \in Nat /\ Timeout \in Nat
  BY TimersAssumption
<1>1. CASE Txt!Write
  <2>1. /\ child = "runs" /\ toWrite > 0 /\ pipe < PipeSize
        /\ toWrite' = toWrite - 1 /\ pipe' = pipe + 1
        /\ UNCHANGED <<firing, step, child, toAdd, held, waited, said>>
    BY <1>1 DEF Txt!Write
  <2>2. Command' = Command
    BY <2>1 DEF Command
  <2> HIDE DEF Command
  <2>3. toWrite' \in Nat /\ pipe' \in Nat /\ pipe' <= PipeSize
        /\ toWrite' + toAdd' + pipe' = toWrite + toAdd + pipe
    BY <1>0, <2>1
  <2> QED BY <2>1, <2>2, <2>3
<1>5. CASE Txt!Add
  <2>1. /\ held /\ toAdd > 0 /\ step \in {"check", "sleep", "read"}
        /\ step \in {"check", "sleep"} => pipe < PipeSize
        /\ toAdd' = toAdd - 1 /\ pipe' = pipe + 1
        /\ UNCHANGED <<firing, step, child, toWrite, held, waited, said>>
    BY <1>5 DEF Txt!Add
  <2>2. Command' = Command
    BY <2>1 DEF Command
  <2> HIDE DEF Command
  <2>3. /\ toAdd' \in Nat /\ pipe' \in Nat /\ toAdd' < toAdd
        /\ toWrite' + toAdd' + pipe' = toWrite + toAdd + pipe
        /\ step \in {"check", "sleep"} => pipe' <= PipeSize
    BY <1>0, <2>1
  <2>4. said = <<>>
    BY <2>1
  <2>5. child # "none" => Command.left \in Nat /\ toAdd <= Command.left
    BY <2>1
  <2>6. child # "none" => toAdd' <= Command.left
    BY <2>1, <2>3, <2>5
  <2>7. WrittenInv'
    BY <2>1, <2>2, <2>3, <2>5, <2>6
  <2> QED BY <2>1, <2>2, <2>3, <2>4, <2>7
<1>2. CASE Txt!Exit
  BY <1>2 DEF Txt!Exit
<1>3. CASE Txt!Release
  BY <1>3 DEF Txt!Release
<1>4. CASE Txt!Tick
  BY <1>0, <1>4 DEF Txt!Tick
<1> QED BY <1>1, <1>2, <1>3, <1>4, <1>5

LEMMA TextStep == ASSUME TextInv, [TimersNext]_timersVars PROVE TextInv'
<1>1. CASE UNCHANGED textVars
  BY <1>1 DEF textVars, TextInv, CallInv, WrittenInv, WaitedInv, SaidInv, Command
<1>2. CASE Txt!Next
  BY <1>2, TextFire, TextCheck, TextRead, TextGoesOn DEF Txt!Next
<1> QED BY <1>1, <1>2 DEF TimersNext, BeaconTask, BeaconFire, ErlangTask, TimersDone, timersVars

\* However a command writes, ends, fails or hangs: it is over in time unless it
\* left a process behind, no shell stays, and what is said is all that the shell
\* and the process it left behind wrote.
THEOREM CommandCorrect == TimersSpec => []CommandOver
<1>1. TimersInit => TextInv
  BY TextInit DEF TimersInit
<1>2. TextInv => CommandOver
  <2> SUFFICES ASSUME TextInv PROVE Txt!CommandOver
    BY DEF CommandOver
  <2>1. waited > Timeout + 1 => child # "none"
    BY TimersAssumption DEF TextInv, CallInv
  <2> QED BY <2>1 DEF Txt!CommandOver, TextInv, CallInv, WaitedInv, SaidInv, Command
<1> QED BY <1>1, <1>2, TextStep, PTL DEF TimersSpec

-----------------------------------------------------------------------------
(* The sum of a sequence.                                                   *)

\* h[n] is the sum of the first n.
Adds(s, h) ==
    /\ h \in [0 .. Len(s) -> Nat] /\ h[0] = 0
    /\ \A n \in 0 .. Len(s) - 1 : h[n + 1] = h[n] + s[n + 1]

LEMMA SumAdds ==
    ASSUME NEW s \in Seq(Nat)
    PROVE  \E h : Adds(s, h) /\ Erl!Sum(s) = h[Len(s)]
<1> DEFINE l == Len(s)
           plus == [n \in Nat |-> [x \in Nat |-> IF n < l THEN x + s[n + 1] ELSE x]]
           Eq(g) == g = [n \in 0 .. l |-> IF n = 0 THEN 0 ELSE g[n - 1] + s[n]]
<1>1. l \in Nat /\ \A n \in 1 .. l : s[n] \in Nat
  OBVIOUS
<1> HIDE DEF l
<1>2. plus \in [Nat -> [Nat -> Nat]]
  <2>1. ASSUME NEW n \in Nat, NEW x \in Nat PROVE (IF n < l THEN x + s[n + 1] ELSE x) \in Nat
    <3>1. n < l => n + 1 \in 1 .. l
      BY <1>1
    <3> QED BY <1>1, <3>1
  <2> QED BY <2>1
<1>3. PICK f : Iterates(f, Nat, 0, plus)
  <2>1. 0 \in Nat
    OBVIOUS
  <2> HIDE DEF plus
  <2> QED BY <1>2, <2>1, Recursion
<1>4. f \in [Nat -> Nat] /\ f[0] = 0 /\ \A n \in 0 .. l - 1 : f[n + 1] = f[n] + s[n + 1]
  <2>1. f \in [Nat -> Nat] /\ f[0] = 0 /\ \A n \in Nat : f[n + 1] = plus[n][f[n]]
    BY <1>3 DEF Iterates
  <2>2. \A n \in 0 .. l - 1 : n \in Nat /\ n < l
    BY <1>1
  <2> QED BY <2>1, <2>2
<1> DEFINE h == [n \in 0 .. l |-> f[n]]
<1>5. /\ h \in [0 .. l -> Nat] /\ h[0] = 0
      /\ \A n \in 0 .. l - 1 : h[n + 1] = h[n] + s[n + 1]
  <2>1. 0 \in 0 .. l /\ \A n \in 0 .. l - 1 : n \in 0 .. l /\ n + 1 \in 0 .. l
    BY <1>1
  <2>2. \A n \in 0 .. l : n \in Nat
    BY <1>1
  <2> QED BY <1>4, <2>1, <2>2
<1>6. Eq(h)
  <2> HIDE DEF h
  <2>1. ASSUME NEW n \in 0 .. l, n # 0 PROVE h[n] = h[n - 1] + s[n]
    <3>1. n - 1 \in 0 .. l - 1 /\ (n - 1) + 1 = n
      BY <1>1, <2>1
    <3>2. h[(n - 1) + 1] = h[n - 1] + s[(n - 1) + 1]
      BY <1>5, <3>1
    <3> QED BY <3>1, <3>2
  <2>2. h = [n \in 0 .. l |-> h[n]]
    BY <1>5
  <2> QED BY <1>5, <2>1, <2>2
<1>7. \E g : Eq(g)
  BY <1>6, Zenon
<1> DEFINE sum == CHOOSE g : Eq(g)
<1>8. Eq(sum)
  <2> HIDE DEF Eq
  <2> QED BY <1>7
<1>9. Erl!Sum(s) = sum[l]
  BY DEF Erl!Sum, l
<1> HIDE DEF sum, h
<1>10. /\ sum[0] = 0 /\ \A n \in 0 .. l - 1 : sum[n + 1] = sum[n] + s[n + 1]
  <2>1. 0 \in 0 .. l /\ \A n \in 0 .. l - 1 : n + 1 \in 0 .. l /\ n + 1 # 0 /\ (n + 1) - 1 = n
    BY <1>1
  <2> QED BY <1>8, <2>1
<1>11. sum[l] = h[l]
  <2> DEFINE T == {n \in Nat : n <= l => sum[n] = h[n]}
  <2>1. 0 \in T
    BY <1>5, <1>10
  <2>2. ASSUME NEW n \in T PROVE n + 1 \in T
    <3>1. SUFFICES ASSUME n + 1 <= l PROVE sum[n + 1] = h[n + 1]
      OBVIOUS
    <3>2. n \in 0 .. l - 1 /\ sum[n] = h[n]
      BY <1>1, <3>1
    <3> HIDE DEF T
    <3> QED BY <1>5, <1>10, <3>2
  <2>3. T = Nat
    <3> HIDE DEF T
    <3> QED BY <2>1, <2>2, Induction DEF T
  <2>4. l \in T
    BY <1>1, <2>3
  <2> QED BY <1>1, <2>4
<1> QED BY <1>5, <1>9, <1>11 DEF Adds, l

LEMMA SumType == ASSUME NEW s \in Seq(Nat) PROVE Erl!Sum(s) \in Nat
<1>1. PICK h : Adds(s, h) /\ Erl!Sum(s) = h[Len(s)]
  BY SumAdds
<1>2. Len(s) \in Nat /\ h \in [0 .. Len(s) -> Nat]
  BY <1>1 DEF Adds
<1> QED BY <1>1, <1>2

LEMMA SumEmpty == Erl!Sum(<<>>) = 0
<1>1. <<>> \in Seq(Nat) /\ Len(<<>>) = 0
  OBVIOUS
<1>2. PICK h : Adds(<<>>, h) /\ Erl!Sum(<<>>) = h[Len(<<>>)]
  BY <1>1, SumAdds
<1> QED BY <1>1, <1>2 DEF Adds

LEMMA SumAppend ==
    ASSUME NEW s \in Seq(Nat), NEW x \in Nat
    PROVE  Erl!Sum(Append(s, x)) = Erl!Sum(s) + x
<1> DEFINE t == Append(s, x)
           l == Len(s)
<1>1. t \in Seq(Nat) /\ l \in Nat /\ Len(t) = l + 1 /\ t[l + 1] = x /\ \A i \in 1 .. l : t[i] = s[i]
  BY AppendElements
<1>2. PICK g : Adds(s, g) /\ Erl!Sum(s) = g[l]
  BY SumAdds
<1>3. PICK h : Adds(t, h) /\ Erl!Sum(t) = h[Len(t)]
  <2> HIDE DEF t
  <2> QED BY <1>1, SumAdds
<1> HIDE DEF t
<1>4. /\ g \in [0 .. l -> Nat] /\ g[0] = 0 /\ \A n \in 0 .. l - 1 : g[n + 1] = g[n] + s[n + 1]
  BY <1>2 DEF Adds, l
<1> HIDE DEF l
<1>5. /\ h \in [0 .. l + 1 -> Nat] /\ h[0] = 0 /\ \A n \in 0 .. l : h[n + 1] = h[n] + t[n + 1]
  BY <1>1, <1>3 DEF Adds
<1> DEFINE T == {n \in Nat : n <= l => g[n] = h[n]}
<1>6. 0 \in T
  BY <1>4, <1>5
<1>7. ASSUME NEW n \in T PROVE n + 1 \in T
  <2>1. SUFFICES ASSUME n + 1 <= l PROVE g[n + 1] = h[n + 1]
    OBVIOUS
  <2>2. n \in 0 .. l - 1 /\ n \in 0 .. l /\ n + 1 \in 1 .. l /\ g[n] = h[n]
    BY <1>1, <2>1
  <2> HIDE DEF T
  <2> QED BY <1>1, <1>4, <1>5, <2>2
<1>8. T = Nat
  <2> HIDE DEF T
  <2> QED BY <1>6, <1>7, Induction DEF T
<1>9. g[l] = h[l]
  <2>1. l \in T /\ l <= l
    BY <1>1, <1>8
  <2> QED BY <2>1
<1>10. h[l + 1] = h[l] + t[l + 1]
  <2>1. l \in 0 .. l
    BY <1>1
  <2> QED BY <1>5, <2>1
<1> QED BY <1>1, <1>2, <1>3, <1>9, <1>10 DEF t

-----------------------------------------------------------------------------
(* What the windows of the traffic counts cover.                            *)

\* The samples after the first i, and the packets counted in them and since.
Since(s, i) == SubSeq(s, i + 1, Len(s))
Count(i)    == current + Erl!Sum(Since(samples, i))

\* How long ago the task would have rotated the first i samples in, had it
\* never been late.
Minutes(n) == n * Minute
Edge(i)    == Minutes(Len(samples) - i + 1) - rotation

\* Of the packets of these ages the n latest are no older than e, and those
\* before them no younger, up to the lateness of the task.
Splits(a, n, e) ==
    /\ Len(a) - n \in Nat
    /\ Len(a) - n > 0 => a[Len(a) - n] >= e - MaxLate
    /\ \A k \in Len(a) - n + 1 .. Len(a) : a[k] <= e

WindowsInv ==
    /\ rotation \in -MaxLate .. Minute /\ current \in Nat
    /\ samples \in Seq(Nat) /\ Len(samples) <= Sixty /\ ages \in Seq(Nat)
    /\ \A i \in 0 .. Len(samples) : Splits(ages, Count(i), Edge(i))
    /\ Len(samples) < Sixty => Count(0) = Len(ages)
    /\ last1 = Erl!Sum(Erl!Latest(samples, 1))
    /\ last10 = Erl!Sum(Erl!Latest(samples, Ten))
    /\ last60 = Erl!Sum(samples)

LEMMA MinutesAdd ==
    ASSUME NEW a \in Nat, NEW b \in Nat
    PROVE  /\ Minutes(a) \in Nat /\ Minutes(a + 1) = Minutes(a) + Minute
           /\ a <= b => Minutes(a) <= Minutes(b)
<1>1. Minute \in Nat
  BY TimersAssumption
<1>2. Minutes(a) \in Nat /\ Minutes(a + 1) = Minutes(a) + Minute
  BY <1>1 DEF Minutes
<1>3. ASSUME a <= b PROVE Minutes(a) <= Minutes(b)
  <2>1. PICK c \in Nat : b = a + c
    <3>1. b - a \in Nat /\ b = a + (b - a)
      BY <1>3
    <3> QED BY <3>1
  <2>2. c * Minute \in Nat /\ (a + c) * Minute = a * Minute + c * Minute
    BY <1>1, <2>1
  <2> QED BY <1>2, <2>1, <2>2 DEF Minutes
<1> QED BY <1>2, <1>3

LEMMA SinceElements ==
    ASSUME NEW s \in Seq(Nat), NEW i \in 0 .. Len(s)
    PROVE  /\ Since(s, i) \in Seq(Nat) /\ Len(Since(s, i)) = Len(s) - i
           /\ \A k \in 1 .. Len(s) - i : Since(s, i)[k] = s[i + k]
<1> DEFINE l == Len(s)
<1>1. l \in Nat /\ i \in 0 .. l /\ \A k \in 1 .. l : s[k] \in Nat
  OBVIOUS
<1> HIDE DEF l
<1>2. /\ i + 1 \in Int /\ l \in Int /\ \A k \in i + 1 .. l : s[k] \in Nat
      /\ (IF i + 1 <= l THEN l - (i + 1) + 1 ELSE 0) = l - i /\ l - (i + 1) + 1 = l - i
  BY <1>1
<1>3. /\ SubSeq(s, i + 1, l) \in Seq(Nat) /\ Len(SubSeq(s, i + 1, l)) = l - i
      /\ \A k \in 1 .. l - i : SubSeq(s, i + 1, l)[k] = s[i + 1 + k - 1]
  BY <1>2, SubSeqProperties
<1>4. \A k \in 1 .. l - i : i + 1 + k - 1 = i + k
  BY <1>1
<1> QED BY <1>3, <1>4 DEF Since, l

\* What the latest n samples are.
LEMMA LatestSince ==
    ASSUME NEW s \in Seq(Nat), NEW n \in Nat
    PROVE  Erl!Latest(s, n) = Since(s, IF Len(s) <= n THEN 0 ELSE Len(s) - n)
<1>1. CASE Len(s) <= n
  <2>1. SubSeq(s, 1, Len(s)) = s
    BY SubSeqFull
  <2> QED BY <1>1, <2>1 DEF Erl!Latest, Since
<1>2. CASE ~(Len(s) <= n)
  BY <1>2 DEF Erl!Latest, Since
<1> QED BY <1>1, <1>2

\* A new sample goes to the end of the ring, which drops its oldest when full.
Dropped(s) == IF Len(s) < Sixty THEN 0 ELSE 1
RotatesTo(s, x, t) ==
    /\ t \in Seq(Nat) /\ Len(t) = Len(s) + 1 - Dropped(s) /\ Len(t) <= Sixty
    /\ \A i \in 0 .. Len(t) - 1 :
          i + Dropped(s) \in 0 .. Len(s) /\ Since(t, i) = Append(Since(s, i + Dropped(s)), x)

LEMMA LatestRotates ==
    ASSUME NEW s \in Seq(Nat), NEW x \in Nat, Len(s) <= Sixty
    PROVE  RotatesTo(s, x, Erl!Latest(Append(s, x), Sixty))
<1> DEFINE l == Len(s)
           d == Dropped(s)
           u == Append(s, x)
           t == Erl!Latest(u, Sixty)
<1>1. /\ u \in Seq(Nat) /\ l \in Nat /\ Len(u) = l + 1
      /\ u[l + 1] = x /\ \A k \in 1 .. l : u[k] = s[k]
  BY AppendElements
<1>2. Sixty \in Nat \ {0}
  BY TimersAssumption
<1>3. l <= Sixty /\ d = (IF l < Sixty THEN 0 ELSE 1)
  BY DEF Dropped
<1> HIDE DEF l, d, u
<1>4. d \in 0 .. l + 1 /\ (IF l + 1 <= Sixty THEN 0 ELSE (l + 1) - Sixty) = d
  BY <1>1, <1>2, <1>3
<1>5. t = Since(u, d)
  BY <1>1, <1>2, <1>4, LatestSince
<1> HIDE DEF t
<1>6. /\ t \in Seq(Nat) /\ Len(t) = l + 1 - d
      /\ \A k \in 1 .. l + 1 - d : t[k] = u[d + k]
  <2>1. d \in 0 .. Len(u)
    BY <1>1, <1>4
  <2>2. /\ Since(u, d) \in Seq(Nat) /\ Len(Since(u, d)) = Len(u) - d
        /\ \A k \in 1 .. Len(u) - d : Since(u, d)[k] = u[d + k]
    BY <1>1, <2>1, SinceElements
  <2>3. Len(u) - d = l + 1 - d
    BY <1>1, <1>4
  <2> QED BY <1>5, <2>2, <2>3
<1>7. ASSUME NEW i \in 0 .. Len(t) - 1
      PROVE  i + d \in 0 .. l /\ Since(t, i) = Append(Since(s, i + d), x)
  <2>1. i \in 0 .. Len(t) /\ i + d \in 0 .. l
    BY <1>1, <1>4, <1>6
  <2> DEFINE a == Since(t, i)
             b == Since(s, i + d)
             m == l - (i + d)
  <2>2. /\ a \in Seq(Nat) /\ Len(a) = Len(t) - i
        /\ \A k \in 1 .. Len(t) - i : a[k] = t[i + k]
    BY <1>6, <2>1, SinceElements
  <2>3. /\ b \in Seq(Nat) /\ Len(b) = m
        /\ \A k \in 1 .. m : b[k] = s[i + d + k]
    BY <2>1, SinceElements DEF l
  <2> HIDE DEF a, b
  <2>4. m \in Nat /\ Len(t) - i = m + 1
    BY <1>1, <1>4, <1>6, <2>1
  <2>5. /\ Append(b, x) \in Seq(Nat) /\ Len(Append(b, x)) = m + 1 /\ Append(b, x)[m + 1] = x
        /\ \A k \in 1 .. m : Append(b, x)[k] = b[k]
    BY <2>3, AppendElements
  <2>6. ASSUME NEW k \in 1 .. m + 1 PROVE a[k] = Append(b, x)[k]
    <3>1. i + k \in 1 .. l + 1 - d /\ d + (i + k) = i + d + k /\ k \in 1 .. Len(t) - i
      BY <1>1, <1>4, <1>6, <2>1, <2>4
    <3>2. a[k] = u[i + d + k]
      BY <1>6, <2>2, <3>1
    <3>3. CASE k \in 1 .. m
      <4>1. i + d + k \in 1 .. l
        BY <1>1, <1>4, <2>1, <3>3
      <4> QED BY <1>1, <2>3, <2>5, <3>2, <3>3, <4>1
    <3>4. CASE k = m + 1
      <4>1. i + d + k = l + 1
        BY <1>1, <1>4, <2>1, <3>4
      <4> QED BY <1>1, <2>5, <3>2, <3>4, <4>1
    <3>5. k \in 1 .. m \/ k = m + 1
      <4> HIDE DEF m
      <4> QED BY <2>4
    <3> QED BY <3>3, <3>4, <3>5
  <2>7. a = Append(b, x)
    <3>1. Len(a) = Len(Append(b, x)) /\ \A k \in 1 .. Len(a) : a[k] = Append(b, x)[k]
      BY <2>2, <2>4, <2>5, <2>6
    <3> HIDE DEF m
    <3> QED BY <2>2, <2>5, <3>1, SeqEqual
  <2> QED BY <2>1, <2>7 DEF a, b
<1>8. Len(t) <= Sixty
  BY <1>1, <1>2, <1>3, <1>6
<1> QED BY <1>6, <1>7, <1>8 DEF RotatesTo, l, d, t, u

\* What a recorded packet, and the passage of time, do to a split.
LEMMA SplitsRecord ==
    ASSUME NEW a \in Seq(Nat), NEW n \in Nat, NEW e \in Nat, Splits(a, n, e)
    PROVE  Splits(Append(a, 0), n + 1, e)
<1> DEFINE l == Len(a)
           b == Append(a, 0)
<1>1. /\ l \in Nat /\ Len(b) = l + 1 /\ b[l + 1] = 0
      /\ \A k \in 1 .. l : b[k] = a[k]
  BY AppendElements
<1> HIDE DEF b
<1> DEFINE old == l - n
<1>2. /\ old \in Nat /\ (old > 0 => a[old] >= e - MaxLate)
      /\ \A k \in old + 1 .. l : a[k] <= e
  BY DEF Splits
<1> HIDE DEF l
<1>3. old > 0 => old \in 1 .. l
  BY <1>1, <1>2
<1>4. ASSUME NEW k \in old + 1 .. l + 1 PROVE b[k] <= e
  <2>1. k = l + 1 \/ (k \in 1 .. l /\ k \in old + 1 .. l)
    BY <1>1, <1>2
  <2> QED BY <1>1, <1>2, <2>1
<1>5. (l + 1) - (n + 1) = old
  BY <1>1
<1> HIDE DEF old
<1>6. old > 0 => b[old] >= e - MaxLate
  BY <1>1, <1>2, <1>3
<1> QED BY <1>1, <1>2, <1>4, <1>5, <1>6 DEF Splits, b

Aged(a, m) == {i \in DOMAIN a : a[i] >= m}
Later(a, m) ==
    [i \in 1 .. Len(a) - Cardinality(Aged(a, m)) |-> a[i + Cardinality(Aged(a, m))] + 1]

LEMMA SplitsAge ==
    ASSUME NEW a \in Seq(Nat), NEW n \in Nat, NEW e \in Int, NEW m \in Int,
           e < m, Splits(a, n, e)
    PROVE  /\ Later(a, m) \in Seq(Nat) /\ Splits(Later(a, m), n, e + 1)
           /\ Len(a) = n => Len(Later(a, m)) = n
<1> DEFINE l == Len(a)
           old == l - n
           T == Aged(a, m)
           f == Cardinality(T)
           b == Later(a, m)
<1>0. b = [i \in 1 .. l - f |-> a[i + f] + 1]
  BY DEF Later
<1> HIDE DEF f, b
<1>1. l \in Nat /\ DOMAIN a = 1 .. l /\ \A k \in 1 .. l : a[k] \in Nat
  OBVIOUS
<1>2. /\ old \in Nat /\ (old > 0 => a[old] >= e - MaxLate)
      /\ \A k \in old + 1 .. l : a[k] <= e
  BY DEF Splits
<1> HIDE DEF l
<1>3. T \in SUBSET (1 .. old)
  <2>1. ASSUME NEW k \in 1 .. l, a[k] >= m PROVE k <= old
    <3>1. SUFFICES ASSUME ~(k <= old) PROVE FALSE
      OBVIOUS
    <3>2. k \in old + 1 .. l
      BY <1>1, <1>2, <3>1
    <3>3. a[k] \in Nat /\ a[k] <= e
      BY <1>1, <1>2, <3>2
    <3> QED BY <2>1, <3>3
  <2> QED BY <1>1, <2>1 DEF Aged
<1>4. f \in Nat /\ f <= old
  <2>1. IsFiniteSet(1 .. old) /\ Cardinality(1 .. old) = old
    <3>1. 1 \in Int /\ old \in Int /\ (IF 1 > old THEN 0 ELSE old - 1 + 1) = old
      BY <1>2
    <3> HIDE DEF old
    <3> QED BY <3>1, FS_Interval
  <2> HIDE DEF T, old
  <2>2. IsFiniteSet(T) /\ Cardinality(T) <= Cardinality(1 .. old)
    BY <1>3, <2>1, FS_Subset
  <2>3. Cardinality(T) \in Nat
    BY <2>2, FS_CardinalityType
  <2> QED BY <2>1, <2>2, <2>3 DEF f
<1>5. l - f \in Nat /\ Len(b) = l - f /\ \A k \in 1 .. l - f : b[k] = a[k + f] + 1
  <2>1. l - f \in Nat
    BY <1>1, <1>2, <1>4
  <2> QED BY <1>0, <2>1 DEF l
<1>6. \A k \in 1 .. l - f : k + f \in 1 .. l
  BY <1>1, <1>4
<1>7. b \in Seq(Nat)
  <2>1. \A k \in 1 .. l - f : b[k] \in Nat
    BY <1>1, <1>5, <1>6
  <2>2. b = [k \in 1 .. l - f |-> b[k]]
    BY <1>0
  <2> DEFINE r == l - f
  <2>3. r \in Nat /\ b \in [1 .. r -> Nat]
    BY <1>5, <2>1, <2>2
  <2> HIDE DEF r
  <2> QED BY <2>3, SeqDef
<1>8. /\ (l - f) - n = old - f /\ old - f \in Nat
      /\ old - f > 0 => old - f \in 1 .. l - f /\ old - f + f = old /\ old > 0 /\ old \in 1 .. l
  <2>1. old <= l /\ l \in Nat /\ n \in Nat /\ old = l - n
    BY <1>1, <1>2
  <2> HIDE DEF old
  <2>2. (l - f) - n = old - f /\ old - f \in Nat
    BY <1>2, <1>4, <2>1
  <2>3. old - f > 0 => old - f \in 1 .. l - f /\ old - f + f = old /\ old > 0 /\ old \in 1 .. l
    BY <1>2, <1>4, <2>1
  <2> QED BY <2>2, <2>3
<1>9. old - f > 0 => b[old - f] >= (e + 1) - MaxLate
  <2>1. SUFFICES ASSUME old - f > 0 PROVE b[old - f] >= (e + 1) - MaxLate
    OBVIOUS
  <2>2. b[old - f] = a[old] + 1
    BY <1>5, <1>8, <2>1
  <2>3. a[old] \in Nat /\ a[old] >= e - MaxLate /\ MaxLate \in Nat
    BY <1>1, <1>2, <1>8, <2>1, TimersAssumption
  <2> HIDE DEF old
  <2> QED BY <2>2, <2>3
<1>10. ASSUME NEW k \in old - f + 1 .. l - f PROVE b[k] <= e + 1
  <2>1. k \in 1 .. l - f /\ k + f \in old + 1 .. l /\ k + f \in 1 .. l
    <3> DEFINE c == old - f
    <3>1. l \in Nat /\ f \in Nat /\ c \in Nat /\ k \in c + 1 .. l - f /\ c + f = old
      BY <1>1, <1>2, <1>4
    <3> HIDE DEF c, old
    <3>2. k \in Int /\ k >= c + 1 /\ k <= l - f
      BY <3>1
    <3>3. k + f >= old + 1 /\ k + f <= l /\ k >= 1 /\ old >= 0
      BY <3>1, <3>2
    <3> QED BY <3>1, <3>2, <3>3
  <2>2. b[k] = a[k + f] + 1 /\ a[k + f] <= e /\ a[k + f] \in Nat
    BY <1>1, <1>2, <1>5, <2>1
  <2> QED BY <2>2
<1>11. l = n => l - f = n
  BY <1>1, <1>2, <1>4
<1>12. Splits(b, n, e + 1)
  <2> DEFINE c == old - f
             d == l - f
  <2>1. /\ c \in Nat
        /\ c > 0 => b[c] >= (e + 1) - MaxLate
        /\ \A k \in c + 1 .. d : b[k] <= e + 1
    BY <1>8, <1>9, <1>10
  <2>2. Len(b) = d /\ d \in Nat /\ d - n = c /\ Len(b) - n = c
    BY <1>5, <1>8
  <2> HIDE DEF c, d
  <2>3. /\ Len(b) - n \in Nat
        /\ Len(b) - n > 0 => b[Len(b) - n] >= (e + 1) - MaxLate
        /\ \A k \in Len(b) - n + 1 .. Len(b) : b[k] <= e + 1
    BY <2>1, <2>2
  <2> QED BY <2>3 DEF Splits
<1> QED BY <1>5, <1>7, <1>11, <1>12 DEF l, b

\* What has just been rotated in is no older than the task is late.
LEMMA SplitsNow ==
    ASSUME NEW a \in Seq(Nat), NEW e \in 0 .. MaxLate
    PROVE  Splits(a, 0, e)
<1>1. MaxLate \in Nat
  BY TimersAssumption
<1>2. Len(a) \in Nat /\ (Len(a) > 0 => a[Len(a)] \in Nat) /\ Len(a) - 0 = Len(a)
  OBVIOUS
<1>3. Len(a) > 0 => a[Len(a)] >= e - MaxLate
  BY <1>1, <1>2
<1>4. \A k \in Len(a) + 1 .. Len(a) : FALSE
  BY <1>2
<1> QED BY <1>2, <1>3, <1>4 DEF Splits

LEMMA WindowsInit == Erl!Init => WindowsInv
<1> SUFFICES ASSUME Erl!Init PROVE WindowsInv
  OBVIOUS
<1>1. /\ rotation = 0 /\ current = 0 /\ last1 = 0 /\ last10 = 0 /\ last60 = 0
      /\ samples = <<>> /\ ages = <<>>
  BY DEF Erl!Init
<1>2. Minute \in Nat /\ MaxLate \in Nat /\ Ten \in Nat /\ Sixty \in Nat
  BY TimersAssumption
<1>3. Len(samples) = 0 /\ Len(ages) = 0 /\ Since(samples, 0) = <<>>
  BY <1>1, SubSeqEmpty DEF Since
<1>4. Count(0) = 0
  BY <1>1, <1>3, SumEmpty DEF Count
<1>5. Splits(ages, Count(0), Edge(0))
  BY <1>3, <1>4 DEF Splits
<1>6. \A i \in 0 .. Len(samples) : i = 0
  BY <1>3
<1>7. Erl!Latest(samples, 1) = <<>> /\ Erl!Latest(samples, Ten) = <<>>
  BY <1>1, <1>2, <1>3 DEF Erl!Latest
<1>8. rotation \in -MaxLate .. Minute /\ current \in Nat /\ Len(samples) <= Sixty
  BY <1>1, <1>2, <1>3
<1> QED BY <1>1, <1>3, <1>4, <1>5, <1>6, <1>7, <1>8, SumEmpty DEF WindowsInv

\* The types that the steps below need.
LEMMA WindowsTypes ==
    ASSUME WindowsInv
    PROVE  /\ rotation \in Int /\ rotation <= Minute /\ rotation >= -MaxLate
           /\ Len(samples) \in Nat /\ Len(ages) \in Nat /\ MaxLate \in Nat /\ Minute \in Nat \ {0}
           /\ \A i \in 0 .. Len(samples) :
                 /\ Count(i) \in Nat /\ Edge(i) \in Int
                 /\ Edge(i) >= 0 /\ Edge(i) <= Minutes(Sixty + 1) - rotation
<1>1. Minute \in Nat \ {0} /\ MaxLate \in Nat /\ Sixty \in Nat
  BY TimersAssumption
<1>2. rotation \in Int /\ rotation <= Minute /\ rotation >= -MaxLate
  BY <1>1 DEF WindowsInv
<1>3. ASSUME NEW i \in 0 .. Len(samples)
      PROVE  /\ Count(i) \in Nat /\ Edge(i) \in Int
             /\ Edge(i) >= 0 /\ Edge(i) <= Minutes(Sixty + 1) - rotation
  <2>1. Since(samples, i) \in Seq(Nat) /\ current \in Nat
    BY SinceElements DEF WindowsInv
  <2>2. Count(i) \in Nat
    BY <2>1, SumType DEF Count
  <2> DEFINE k == Len(samples) - i
  <2>3. k \in Nat /\ k + 1 <= Sixty + 1 /\ k + 1 \in Nat /\ Sixty + 1 \in Nat
    BY <1>1 DEF WindowsInv
  <2> HIDE DEF k
  <2>4. /\ Minutes(k) \in Nat /\ Minutes(k + 1) = Minutes(k) + Minute
        /\ Minutes(k + 1) <= Minutes(Sixty + 1) /\ Minutes(Sixty + 1) \in Nat
    BY <2>3, MinutesAdd
  <2>5. Edge(i) = Minutes(k + 1) - rotation
    BY DEF Edge, k
  <2> QED BY <1>1, <1>2, <2>2, <2>4, <2>5
<1> QED BY <1>1, <1>2, <1>3 DEF WindowsInv

LEMMA WindowsRecord == ASSUME WindowsInv, Erl!Record PROVE WindowsInv'
<1>1. /\ ages' = Append(ages, 0) /\ current' = current + 1 /\ samples' = samples
      /\ rotation' = rotation /\ last1' = last1 /\ last10' = last10 /\ last60' = last60
  BY DEF Erl!Record
<1>2. ages \in Seq(Nat) /\ ages' \in Seq(Nat) /\ Len(ages') = Len(ages) + 1 /\ current' \in Nat
  BY <1>1, AppendElements DEF WindowsInv
<1>3. ASSUME NEW i \in 0 .. Len(samples)
      PROVE  Count(i)' = Count(i) + 1 /\ Edge(i)' = Edge(i)
  <2>1. Erl!Sum(Since(samples, i)) \in Nat /\ current \in Nat
    BY SinceElements, SumType DEF WindowsInv
  <2> QED BY <1>1, <2>1 DEF Count, Edge
<1>4. ASSUME NEW i \in 0 .. Len(samples') PROVE Splits(ages', Count(i)', Edge(i)')
  <2>1. i \in 0 .. Len(samples)
    BY <1>1
  <2>2. Count(i) \in Nat /\ Edge(i) \in Nat /\ Splits(ages, Count(i), Edge(i))
    BY <2>1, WindowsTypes DEF WindowsInv
  <2>3. Splits(Append(ages, 0), Count(i) + 1, Edge(i))
    BY <1>2, <2>2, SplitsRecord
  <2> QED BY <1>1, <1>3, <2>1, <2>3
<1>5. Len(samples') < Sixty => Count(0)' = Len(ages')
  <2>1. 0 \in 0 .. Len(samples)
    BY WindowsTypes
  <2> QED BY <1>1, <1>2, <1>3, <2>1 DEF WindowsInv
<1> QED BY <1>1, <1>2, <1>4, <1>5 DEF WindowsInv

LEMMA WindowsTick == ASSUME WindowsInv, Erl!Tick PROVE WindowsInv'
<1>1. /\ rotation > -MaxLate /\ rotation' = rotation - 1 /\ samples' = samples
      /\ current' = current /\ last1' = last1 /\ last10' = last10 /\ last60' = last60
      /\ ages' = [k \in 1 .. Len(ages) - Erl!TooOld |-> ages[k + Erl!TooOld] + 1]
  BY DEF Erl!Tick
<1>2. /\ rotation \in Int /\ MaxLate \in Nat /\ Minutes(Sixty + 1) \in Nat
      /\ Erl!MaxAge = Minutes(Sixty + 1) + MaxLate
  <2>1. Sixty + 1 \in Nat
    BY TimersAssumption
  <2>2. Minutes(Sixty + 1) \in Nat
    BY <2>1, MinutesAdd
  <2> QED BY <2>2, WindowsTypes DEF Erl!MaxAge, Minutes
<1>3. rotation' \in -MaxLate .. Minute /\ ages' = Later(ages, Erl!MaxAge)
  <2>1. rotation' \in -MaxLate .. Minute
    BY <1>1, WindowsTypes
  <2>2. \A S : Erl!Cardinality(S) = Cardinality(S)
    BY DEF Cardinality, Erl!Cardinality
  <2>3. Erl!TooOld = Cardinality(Aged(ages, Erl!MaxAge))
    BY <2>2 DEF Erl!TooOld, Aged
  <2> QED BY <1>1, <2>1, <2>3 DEF Later
<1>4. ASSUME NEW i \in 0 .. Len(samples)
      PROVE  /\ ages' \in Seq(Nat) /\ Splits(ages', Count(i)', Edge(i)')
             /\ Count(i)' = Count(i) /\ (Count(i) = Len(ages) => Len(ages') = Count(i))
  <2>1. /\ Count(i) \in Nat /\ Edge(i) \in Int /\ Edge(i) <= Minutes(Sixty + 1) - rotation
        /\ Splits(ages, Count(i), Edge(i)) /\ ages \in Seq(Nat)
    BY WindowsTypes DEF WindowsInv
  <2>2. Edge(i) < Erl!MaxAge /\ Erl!MaxAge \in Int
    BY <1>1, <1>2, <2>1
  <2>3. Count(i)' = Count(i) /\ Edge(i)' = Edge(i) + 1
    <3>1. Minutes(Len(samples) - i + 1) \in Nat
      <4>1. Len(samples) - i + 1 \in Nat
        BY WindowsTypes
      <4> QED BY <4>1, MinutesAdd
    <3>2. Minutes(Len(samples) - i + 1) - (rotation - 1) = (Minutes(Len(samples) - i + 1) - rotation) + 1
      BY <1>2, <3>1
    <3> QED BY <1>1, <3>2 DEF Count, Edge
  <2>4. /\ ages' \in Seq(Nat) /\ Splits(ages', Count(i), Edge(i) + 1)
        /\ (Len(ages) = Count(i) => Len(ages') = Count(i))
    BY <1>3, <2>1, <2>2, SplitsAge
  <2> QED BY <2>3, <2>4
<1>5. ages' \in Seq(Nat) /\ (Len(samples') < Sixty => Count(0)' = Len(ages'))
  <2>1. 0 \in 0 .. Len(samples)
    BY WindowsTypes
  <2> QED BY <1>1, <1>4, <2>1 DEF WindowsInv
<1> QED BY <1>1, <1>3, <1>4, <1>5 DEF WindowsInv

LEMMA WindowsRotate == ASSUME WindowsInv, Erl!Rotate PROVE WindowsInv'
<1> DEFINE l == Len(samples)
           t == samples'
           d == Dropped(samples)
<1>1. /\ rotation <= 0 /\ rotation' = rotation + Minute /\ ages' = ages /\ current' = 0
      /\ last1' = current /\ t = Erl!Latest(Append(samples, current), Sixty)
      /\ last10' = Erl!Sum(Erl!Latest(t, Ten)) /\ last60' = Erl!Sum(t)
  BY DEF Erl!Rotate, Erl!RotateAll, Erl!Recent
<1>2. /\ t \in Seq(Nat) /\ Len(t) = l + 1 - d /\ Len(t) <= Sixty
      /\ \A i \in 0 .. Len(t) - 1 :
            i + d \in 0 .. l /\ Since(t, i) = Append(Since(samples, i + d), current)
  <2>1. RotatesTo(samples, current, t)
    BY <1>1, LatestRotates DEF WindowsInv
  <2> QED BY <2>1 DEF RotatesTo
<1>3. /\ l \in Nat /\ current \in Nat /\ samples \in Seq(Nat) /\ ages \in Seq(Nat)
      /\ rotation \in Int /\ rotation >= -MaxLate /\ Minute \in Nat \ {0} /\ MaxLate \in Nat
  BY WindowsTypes DEF WindowsInv
<1>4. d \in {0, 1} /\ (l < Sixty => d = 0) /\ Len(t) \in Nat \ {0} /\ (Len(t) < Sixty => l < Sixty)
  <2>1. d = IF l < Sixty THEN 0 ELSE 1
    BY DEF Dropped
  <2>2. Sixty \in Nat \ {0} /\ l <= Sixty
    BY TimersAssumption DEF WindowsInv
  <2> HIDE DEF d, l, t
  <2> QED BY <1>2, <1>3, <2>1, <2>2
<1> HIDE DEF t, d
<1>5. ASSUME NEW i \in 0 .. Len(t) - 1
      PROVE  Count(i)' = Count(i + d) /\ Edge(i)' = Edge(i + d) /\ i + d \in 0 .. l
  <2> DEFINE j == i + d
  <2>1. j \in 0 .. l /\ Since(t, i) = Append(Since(samples, j), current)
    BY <1>2
  <2>2. Since(samples, j) \in Seq(Nat)
    BY <1>3, <2>1, SinceElements
  <2>3. Erl!Sum(Since(t, i)) = Erl!Sum(Since(samples, j)) + current /\ Erl!Sum(Since(samples, j)) \in Nat
    BY <1>3, <2>1, <2>2, SumAppend, SumType
  <2>4. Count(i)' = Count(j)
    BY <1>1, <1>3, <2>3 DEF Count, t
  <2> DEFINE k == l - j + 1
  <2>5. k \in Nat /\ Len(t) - i + 1 = k + 1
    <3> HIDE DEF l
    <3> QED BY <1>2, <1>3, <1>4, <2>1
  <2>6. Edge(i)' = Minutes(k + 1) - (rotation + Minute) /\ Edge(j) = Minutes(k) - rotation
    BY <1>1, <2>5 DEF Edge, t
  <2>7. Minutes(k) \in Nat /\ Minutes(k + 1) = Minutes(k) + Minute
    <3> HIDE DEF k
    <3> QED BY <2>5, MinutesAdd
  <2>8. Edge(i)' = Edge(j)
    <3> HIDE DEF k
    <3> QED BY <1>3, <2>6, <2>7
  <2> QED BY <2>1, <2>4, <2>8
<1>6. ASSUME NEW i \in 0 .. Len(t) PROVE Splits(ages', Count(i)', Edge(i)')
  <2>1. CASE i \in 0 .. Len(t) - 1
    <3>1. Splits(ages, Count(i + d), Edge(i + d))
      BY <1>5, <2>1 DEF WindowsInv
    <3> QED BY <1>1, <1>5, <2>1, <3>1
  <2>2. CASE i = Len(t)
    <3>1. Since(t, i) = <<>>
      BY <1>4, <2>2, SubSeqEmpty DEF Since
    <3>2. Count(i)' = 0
      BY <1>1, <3>1, SumEmpty DEF Count, t
    <3>3. Len(t) - i + 1 = 1 /\ Minutes(1) = Minute
      BY <1>3, <1>4, <2>2 DEF Minutes
    <3>4. Edge(i)' = Minute - (rotation + Minute)
      BY <1>1, <3>3 DEF Edge, t
    <3>5. Edge(i)' \in 0 .. MaxLate
      BY <1>1, <1>3, <3>4
    <3> DEFINE e == Edge(i)'
    <3> HIDE DEF e
    <3>6. Splits(ages, 0, e)
      BY <1>3, <3>5, SplitsNow DEF e
    <3> QED BY <1>1, <3>2, <3>6 DEF e
  <2> QED BY <1>4, <2>1, <2>2
<1>7. Len(t) < Sixty => Count(0)' = Len(ages')
  <2>1. 0 \in 0 .. Len(t) - 1
    BY <1>4
  <2> QED BY <1>1, <1>4, <1>5, <2>1 DEF WindowsInv
<1>8. last1' = Erl!Sum(Erl!Latest(t, 1))
  <2> DEFINE i == Len(t) - 1
  <2>1. i \in 0 .. Len(t) - 1 /\ i + d = l /\ (IF Len(t) <= 1 THEN 0 ELSE i) = i
    <3> HIDE DEF l
    <3> QED BY <1>2, <1>3, <1>4
  <2>2. Erl!Latest(t, 1) = Since(t, i)
    BY <1>2, <2>1, LatestSince
  <2>3. Since(t, i) = Append(Since(samples, l), current)
    BY <1>2, <2>1
  <2>4. Since(samples, l) = <<>>
    BY <1>3, SubSeqEmpty DEF Since
  <2>5. <<>> \in Seq(Nat)
    OBVIOUS
  <2>6. Erl!Sum(Append(<<>>, current)) = Erl!Sum(<<>>) + current
    BY <1>3, <2>5, SumAppend
  <2> QED BY <1>1, <1>3, <2>2, <2>3, <2>4, <2>6, SumEmpty
<1>9. rotation' \in -MaxLate .. Minute
  BY <1>1, <1>3
<1> QED BY <1>1, <1>2, <1>3, <1>6, <1>7, <1>8, <1>9 DEF WindowsInv, t

LEMMA WindowsStep == ASSUME WindowsInv, [TimersNext]_timersVars PROVE WindowsInv'
<1>1. CASE UNCHANGED erlangVars
  BY <1>1 DEF erlangVars, WindowsInv, Count, Edge
<1>2. CASE Erl!Publish
  BY <1>2 DEF Erl!Publish, WindowsInv, Count, Edge
<1>3. CASE Erl!Next
  BY <1>2, <1>3, WindowsRecord, WindowsTick, WindowsRotate DEF Erl!Next
<1> QED BY <1>1, <1>3 DEF TimersNext, BeaconTask, BeaconFire, ErlangTask, TimersDone, timersVars

\* A window of w minutes is the stretch since the sample before its first.
LEMMA WindowCovers ==
    ASSUME WindowsInv, NEW w \in 1 .. Sixty
    PROVE  Erl!Covers(Erl!Sum(Erl!Latest(samples, w)) + current, w)
<1> DEFINE l == Len(samples)
           i == IF l <= w THEN 0 ELSE l - w
           n == Count(i)
           old == Len(ages) - n
<1>1. /\ l \in Nat /\ w \in Nat /\ Sixty \in Nat /\ Minute \in Nat \ {0} /\ MaxLate \in Nat
      /\ rotation \in Int /\ rotation <= Minute /\ rotation >= -MaxLate /\ ages \in Seq(Nat)
      /\ samples \in Seq(Nat) /\ w <= Sixty /\ l <= Sixty /\ Len(ages) \in Nat /\ current \in Nat
  BY WindowsTypes, TimersAssumption DEF WindowsInv
<1>2. i \in 0 .. l /\ l - i + 1 \in Nat /\ l - i + 1 <= w + 1 /\ w + 1 \in Nat
  <2> HIDE DEF l
  <2> QED BY <1>1
<1>3. Erl!Sum(Erl!Latest(samples, w)) + current = n
  <2>1. Erl!Latest(samples, w) = Since(samples, i)
    BY <1>1, LatestSince
  <2>2. Erl!Sum(Since(samples, i)) \in Nat
    BY <1>1, <1>2, SinceElements, SumType
  <2> QED BY <1>1, <2>1, <2>2 DEF Count
<1>4. n \in Nat /\ Splits(ages, n, Edge(i))
  BY <1>2, WindowsTypes DEF WindowsInv
<1>5. /\ Minutes(l - i + 1) \in Nat /\ Minutes(l - i + 1) <= Minutes(w + 1)
      /\ Minutes(w + 1) = Minutes(w) + Minute /\ Minutes(w) \in Nat
  <2> DEFINE k == l - i + 1
  <2> HIDE DEF k
  <2>1. k \in Nat /\ w \in Nat /\ w + 1 \in Nat /\ k <= w + 1
    BY <1>1, <1>2 DEF k
  <2>2. /\ Minutes(k) \in Nat /\ Minutes(k) <= Minutes(w + 1)
        /\ Minutes(w + 1) = Minutes(w) + Minute /\ Minutes(w) \in Nat
    BY <2>1, MinutesAdd
  <2> QED BY <2>2 DEF k
<1>6. /\ old \in Nat /\ (old > 0 => ages[old] >= Edge(i) - MaxLate)
      /\ \A k \in old + 1 .. Len(ages) : ages[k] <= Edge(i)
  BY <1>4 DEF Splits
<1>7. Edge(i) = Minutes(l - i + 1) - rotation
  BY DEF Edge
<1>8. old > 0 => ages[old] >= Minutes(w) - MaxLate
  <2>1. SUFFICES ASSUME old > 0 PROVE ages[old] >= Minutes(w) - MaxLate
    OBVIOUS
  <2>2. l >= w
    <3>1. CASE l < w
      <4>1. l < Sixty /\ i = 0
        <5> HIDE DEF l
        <5> QED BY <1>1, <3>1
      <4>2. Count(0) = Len(ages)
        BY <4>1 DEF WindowsInv
      <4>3. old = 0
        BY <1>1, <4>1, <4>2
      <4> QED BY <2>1, <4>3
    <3> QED BY <1>1, <3>1
  <2>3. l - i + 1 = w + 1
    <3> HIDE DEF l
    <3> QED BY <1>1, <2>2
  <2>4. Edge(i) = (Minutes(w) + Minute) - rotation
    BY <1>5, <1>7, <2>3
  <2>5. ages[old] \in Nat /\ ages[old] >= Edge(i) - MaxLate
    <3>1. old \in 1 .. Len(ages)
      BY <1>1, <1>4, <1>6, <2>1
    <3> QED BY <1>1, <1>6, <2>1, <3>1
  <2> HIDE DEF old
  <2> QED BY <1>1, <1>5, <2>4, <2>5
<1>9. n > 0 => ages[old + 1] <= Minutes(w + 1) + MaxLate
  <2>1. SUFFICES ASSUME n > 0 PROVE ages[old + 1] <= Minutes(w + 1) + MaxLate
    OBVIOUS
  <2>2. old + 1 \in 1 .. Len(ages) /\ old + 1 \in old + 1 .. Len(ages)
    <3> HIDE DEF n
    <3> QED BY <1>1, <1>4, <1>6, <2>1
  <2>3. ages[old + 1] \in Nat /\ ages[old + 1] <= Edge(i) /\ Edge(i) \in Int
    <3>1. ages[old + 1] \in Nat
      <4> HIDE DEF old
      <4> QED BY <1>1, <2>2
    <3>2. ages[old + 1] <= Edge(i)
      BY <1>6, <2>2
    <3>3. Edge(i) \in Int
      BY <1>2, WindowsTypes
    <3> QED BY <3>1, <3>2, <3>3
  <2> DEFINE m == Minutes(l - i + 1)
  <2>4. Edge(i) = m - rotation /\ m \in Nat /\ m <= Minutes(w + 1) /\ Minutes(w + 1) \in Nat
    <3>1. Minutes(w + 1) \in Nat
      BY <1>1, <1>2, MinutesAdd
    <3> QED BY <1>5, <1>7, <3>1
  <2> HIDE DEF m, old
  <2> QED BY <1>1, <2>3, <2>4
<1> HIDE DEF n
<1>10. Erl!Covers(n, w)
  BY <1>6, <1>8, <1>9 DEF Erl!Covers, Minutes
<1> QED BY <1>3, <1>10

\* For any lengths of a minute and of the windows, and however late the task
\* is, the counts of one, ten and sixty minutes cover those minutes and the
\* current one.
THEOREM WindowsCorrect == TimersSpec => []Windows
<1>1. TimersInit => WindowsInv
  BY WindowsInit DEF TimersInit
<1>2. ASSUME WindowsInv PROVE Windows
  <2>1. 1 \in 1 .. Sixty /\ Ten \in 1 .. Sixty /\ Sixty \in 1 .. Sixty
    BY TimersAssumption
  <2>2. last60 = Erl!Sum(Erl!Latest(samples, Sixty))
    BY <1>2 DEF WindowsInv, Erl!Latest
  <2>3. /\ Erl!Covers(last1 + current, 1) /\ Erl!Covers(last10 + current, Ten)
        /\ Erl!Covers(last60 + current, Sixty)
    BY <1>2, <2>1, <2>2, WindowCovers DEF WindowsInv
  <2> QED BY <2>3 DEF Windows, Erl!Windows
<1> QED BY <1>1, <1>2, WindowsStep, PTL DEF TimersSpec
=============================================================================
