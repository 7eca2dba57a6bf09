------------------------- MODULE AprsIsClientProofs -------------------------
(***************************************************************************)
(* Theorems about AprsIsClient, for every number of servers, every channel *)
(* capacity, batch size and timeout, and every number of lines.            *)
(***************************************************************************)
EXTENDS AprsIsClient, SharedLemmas

-----------------------------------------------------------------------------
LEMMA DashType ==
    ASSUME NEW S, NEW d \in [connected : BOOLEAN, server : S], NEW x \in S
    PROVE  /\ [d EXCEPT !.connected = FALSE] \in [connected : BOOLEAN, server : S]
           /\ [connected |-> TRUE, server |-> x] \in [connected : BOOLEAN, server : S]
<1> DEFINE B == BOOLEAN
<1>1. FALSE \in B /\ TRUE \in B
  BY Zenon
<1> HIDE DEF B
<1>2. ASSUME NEW e \in [connected : B, server : S]
      PROVE  /\ [e EXCEPT !.connected = FALSE] \in [connected : B, server : S]
             /\ [connected |-> TRUE, server |-> x] \in [connected : B, server : S]
  BY <1>1
<1> QED BY <1>2 DEF B

-----------------------------------------------------------------------------
(* The task's variables keep their types.  Each part of TypeOK is shown to  *)
(* survive the actions that touch its variables.                            *)

LEMMA TypeInit == Init => TypeOK
<1> SUFFICES ASSUME Init PROVE TypeOK
  OBVIOUS
<1> USE ClientAssumption DEF Init
<1>1. ConnTypeOK
  BY DEF ConnTypeOK, Connected
<1>2. OutTypeOK
  BY EmptyType DEF OutTypeOK
<1>3. InTypeOK
  <2>1. sent \in Nat /\ read \in 0 .. sent
    OBVIOUS
  <2>2. partial \in BOOLEAN /\ eof \in BOOLEAN
    BY Zenon
  <2> QED BY <2>1, <2>2 DEF InTypeOK
<1>4. PacketTypeOK
  <2>1. delivered \in Seq([line : Nat, part : {"whole", "beginning", "end"}])
    OBVIOUS
  <2>2. routed \in 0 .. Len(delivered) /\ routerOpen \in BOOLEAN
    OBVIOUS
  <2> QED BY <2>1, <2>2 DEF PacketTypeOK
<1> QED BY <1>1, <1>2, <1>3, <1>4 DEF TypeOK

LEMMA ConnTypeNext == ConnTypeOK /\ [Next]_vars => ConnTypeOK'
<1> SUFFICES ASSUME ConnTypeOK, [Next]_vars PROVE ConnTypeOK'
  OBVIOUS
<1> USE ClientAssumption DEF ConnTypeOK, Connected
<1>1. Disconnect => ConnTypeOK'
  BY DashType DEF Disconnect, NextServer
<1>2. Stop => ConnTypeOK'
  BY DEF Stop
<1>3. CASE Connection
  <2>1. CASE ConnectOk
    <3>1. [connected |-> TRUE, server |-> server]
              \in [connected : BOOLEAN, server : 0 .. NumServers - 1]
      BY DashType
    <3>2. dash' \in [connected : BOOLEAN, server : 0 .. NumServers - 1]
      BY <2>1, <3>1, Zenon DEF ConnectOk
    <3> QED BY <2>1, <3>2 DEF ConnectOk
  <2>2. CASE ConnectFail \/ LoginFail \/ FlushFail
    BY <1>1, <2>2 DEF ConnectFail, LoginFail, FlushFail
  <2>3. CASE FlushLine
    BY <2>3 DEF FlushLine, conn
  <2>4. CASE LoginOk \/ FlushDone
    BY <2>4 DEF LoginOk, FlushDone
  <2> QED BY <1>3, <2>1, <2>2, <2>3, <2>4 DEF Connection
<1>4. CASE Reading
  BY <1>1, <1>2, <1>4 DEF Reading, ReadHead, ReadLine, ReadClosed, ReadEof, ReadError,
                          HeartbeatTimeout, conn
<1>5. CASE Writing
  BY <1>1, <1>2, <1>5 DEF Writing, Recv, WriteNext, WriteLast, WriteFail, RecvClosed, conn
<1>6. CASE Waiting
  BY <1>2, <1>6 DEF Waiting, BackoffRecv, BackoffClosed, Reconnect
<1>7. CASE Environment
  BY <1>7 DEF Environment, Produce, CloseWriters, RouterTake, RouterClose, ServerSend,
              ServerClose, Tick, Timed, conn
<1>8. CASE Done \/ UNCHANGED vars
  BY <1>8 DEF Done, vars, conn
<1> QED BY <1>3, <1>4, <1>5, <1>6, <1>7, <1>8 DEF Next

LEMMA OutTypeNext == OutTypeOK /\ [Next]_vars => OutTypeOK'
<1> SUFFICES ASSUME OutTypeOK, [Next]_vars PROVE OutTypeOK'
  OBVIOUS
<1> USE ClientAssumption DEF OutTypeOK
<1>1. (UNCHANGED out /\ (state' = state \/ state' \in {"backoff", "stopped", "connecting", "login", "flushing"})
        /\ state # "writing") => OutTypeOK'
  BY DEF out
<1>2. CASE Connection
  <2>1. CASE ConnectOk \/ ConnectFail \/ LoginOk \/ LoginFail
    BY <1>1, <2>1 DEF ConnectOk, ConnectFail, LoginOk, LoginFail, Disconnect
  <2>2. CASE FlushLine
    <3>1. Tail(pending) \in Seq(Nat) /\ Append(wire, Head(pending)) \in Seq(Nat)
      BY <2>2, TailType DEF FlushLine
    <3> QED BY <2>2, <3>1 DEF FlushLine, conn
  <2>3. CASE FlushFail
    <3>1. Range(pending) \subseteq Nat
      BY RangeType
    <3> QED BY <2>3, <3>1, EmptyType DEF FlushFail, Disconnect
  <2>4. CASE FlushDone
    BY <2>4 DEF FlushDone, out
  <2> QED BY <1>2, <2>1, <2>2, <2>3, <2>4 DEF Connection
<1>3. CASE Reading
  BY <1>1, <1>3 DEF Reading, ReadHead, ReadLine, ReadClosed, HasLine, ReadEof, ReadError,
                    HeartbeatTimeout, Disconnect, Stop, conn
<1>4. CASE Writing
  <2>1. ASSUME writeRx # <<>>
        PROVE  /\ <<Head(writeRx)>> \in Seq(Nat) /\ Len(<<Head(writeRx)>>) = 1
               /\ Tail(writeRx) \in Seq(Nat) /\ Len(Tail(writeRx)) <= WriteCap
    <3>1. writeRx \in Seq(Nat) /\ Len(writeRx) <= WriteCap /\ WriteCap \in Nat
      OBVIOUS
    <3>2. Head(writeRx) \in Nat /\ Tail(writeRx) \in Seq(Nat)
      BY <2>1, <3>1, TailType
    <3>3. Len(Tail(writeRx)) <= WriteCap
      BY <2>1, <3>1
    <3> QED BY <3>2, <3>3, SingletonType
  <2>2. CASE Recv
    BY <2>1, <2>2 DEF Recv, CanRecv
  <2>3. CASE WriteNext
    BY <2>1, <2>3 DEF WriteNext, conn
  <2>4. CASE WriteLast
    BY <2>4, EmptyType DEF WriteLast
  <2>5. CASE WriteFail
    <3>1. Range(hand) \subseteq Nat
      BY RangeType
    <3> QED BY <2>5, <3>1, EmptyType DEF WriteFail, Disconnect
  <2>6. CASE RecvClosed
    BY <1>1, <2>6 DEF RecvClosed, Stop
  <2> QED BY <1>4, <2>2, <2>3, <2>4, <2>5, <2>6 DEF Writing
<1>5. CASE Waiting
  <2>1. CASE BackoffRecv
    <3>1. /\ Append(pending, Head(writeRx)) \in Seq(Nat)
          /\ Tail(writeRx) \in Seq(Nat) /\ Len(Tail(writeRx)) <= WriteCap
      BY <2>1, TailType DEF BackoffRecv, CanRecv
    <3> QED BY <2>1, <3>1 DEF BackoffRecv
  <2>2. CASE BackoffClosed \/ Reconnect
    BY <1>1, <2>2 DEF BackoffClosed, Reconnect, Stop
  <2> QED BY <1>5, <2>1, <2>2 DEF Waiting
<1>6. CASE Environment
  <2>1. CASE Produce
    <3>1. /\ accepted + 1 \in Nat /\ Append(writeRx, accepted + 1) \in Seq(Nat)
          /\ Len(Append(writeRx, accepted + 1)) <= WriteCap
      BY <2>1 DEF Produce
    <3> QED BY <2>1, <3>1 DEF Produce, conn
  <2>2. CASE CloseWriters
    BY <2>2 DEF CloseWriters, conn
  <2>3. CASE RouterTake \/ RouterClose \/ ServerSend \/ ServerClose \/ Tick
    BY <2>3 DEF RouterTake, RouterClose, ServerSend, ServerClose, Tick, conn, out
  <2> QED BY <1>6, <2>1, <2>2, <2>3 DEF Environment
<1>7. CASE Done \/ UNCHANGED vars
  BY <1>7 DEF Done, vars, conn, out
<1> QED BY <1>2, <1>3, <1>4, <1>5, <1>6, <1>7 DEF Next

LEMMA InTypeNext == InTypeOK /\ [Next]_vars => InTypeOK'
<1> SUFFICES ASSUME InTypeOK, [Next]_vars PROVE InTypeOK'
  OBVIOUS
<1> USE DEF InTypeOK
<1>1. Disconnect => InTypeOK'
  <2> SUFFICES ASSUME Disconnect PROVE InTypeOK'
    OBVIOUS
  <2>1. sent' \in Nat /\ read' \in 0 .. sent'
    BY DEF Disconnect, LineOf
  <2>2. partial' \in BOOLEAN /\ eof' \in BOOLEAN
    BY Zenon DEF Disconnect
  <2> QED BY <2>1, <2>2
<1>2. UNCHANGED in => InTypeOK'
  BY DEF in
<1>3. CASE Connection
  BY <1>1, <1>2, <1>3 DEF Connection, ConnectOk, ConnectFail, LoginOk, LoginFail,
                          FlushLine, FlushFail, FlushDone
<1>4. CASE Reading
  <2>1. CASE ReadHead
    <3>1. read' \in 0 .. sent' /\ sent' \in Nat
      BY <2>1 DEF ReadHead
    <3>2. partial' \in BOOLEAN /\ eof' \in BOOLEAN
      BY <2>1, Zenon DEF ReadHead
    <3> QED BY <3>1, <3>2
  <2>2. CASE ReadLine
    <3>1. read' \in 0 .. sent' /\ sent' \in Nat
      BY <2>2 DEF ReadLine, Consumed
    <3>2. partial' \in BOOLEAN /\ eof' \in BOOLEAN
      BY <2>2, Zenon DEF ReadLine
    <3> QED BY <3>1, <3>2
  <2>3. CASE ReadClosed \/ ReadEof \/ ReadError \/ HeartbeatTimeout
    BY <1>1, <1>2, <2>3 DEF ReadClosed, Stop, ReadEof, ReadError, HeartbeatTimeout
  <2> QED BY <1>4, <2>1, <2>2, <2>3 DEF Reading
<1>5. CASE Writing
  BY <1>1, <1>2, <1>5 DEF Writing, Recv, WriteNext, WriteLast, WriteFail, RecvClosed, Stop
<1>6. CASE Waiting
  BY <1>2, <1>6 DEF Waiting, BackoffRecv, BackoffClosed, Reconnect, Stop
<1>7. CASE Environment
  <2>1. CASE ServerSend
    BY <2>1 DEF ServerSend
  <2>2. CASE ServerClose
    <3>1. partial' \in BOOLEAN /\ eof' \in BOOLEAN
      BY <2>2, Zenon DEF ServerClose
    <3> QED BY <2>2, <3>1 DEF ServerClose
  <2>3. CASE Produce \/ CloseWriters \/ RouterTake \/ RouterClose \/ Tick
    BY <1>2, <2>3 DEF Produce, CloseWriters, RouterTake, RouterClose, Tick
  <2> QED BY <1>7, <2>1, <2>2, <2>3 DEF Environment
<1>8. CASE Done \/ UNCHANGED vars
  BY <1>2, <1>8 DEF Done, vars
<1> QED BY <1>3, <1>4, <1>5, <1>6, <1>7, <1>8 DEF Next

LEMMA PacketTypeNext == InTypeOK /\ PacketTypeOK /\ [Next]_vars => PacketTypeOK'
<1> SUFFICES ASSUME InTypeOK, PacketTypeOK, [Next]_vars PROVE PacketTypeOK'
  OBVIOUS
<1>1. UNCHANGED pkts => PacketTypeOK'
  BY DEF pkts, PacketTypeOK
<1>2. CASE ReadLine
  <2> DEFINE Kinds == [line : Nat, part : {"whole", "beginning", "end"}]
  <2>1. Packet \in Kinds
    BY DEF Packet, LineOf, Consumed, InTypeOK
  <2>2. delivered' \in Seq(Kinds) /\ Len(delivered') >= Len(delivered)
    <3> HIDE DEF Kinds
    <3>1. delivered \in Seq(Kinds)
      BY DEF PacketTypeOK, Kinds
    <3> QED BY <1>2, <2>1, <3>1 DEF ReadLine
  <2> QED BY <1>2, <2>2 DEF ReadLine, PacketTypeOK
<1>3. CASE RouterTake \/ RouterClose
  <2>1. delivered' = delivered /\ routed' \in 0 .. Len(delivered')
    BY <1>3 DEF RouterTake, RouterClose, PacketTypeOK
  <2>2. routerOpen' \in BOOLEAN
    BY <1>3, Zenon DEF RouterTake, RouterClose, PacketTypeOK
  <2> QED BY <2>1, <2>2 DEF PacketTypeOK
<1>4. CASE Connection \/ Writing \/ Waiting
  BY <1>1, <1>4 DEF Connection, ConnectOk, ConnectFail, LoginOk, LoginFail, FlushLine, FlushFail,
       FlushDone, Writing, Recv, WriteNext, WriteLast, WriteFail, RecvClosed, Stop,
       Waiting, BackoffRecv, BackoffClosed, Reconnect
<1>5. CASE ReadHead \/ ReadClosed \/ ReadEof \/ ReadError \/ HeartbeatTimeout
  BY <1>1, <1>5 DEF ReadHead, ReadClosed, Stop, ReadEof, ReadError, HeartbeatTimeout
<1>6. CASE Produce \/ CloseWriters \/ ServerSend \/ ServerClose \/ Tick
  BY <1>1, <1>6 DEF Produce, CloseWriters, ServerSend, ServerClose, Tick
<1>7. CASE Done \/ UNCHANGED vars
  BY <1>1, <1>7 DEF Done, vars
<1> QED BY <1>2, <1>3, <1>4, <1>5, <1>6, <1>7 DEF Next, Reading, Environment

\* The type invariant of the client (run, connect_and_run), with the two facts
\* that tie its buffers to the await it is suspended at.
THEOREM TypeCorrect == Spec => []TypeOK
<1>1. TypeOK /\ [Next]_vars => TypeOK'
  BY ConnTypeNext, OutTypeNext, InTypeNext, PacketTypeNext DEF TypeOK
<1> QED BY TypeInit, <1>1, PTL DEF Spec

-----------------------------------------------------------------------------
(* The order of the lines and their accounting.  WireInOrder is not         *)
(* inductive: it needs that what is still queued is newer than what was     *)
(* written, and ordered within and between the buffers.                     *)

Ordered ==
    /\ Increasing(wire) /\ Increasing(pending) /\ Increasing(writeRx)
    /\ Before(Range(wire), Range(hand) \cup Range(pending) \cup Range(writeRx))
    /\ Before(Range(hand) \cup Range(pending), Range(writeRx))

LostApart ==
    lost \cap (Range(wire) \cup Range(hand) \cup Range(pending) \cup Range(writeRx)) = {}

QueueInv == Ordered /\ NoLineVanishes /\ LostApart

LEMMA QueueInit == Init => QueueInv
<1> SUFFICES ASSUME Init PROVE QueueInv
  OBVIOUS
<1>1. Increasing(<<>>)
  BY DEF Increasing
<1> QED BY <1>1, RangeEmpty DEF Init, QueueInv, Ordered, NoLineVanishes, LostApart, Before

\* The invariant mentions no variable but those of `out`.
LEMMA QueueStutter == QueueInv /\ UNCHANGED out => QueueInv'
  BY DEF QueueInv, Ordered, NoLineVanishes, LostApart, out, Increasing, Before

LEMMA QueueNext == TypeOK /\ QueueInv /\ [Next]_vars => QueueInv'
<1> SUFFICES ASSUME OutTypeOK, QueueInv, [Next]_vars PROVE QueueInv'
  BY DEF TypeOK
<1>1. /\ wire \in Seq(Nat) /\ pending \in Seq(Nat) /\ writeRx \in Seq(Nat) /\ hand \in Seq(Nat)
      /\ accepted \in Nat
      /\ Range(wire) \subseteq Nat /\ Range(pending) \subseteq Nat
      /\ Range(writeRx) \subseteq Nat /\ Range(hand) \subseteq Nat
  BY RangeType DEF OutTypeOK
<1> USE DEF QueueInv, Ordered, NoLineVanishes, LostApart
<1>2. ASSUME writeRx # <<>>
      PROVE  /\ Head(writeRx) \in Nat /\ Range(<<Head(writeRx)>>) = {Head(writeRx)}
             /\ Range(writeRx) = {Head(writeRx)} \cup Range(Tail(writeRx))
             /\ Increasing(Tail(writeRx)) /\ Before({Head(writeRx)}, Range(Tail(writeRx)))
  BY <1>1, <1>2, TailType, TakeHead, RangeSingleton
<1>3. CASE FlushLine
  <2>1. /\ Head(pending) \in Nat /\ Range(pending) = {Head(pending)} \cup Range(Tail(pending))
        /\ Increasing(Tail(pending)) /\ Before({Head(pending)}, Range(Tail(pending)))
    BY <1>1, <1>3, TailType, TakeHead DEF FlushLine
  <2>2. Range(wire') = Range(wire) \cup {Head(pending)}
    BY <1>1, <1>3, <2>1, RangeAppend DEF FlushLine
  <2>3. Increasing(wire')
    <3>1. Before(Range(wire), {Head(pending)})
      BY <2>1 DEF Before
    <3> QED BY <1>1, <1>3, <2>1, <3>1, AppendIncreasing DEF FlushLine
  <2>4. hand = <<>>
    BY <1>3 DEF FlushLine, OutTypeOK
  <2>5. hand' = hand /\ writeRx' = writeRx /\ pending' = Tail(pending) /\ lost' = lost
        /\ accepted' = accepted
    BY <1>3 DEF FlushLine
  <2> QED BY <2>1, <2>2, <2>3, <2>4, <2>5, RangeEmpty DEF Before
<1>4. CASE FlushFail
  <2>1. /\ wire' = wire /\ hand' = hand /\ writeRx' = writeRx /\ accepted' = accepted
        /\ pending' = <<>> /\ lost' = lost \cup Range(pending) /\ hand = <<>>
    BY <1>4 DEF FlushFail, OutTypeOK
  <2>2. Range(pending) \cap (Range(wire) \cup Range(writeRx)) = {}
    BY <1>1 DEF Before
  <2>3. Increasing(<<>>)
    BY DEF Increasing
  <2> QED BY <2>1, <2>2, <2>3, RangeEmpty DEF Before
<1>5. CASE Recv
  <2>1. /\ wire' = wire /\ pending' = pending /\ lost' = lost /\ accepted' = accepted
        /\ hand' = <<Head(writeRx)>> /\ writeRx' = Tail(writeRx) /\ writeRx # <<>>
        /\ hand = <<>> /\ pending = <<>>
    BY <1>5 DEF Recv, CanRecv, OutTypeOK
  <2> QED BY <1>2, <2>1, RangeEmpty DEF Before
<1>6. ASSUME state = "writing", wire' = wire \o hand
      PROVE  /\ Range(wire') = Range(wire) \cup Range(hand) /\ Increasing(wire')
             /\ pending = <<>> /\ Before(Range(hand), Range(writeRx))
  <2>1. /\ hand[1] \in Nat /\ hand = <<hand[1]>> /\ wire \o hand = Append(wire, hand[1])
        /\ pending = <<>>
    <3>1. Len(hand) = 1 /\ pending = <<>>
      BY <1>6 DEF OutTypeOK
    <3>2. hand[1] \in Nat /\ hand = <<hand[1]>>
      BY <1>1, <3>1, LengthOne
    <3>3. wire \o hand = Append(wire, hand[1])
      <4>1. wire \o <<hand[1]>> = Append(wire, hand[1])
        BY <1>1, <3>2
      <4> QED BY <3>2, <4>1
    <3> QED BY <3>1, <3>2, <3>3
  <2>2. Range(hand) = {hand[1]}
    BY <2>1, RangeSingleton
  <2>3. Before(Range(wire), {hand[1]})
    BY <2>2 DEF Before
  <2>4. Range(wire') = Range(wire) \cup {hand[1]} /\ Increasing(wire')
    BY <1>1, <1>6, <2>1, <2>3, RangeAppend, AppendIncreasing
  <2>5. Before(Range(hand), Range(writeRx))
    BY DEF Before
  <2> QED BY <2>1, <2>2, <2>4, <2>5
<1>7. CASE WriteNext
  <2>1. /\ pending' = pending /\ lost' = lost /\ accepted' = accepted /\ writeRx # <<>>
        /\ hand' = <<Head(writeRx)>> /\ writeRx' = Tail(writeRx)
    BY <1>7 DEF WriteNext
  <2>2. /\ Range(wire') = Range(wire) \cup Range(hand) /\ Increasing(wire')
        /\ pending = <<>> /\ Before(Range(hand), Range(writeRx))
    BY <1>6, <1>7 DEF WriteNext
  <2> QED BY <1>2, <2>1, <2>2, RangeEmpty DEF Before
<1>8. CASE WriteLast
  <2>1. /\ pending' = pending /\ lost' = lost /\ accepted' = accepted
        /\ hand' = <<>> /\ writeRx' = writeRx
    BY <1>8 DEF WriteLast
  <2>2. /\ Range(wire') = Range(wire) \cup Range(hand) /\ Increasing(wire')
        /\ pending = <<>> /\ Before(Range(hand), Range(writeRx))
    BY <1>6, <1>8 DEF WriteLast
  <2> QED BY <2>1, <2>2, RangeEmpty DEF Before
<1>9. CASE WriteFail
  <2>1. /\ wire' = wire /\ pending' = pending /\ writeRx' = writeRx /\ accepted' = accepted
        /\ hand' = <<>> /\ lost' = lost \cup Range(hand) /\ pending = <<>>
    BY <1>9 DEF WriteFail, OutTypeOK
  <2>2. Range(hand) \cap (Range(wire) \cup Range(writeRx)) = {}
    BY <1>1 DEF Before
  <2> QED BY <2>1, <2>2, RangeEmpty DEF Before
<1>10. CASE BackoffRecv
  <2>1. /\ wire' = wire /\ hand' = hand /\ lost' = lost /\ accepted' = accepted
        /\ pending' = Append(pending, Head(writeRx)) /\ writeRx' = Tail(writeRx)
        /\ writeRx # <<>> /\ hand = <<>>
    BY <1>10 DEF BackoffRecv, CanRecv, OutTypeOK
  <2>2. Range(pending') = Range(pending) \cup {Head(writeRx)}
    BY <1>1, <1>2, <2>1, RangeAppend
  <2>3. Increasing(pending')
    <3>1. Before(Range(pending), {Head(writeRx)})
      BY <1>2, <2>1 DEF Before
    <3> QED BY <1>1, <1>2, <2>1, <3>1, AppendIncreasing
  <2> QED BY <1>2, <2>1, <2>2, <2>3, RangeEmpty DEF Before
<1>11. CASE Produce
  <2>1. /\ wire' = wire /\ hand' = hand /\ lost' = lost /\ pending' = pending
        /\ accepted' = accepted + 1 /\ writeRx' = Append(writeRx, accepted + 1)
    BY <1>11 DEF Produce
  <2>2. Range(writeRx') = Range(writeRx) \cup {accepted + 1}
    <3>1. accepted + 1 \in Nat
      BY <1>1
    <3>2. Range(Append(writeRx, accepted + 1)) = Range(writeRx) \cup {accepted + 1}
      <4>1. writeRx \in Seq(Nat)
        BY <1>1
      <4> QED BY <3>1, <4>1, RangeAppend
    <3> QED BY <2>1, <3>2
  <2>3. \A x \in lost \cup Range(wire) \cup Range(hand) \cup Range(pending) \cup Range(writeRx) :
            x \in 1 .. accepted /\ x < accepted + 1
    BY <1>1
  <2>4. Increasing(writeRx')
    <3>1. Before(Range(writeRx), {accepted + 1})
      BY <2>3 DEF Before
    <3> QED BY <1>1, <2>1, <3>1, AppendIncreasing
  <2>5. 1 .. accepted + 1 = (1 .. accepted) \cup {accepted + 1} /\ accepted + 1 \notin 1 .. accepted
    BY <1>1
  <2>6. NoLineVanishes'
    BY <2>1, <2>2, <2>5
  <2>7. LostApart'
    BY <2>1, <2>2, <2>3, <2>5
  <2>8. Ordered'
    BY <2>1, <2>2, <2>3, <2>4 DEF Before
  <2> QED BY <2>6, <2>7, <2>8
<1>12. CASE CloseWriters
  BY <1>12 DEF CloseWriters, Increasing, Before
<1>13. CASE UNCHANGED out
  BY <1>13, QueueStutter
<1>14. CASE ConnectOk \/ ConnectFail \/ LoginOk \/ LoginFail \/ FlushDone
  BY <1>13, <1>14 DEF ConnectOk, ConnectFail, LoginOk, LoginFail, FlushDone
<1>15. CASE Reading \/ RecvClosed \/ BackoffClosed \/ Reconnect
  BY <1>13, <1>15 DEF Reading, ReadHead, ReadLine, ReadClosed, ReadEof, ReadError,
        HeartbeatTimeout, RecvClosed, BackoffClosed, Reconnect, Stop
<1>16. CASE RouterTake \/ RouterClose \/ ServerSend \/ ServerClose \/ Tick \/ Done \/ UNCHANGED vars
  BY <1>13, <1>16 DEF RouterTake, RouterClose, ServerSend, ServerClose, Tick, Done, vars
<1> QED BY <1>3, <1>4, <1>5, <1>7, <1>8, <1>9, <1>10, <1>11, <1>12, <1>14, <1>15, <1>16
        DEF Next, Connection, Writing, Waiting, Environment

\* Lines reach the servers in the order the channel accepted them and never
\* twice (pending_writes.drain before write_rx.recv, one drain of the batch).
THEOREM OrderCorrect == Spec => []WireInOrder
<1>1. QueueInv => WireInOrder
  BY DEF QueueInv, Ordered, WireInOrder
<1> QED BY <1>1, QueueInit, QueueNext, TypeCorrect, PTL DEF Spec

\* An accepted line is written, discarded by a failed write, or still held by
\* exactly one buffer of run() and connect_and_run().
THEOREM AccountingCorrect == Spec => []ExactlyOnePlace
<1>1. TypeOK /\ QueueInv => ExactlyOnePlace
  <2> SUFFICES ASSUME TypeOK, QueueInv PROVE ExactlyOnePlace
    OBVIOUS
  <2>1. /\ Range(wire) \subseteq Nat /\ Range(pending) \subseteq Nat
        /\ Range(writeRx) \subseteq Nat /\ Range(hand) \subseteq Nat
    BY RangeType DEF TypeOK, OutTypeOK
  <2>2. \A x \in Nat : ~(x < x)
    OBVIOUS
  <2>3. Once
    BY <2>1, <2>2 DEF QueueInv, Ordered, LostApart, Before, Once
  <2> QED BY <2>3 DEF ExactlyOnePlace, QueueInv
<1> QED BY <1>1, QueueInit, QueueNext, TypeCorrect, PTL DEF Spec

-----------------------------------------------------------------------------
(* The timers.                                                              *)

\* What is left on the armed timer and what has passed make the whole timeout.
ClockInv ==
    /\ state = "select" => timer + age >= Heartbeat
    /\ state = "backoff" => timer + age >= Backoff

LEMMA ClockNext == TypeOK /\ ClockInv /\ [Next]_vars => ClockInv'
<1> SUFFICES ASSUME ConnTypeOK, ClockInv, [Next]_vars PROVE ClockInv'
  BY DEF TypeOK
<1> USE ClientAssumption DEF ConnTypeOK, ClockInv
<1>1. Disconnect => ClockInv'
  BY DEF Disconnect
<1>2. Stop => ClockInv'
  BY DEF Stop
<1>3. CASE Connection
  BY <1>1, <1>3 DEF Connection, ConnectOk, ConnectFail, LoginOk, LoginFail, FlushLine,
                    FlushFail, FlushDone, conn
<1>4. CASE Reading
  BY <1>1, <1>2, <1>4 DEF Reading, ReadHead, ReadLine, HasLine, ReadClosed, ReadEof, ReadError,
                          HeartbeatTimeout, conn
<1>5. CASE Writing
  BY <1>1, <1>2, <1>5 DEF Writing, Recv, WriteNext, WriteLast, WriteFail, RecvClosed, conn
<1>6. CASE Waiting
  BY <1>2, <1>6 DEF Waiting, BackoffRecv, BackoffClosed, Reconnect
<1>7. CASE Tick
  BY <1>7 DEF Tick, Timed
<1>8. CASE Produce \/ CloseWriters \/ RouterTake \/ RouterClose \/ ServerSend \/ ServerClose
  BY <1>8 DEF Produce, CloseWriters, RouterTake, RouterClose, ServerSend, ServerClose, conn
<1>9. CASE Done \/ UNCHANGED vars
  BY <1>9 DEF Done, vars, conn
<1> QED BY <1>3, <1>4, <1>5, <1>6, <1>7, <1>8, <1>9 DEF Next, Environment

\* The heartbeat branch never fires early, and the backoff is never cut short,
\* however the select loops re-create their timers.
THEOREM TimersCorrect == Spec => TimersRunOut
<1>1. Init => ClockInv
  BY DEF Init, ClockInv
<1>2. TypeOK /\ ClockInv /\ [Next]_vars => [HeartbeatTimeout => age >= Heartbeat]_vars
  BY DEF HeartbeatTimeout, ClockInv, TypeOK, ConnTypeOK
<1>3. TypeOK /\ ClockInv /\ [Next]_vars => [Reconnect => age >= Backoff]_vars
  BY DEF Reconnect, ClockInv, TypeOK, ConnTypeOK
<1> QED BY <1>1, <1>2, <1>3, ClockNext, TypeCorrect, PTL
        DEF Spec, TimersRunOut

-----------------------------------------------------------------------------
(* The dashboard.                                                           *)

\* aprsis_connected and aprsis_server tell the truth until the task ends.
THEOREM DashboardCorrect == Spec => []DashboardTruth
<1>1. Init => DashboardTruth
  BY DEF Init, DashboardTruth, Connected
<1>2. TypeOK /\ DashboardTruth /\ [Next]_vars => DashboardTruth'
  <2> SUFFICES ASSUME ConnTypeOK, DashboardTruth, [Next]_vars PROVE DashboardTruth'
    BY DEF TypeOK
  <2> USE DEF ConnTypeOK, DashboardTruth, Connected
  <2>1. ASSUME Disconnect PROVE DashboardTruth'
    <3>1. dash'.connected = FALSE /\ state' = "backoff"
      BY <2>1 DEF Disconnect
    <3> QED BY <3>1
  <2>2. Stop => DashboardTruth'
    BY DEF Stop
  <2>3. ASSUME ConnectOk PROVE DashboardTruth'
    <3>1. dash'.connected = TRUE /\ dash'.server = server' /\ state' = "login"
      BY <2>3 DEF ConnectOk
    <3> QED BY <3>1
  <2>4. ASSUME UNCHANGED <<dash, server>>, state \in Connected, state' \in Connected
        PROVE  DashboardTruth'
    BY <2>4
  <2>5. ASSUME UNCHANGED <<dash, server>>, state \notin Connected,
               state' \in {"backoff", "connecting"}, state # "stopped"
        PROVE  DashboardTruth'
    BY <2>5
  <2>6. UNCHANGED conn => DashboardTruth'
    BY DEF conn
  <2>7. CASE Connection
    BY <2>1, <2>3, <2>4, <2>6, <2>7 DEF Connection, ConnectFail, LoginOk, LoginFail, FlushLine,
                                       FlushFail, FlushDone
  <2>8. CASE Reading
    BY <2>1, <2>2, <2>4, <2>6, <2>8 DEF Reading, ReadHead, ReadLine, HasLine, ReadClosed,
                                       ReadEof, ReadError, HeartbeatTimeout
  <2>9. CASE Writing
    BY <2>1, <2>2, <2>4, <2>6, <2>9 DEF Writing, Recv, WriteNext, WriteLast, WriteFail, RecvClosed
  <2>10. CASE Waiting
    BY <2>2, <2>5, <2>10 DEF Waiting, BackoffRecv, BackoffClosed, Reconnect
  <2>11. CASE Tick
    BY <2>11 DEF Tick
  <2>12. CASE Produce \/ CloseWriters \/ RouterTake \/ RouterClose \/ ServerSend \/ ServerClose
    BY <2>6, <2>12 DEF Produce, CloseWriters, RouterTake, RouterClose, ServerSend, ServerClose
  <2>13. CASE Done \/ UNCHANGED vars
    BY <2>6, <2>13 DEF Done, vars
  <2> QED BY <2>7, <2>8, <2>9, <2>10, <2>11, <2>12, <2>13 DEF Next, Environment
<1> QED BY <1>1, <1>2, TypeCorrect, PTL DEF Spec

-----------------------------------------------------------------------------
(* The packets.                                                             *)

\* Every packet's line lies behind the point read_line has reached, and past
\* the end of the stream no second packet can come of the truncated line.
PacketInv ==
    /\ PacketsInOrder
    /\ partial => IsHead(read)
    /\ \A i \in 1 .. Len(delivered) :
          \/ 2 * delivered[i].line <= read
          \/ eof /\ ~partial /\ read = sent /\ delivered[i].line <= LineOf(read)

LEMMA BehindHead ==
    ASSUME NEW r \in Nat, IsHead(r)
    PROVE  LineOf(r) \in Nat /\ \A n \in Nat : 2 * n <= r => n < LineOf(r)
<1> DEFINE m == (r + 1) \div 2
<1>1. m \in Nat /\ 2 * m >= r
  OBVIOUS
<1>2. ASSUME NEW n \in Nat, 2 * n <= r PROVE n < m
  <2>1. r # 2 * n
    BY DEF IsHead
  <2> QED BY <1>1, <1>2, <2>1
<1> QED BY <1>1, <1>2 DEF LineOf

LEMMA PacketNext == TypeOK /\ PacketInv /\ [Next]_vars => PacketInv'
<1> SUFFICES ASSUME InTypeOK, PacketTypeOK, PacketInv, [Next]_vars PROVE PacketInv'
  BY DEF TypeOK
<1>1. /\ sent \in Nat /\ read \in Nat /\ read <= sent
      /\ \A i \in 1 .. Len(delivered) : delivered[i].line \in Nat
  <2>1. \A i \in 1 .. Len(delivered) :
            delivered[i] \in [line : Nat, part : {"whole", "beginning", "end"}]
    BY ElementOfSeq DEF PacketTypeOK
  <2> QED BY <2>1 DEF InTypeOK
<1>2. ASSUME UNCHANGED <<delivered, read, partial>>, sent' = sent, eof => eof'
      PROVE PacketInv'
  BY <1>2 DEF PacketInv, PacketsInOrder, LineOf, IsHead
<1>3. ASSUME Disconnect, UNCHANGED delivered PROVE PacketInv'
  <2>1. /\ read' = 2 * LineOf(sent) /\ partial' = FALSE
        /\ \A i \in 1 .. Len(delivered) : 2 * delivered[i].line <= 2 * LineOf(sent)
    BY <1>1, <1>3 DEF Disconnect, LineOf, PacketInv
  <2> QED BY <1>3, <2>1 DEF PacketInv, PacketsInOrder
<1>4. Stop => PacketInv'
  BY <1>2 DEF Stop, in, pkts
<1>5. CASE Connection
  BY <1>2, <1>3, <1>5 DEF Connection, ConnectOk, ConnectFail, LoginOk, LoginFail, FlushLine,
                          FlushFail, FlushDone, in, pkts
<1>6. CASE ReadHead
  <2>1. read' = read + 1 /\ partial' /\ IsHead(read') /\ delivered' = delivered
        /\ read # sent
    BY <1>1, <1>6 DEF ReadHead, pkts
  <2>2. \A i \in 1 .. Len(delivered) : 2 * delivered[i].line <= read + 1
    BY <1>1, <2>1 DEF PacketInv
  <2> QED BY <2>1, <2>2 DEF PacketInv, PacketsInOrder
<1>7. CASE ReadLine
  <2>1. /\ partial' = FALSE /\ read' = Consumed /\ sent' = sent /\ eof' = eof
        /\ delivered' = delivered \/ delivered' = Append(delivered, Packet)
    BY <1>7 DEF ReadLine
  <2>2. \/ read < sent /\ ~IsHead(read + 1)
        \/ read = sent /\ eof /\ partial /\ IsHead(read)
    BY <1>7 DEF ReadLine, HasLine, PacketInv
  <2>3. /\ Packet.line = LineOf(Consumed) /\ Packet.line \in Nat
        /\ \A i \in 1 .. Len(delivered) :
              2 * delivered[i].line <= read /\ delivered[i].line < Packet.line
    <3>1. \A i \in 1 .. Len(delivered) : 2 * delivered[i].line <= read
      BY <1>1, <2>2 DEF PacketInv
    <3>2. Packet.line = LineOf(Consumed)
      BY DEF Packet
    <3>3. CASE read < sent /\ ~IsHead(read + 1)
      <4>1. Consumed = read + 1
        BY <3>3 DEF Consumed
      <4> QED BY <1>1, <3>1, <3>2, <3>3, <4>1 DEF LineOf, IsHead
    <3>4. CASE read = sent /\ IsHead(read)
      <4>1. Consumed = read
        BY <1>1, <3>4 DEF Consumed
      <4>2. LineOf(read) \in Nat /\ \A n \in Nat : 2 * n <= read => n < LineOf(read)
        <5>1. read \in Nat /\ IsHead(read)
          BY <1>1, <3>4
        <5> QED BY <5>1, BehindHead
      <4>3. ASSUME NEW i \in 1 .. Len(delivered)
            PROVE  2 * delivered[i].line <= read /\ delivered[i].line < LineOf(read)
        BY <1>1, <3>1, <4>2
      <4> QED BY <3>2, <4>1, <4>2, <4>3
    <3> QED BY <2>2, <3>3, <3>4
  <2>4. /\ read <= Consumed
        /\ \/ 2 * Packet.line <= Consumed
           \/ eof /\ Consumed = sent /\ Packet.line <= LineOf(Consumed)
    BY <1>1, <2>2, <2>3 DEF Consumed, LineOf, IsHead
  <2>5. CASE delivered' = delivered
    BY <1>1, <2>1, <2>3, <2>4, <2>5 DEF PacketInv, PacketsInOrder, Consumed
  <2>6. CASE delivered' = Append(delivered, Packet)
    <3> DEFINE Kinds == [line : Nat, part : {"whole", "beginning", "end"}]
    <3>1. Packet \in Kinds
      BY <1>1, <2>3 DEF Packet
    <3>2. delivered \in Seq(Kinds)
      BY DEF PacketTypeOK
    <3>3. /\ Len(delivered) \in Nat /\ Len(delivered') = Len(delivered) + 1
          /\ delivered'[Len(delivered) + 1] = Packet
          /\ \A i \in 1 .. Len(delivered) : delivered'[i] = delivered[i]
          /\ \A i \in 1 .. Len(delivered) + 1 : i \in 1 .. Len(delivered) \/ i = Len(delivered) + 1
      <4> HIDE DEF Kinds
      <4> QED BY <2>6, <3>1, <3>2, AppendElements
    <3>4. ASSUME NEW i \in 1 .. Len(delivered'), NEW j \in 1 .. Len(delivered'), i < j
          PROVE  delivered'[i].line < delivered'[j].line
      <4>1. i \in 1 .. Len(delivered)
        BY <3>3, <3>4
      <4>2. CASE j \in 1 .. Len(delivered)
        BY <3>3, <3>4, <4>1, <4>2 DEF PacketInv, PacketsInOrder
      <4>3. CASE j = Len(delivered) + 1
        BY <2>3, <3>3, <4>1, <4>3
      <4> QED BY <3>3, <4>2, <4>3
    <3>5. ASSUME NEW i \in 1 .. Len(delivered')
          PROVE  \/ 2 * delivered'[i].line <= read'
                 \/ eof' /\ ~partial' /\ read' = sent' /\ delivered'[i].line <= LineOf(read')
      <4>1. CASE i \in 1 .. Len(delivered)
        <5>1. Consumed \in Nat
          BY <1>1 DEF Consumed
        <5> QED BY <1>1, <2>1, <2>3, <2>4, <3>3, <4>1, <5>1
      <4>2. CASE i = Len(delivered) + 1
        BY <2>1, <2>4, <3>3, <4>2
      <4> QED BY <3>3, <4>1, <4>2
    <3> QED BY <2>1, <3>4, <3>5 DEF PacketInv, PacketsInOrder
  <2> QED BY <2>1, <2>5, <2>6
<1>8. CASE ReadClosed \/ ReadEof \/ ReadError \/ HeartbeatTimeout
  BY <1>3, <1>4, <1>8 DEF ReadClosed, ReadEof, ReadError, HeartbeatTimeout, pkts
<1>9. CASE Recv
  <2>1. read' = read /\ sent' = sent /\ eof' = eof /\ delivered' = delivered /\ partial' = FALSE
    BY <1>9 DEF Recv, pkts
  <2> QED BY <2>1 DEF PacketInv, PacketsInOrder, LineOf
<1>10. CASE WriteNext \/ WriteLast \/ WriteFail \/ RecvClosed
  BY <1>2, <1>3, <1>4, <1>10 DEF WriteNext, WriteLast, WriteFail, RecvClosed, in, pkts
<1>11. CASE Waiting
  BY <1>2, <1>4, <1>11 DEF Waiting, BackoffRecv, BackoffClosed, Reconnect, in, pkts
<1>12. CASE ServerSend
  <2>1. /\ read' = read /\ partial' = partial /\ delivered' = delivered /\ ~eof
        /\ \A i \in 1 .. Len(delivered) : 2 * delivered[i].line <= read
    BY <1>12 DEF ServerSend, PacketInv, pkts
  <2> QED BY <2>1 DEF PacketInv, PacketsInOrder, IsHead
<1>13. CASE Produce \/ CloseWriters \/ RouterTake \/ RouterClose \/ ServerClose \/ Tick
  BY <1>2, <1>13 DEF Produce, CloseWriters, RouterTake, RouterClose, ServerClose, Tick, in, pkts
<1>14. CASE Done \/ UNCHANGED vars
  BY <1>2, <1>14 DEF Done, vars, in, pkts
<1> QED BY <1>5, <1>6, <1>7, <1>8, <1>9, <1>10, <1>11, <1>12, <1>13, <1>14
        DEF Next, Reading, Writing, Environment

\* Packets go to the router in the order of the server's lines, at most one for
\* a line, even when a read is torn by a write or truncated by the end.
THEOREM PacketOrderCorrect == Spec => []PacketsInOrder
<1>1. Init => PacketInv
  BY DEF Init, PacketInv, PacketsInOrder
<1>2. PacketInv => PacketsInOrder
  BY DEF PacketInv
<1> QED BY <1>1, <1>2, PacketNext, TypeCorrect, PTL DEF Spec
=============================================================================
