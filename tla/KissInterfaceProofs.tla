------------------------- MODULE KissInterfaceProofs -------------------------
(***************************************************************************)
(* Proofs about KissInterface, of either kind: any channel sizes, timers,   *)
(* frames and transmissions.                                                *)
(***************************************************************************)
EXTENDS KissInterface, SharedLemmas

Upto(n) == [i \in 1 .. n |-> i]

LEMMA UptoType == ASSUME NEW n \in Nat PROVE Upto(n) \in Seq(Nat) /\ Len(Upto(n)) = n
  BY DEF Upto

\* What one read adds.
LEMMA UptoMore ==
    ASSUME NEW n \in Nat, NEW k \in Nat
    PROVE  /\ [i \in 1 .. k |-> n + i] \in Seq(Nat)
           /\ Upto(n) \o [i \in 1 .. k |-> n + i] = Upto(n + k)
<1> DEFINE more == [i \in 1 .. k |-> n + i]
<1>1. more \in Seq(Nat) /\ Len(more) = k /\ \A i \in 1 .. k : more[i] = n + i
  OBVIOUS
<1>2. /\ Upto(n) \in Seq(Nat) /\ Len(Upto(n)) = n
      /\ Upto(n + k) \in Seq(Nat) /\ Len(Upto(n + k)) = n + k
      /\ \A i \in 1 .. n : Upto(n)[i] = i
      /\ \A i \in 1 .. n + k : Upto(n + k)[i] = i
  BY UptoType DEF Upto
<1> SUFFICES Upto(n) \o more = Upto(n + k)
  BY <1>1
<1> HIDE DEF more
<1>3. /\ Upto(n) \o more \in Seq(Nat) /\ Len(Upto(n) \o more) = n + k
      /\ \A i \in 1 .. n + k :
            (Upto(n) \o more)[i] = IF i <= n THEN Upto(n)[i] ELSE more[i - n]
  <2> DEFINE both == Upto(n) \o more
  <2>1. Joins(Nat, both, Upto(n), more)
    <3>1. Upto(n) \in Seq(Nat) /\ more \in Seq(Nat)
      BY <1>1, <1>2
    <3> QED BY <3>1, ConcatElements
  <2> HIDE DEF both
  <2>2. /\ both \in Seq(Nat) /\ Len(both) = n + k
        /\ \A i \in 1 .. n : both[i] = Upto(n)[i]
        /\ \A j \in 1 .. k : both[n + j] = more[j]
    BY <1>1, <1>2, <2>1 DEF Joins
  <2>3. ASSUME NEW i \in 1 .. n + k PROVE both[i] = IF i <= n THEN Upto(n)[i] ELSE more[i - n]
    <3>1. CASE i <= n
      <4>1. i \in 1 .. n
        BY <3>1
      <4> QED BY <2>2, <3>1, <4>1
    <3>2. CASE ~(i <= n)
      <4>1. i - n \in 1 .. k /\ n + (i - n) = i
        BY <3>2
      <4>2. both[n + (i - n)] = more[i - n]
        BY <2>2, <4>1
      <4> QED BY <3>2, <4>1, <4>2
    <3> QED BY <3>1, <3>2
  <2> QED BY <2>2, <2>3 DEF both
<1>4. ASSUME NEW i \in 1 .. n + k PROVE (Upto(n) \o more)[i] = Upto(n + k)[i]
  <2>1. CASE i <= n
    <3>1. i \in 1 .. n
      BY <2>1
    <3> QED BY <1>2, <1>3, <2>1, <3>1
  <2>2. CASE i > n
    <3>1. i - n \in 1 .. k /\ n + (i - n) = i
      BY <2>2
    <3>2. Upto(n + k)[i] = i /\ more[i - n] = i
      BY <1>1, <1>2, <3>1
    <3>3. ~(i <= n)
      BY <2>2
    <3> QED BY <1>3, <3>2, <3>3
  <2>3. i <= n \/ i > n
    OBVIOUS
  <2> QED BY <2>1, <2>2, <2>3
<1> QED BY <1>2, <1>3, <1>4, SeqEqual

-----------------------------------------------------------------------------
(* Frames.                                                                  *)

FrameInv ==
    /\ frames \in Seq(Nat) /\ delivered \in Seq(Nat) /\ heard \in Nat
    /\ state # "stopped" => delivered \o frames = Upto(heard)
    /\ state \notin {"sending", "stopped"} => frames = <<>>
    /\ state = "sending" => frames # <<>>

LEMMA FramesInitially == Init => FrameInv
<1>1. <<>> \in Seq(Nat) /\ <<>> \o <<>> = <<>> /\ Upto(0) = <<>>
  BY DEF Upto
<1> QED BY <1>1 DEF Init, FrameInv

LEMMA ReadStep == ASSUME FrameInv, Read PROVE FrameInv'
<1>1. PICK k \in 0 .. FramesPerRead :
        /\ heard' = heard + k /\ frames' = [i \in 1 .. k |-> heard + i]
        /\ state' = IF k = 0 THEN "loop" ELSE "sending"
  BY DEF Read
<1>2. k \in Nat /\ heard \in Nat
  BY <1>1, InterfaceAssumption DEF FrameInv
<1>3. frames' \in Seq(Nat) /\ Upto(heard) \o frames' = Upto(heard')
  BY <1>1, <1>2, UptoMore
<1>4. delivered' = delivered /\ delivered \in Seq(Nat) /\ frames = <<>> /\ delivered \o frames = Upto(heard)
  BY DEF Read, FrameInv, pkts
<1>5. delivered = Upto(heard)
  BY <1>4, ConcatEmptySeq
<1>6. Len(frames') = k
  BY <1>1, <1>2
<1>7. (state' = "sending" => frames' # <<>>) /\ (state' # "sending" => frames' = <<>>)
  <2>1. CASE k = 0
    <3>1. state' = "loop"
      BY <1>1, <2>1
    <3>2. frames' = <<>>
      BY <1>3, <1>6, <2>1, EmptySeq
    <3> QED BY <3>1, <3>2
  <2>2. CASE k # 0
    <3>1. state' = "sending"
      BY <1>1, <2>2
    <3>2. Len(<<>>) = 0
      OBVIOUS
    <3>3. frames' # <<>>
      BY <1>6, <2>2, <3>2
    <3> QED BY <3>1, <3>3
  <2> QED BY <2>1, <2>2
<1>8. state' # "stopped"
  BY <1>1
<1>9. delivered' \o frames' = Upto(heard')
  BY <1>3, <1>4, <1>5
<1>10. delivered' \in Seq(Nat) /\ heard' \in Nat
  BY <1>1, <1>2, <1>4
<1> QED BY <1>3, <1>7, <1>8, <1>9, <1>10 DEF FrameInv

LEMMA SendPacketStep == ASSUME FrameInv, SendPacket PROVE FrameInv'
<1>1. frames \in Seq(Nat) /\ frames # <<>> /\ delivered \in Seq(Nat) /\ delivered \o frames = Upto(heard)
  BY DEF SendPacket, FrameInv
<1>2. delivered' \o frames' = delivered \o frames
  BY <1>1, TakenQueuedTake DEF SendPacket
<1>3. Tail(frames) \in Seq(Nat) /\ Append(delivered, Head(frames)) \in Seq(Nat)
  BY <1>1
<1> QED BY <1>1, <1>2, <1>3 DEF SendPacket, FrameInv

LEMMA FramesInductive == ASSUME FrameInv, [Next]_vars PROVE FrameInv'
<1> USE DEF FrameInv
<1>1. CASE UNCHANGED vars
  BY <1>1 DEF vars, link, rx, pkts
<1>2. CASE Link
  BY <1>2 DEF Link, Poll, ConnectOk, ConnectFail, Lost, Stop, BackoffOver, BackoffTransmit,
              TryAgain, ObeyStop, rx, pkts
<1>3. CASE Receiving
  BY <1>3, ReadStep, SendPacketStep
     DEF Receiving, SendClosed, ReadFail, Lost, Stop, WatchdogFires, link, rx, pkts
<1>4. CASE Sending
  BY <1>4 DEF Sending, TransmitIgnored, Transmit, WriteOk, WriteFail, Lost, Stop, link, rx, pkts
<1>5. CASE Environment
  BY <1>5 DEF Environment, IssueTransmit, IssueShutdown, DropHandle, RouterTake, RouterClose,
              Tick, link, rx, pkts
<1>6. CASE Done
  BY <1>6 DEF Done, vars, link, rx, pkts
<1> QED BY <1>1, <1>2, <1>3, <1>4, <1>5, <1>6 DEF Next

\* No frame is lost or reordered between the decoder and the router while the
\* interface runs, for any channel sizes and any number of frames in a read.
THEOREM FramesCorrect == Spec => []NoFrameLost
<1>1. FrameInv => NoFrameLost
  BY DEF FrameInv, NoFrameLost, Upto
<1> QED BY <1>1, FramesInitially, FramesInductive, PTL DEF Spec

-----------------------------------------------------------------------------
(* The watchdog.                                                            *)

WatchdogInv ==
    /\ quiet \in 0 .. Watchdog /\ warned \in BOOLEAN
    /\ warned = FALSE => warnings = 0
    /\ warned = TRUE => warnings = 1 /\ quiet = Watchdog

\* A silence brings one warning, when it has lasted for Watchdog ticks.
THEOREM WarningsCorrect == Spec => []OneWarningPerSilence
<1>0. Watchdog \in Nat /\ 0 \in 0 .. Watchdog /\ Watchdog \in 0 .. Watchdog
  <2>1. Watchdog \in Nat
    BY InterfaceAssumption
  <2> QED BY <2>1
<1>1. Init => WatchdogInv
  BY <1>0 DEF Init, WatchdogInv
<1>2. WatchdogInv /\ [Next]_vars => WatchdogInv'
  <2> SUFFICES ASSUME WatchdogInv, [Next]_vars PROVE WatchdogInv'
    OBVIOUS
  <2> USE DEF WatchdogInv
  <2>1. CASE UNCHANGED dog
    BY <2>1 DEF dog
  <2>2. CASE ConnectOk \/ Read
    BY <1>0, <2>2 DEF ConnectOk, Read
  <2>3. CASE WatchdogFires
    BY <1>0, <2>3 DEF WatchdogFires
  <2>4. CASE Tick
    <3>1. warned = TRUE => quiet = Watchdog
      OBVIOUS
    <3> QED BY <1>0, <2>4, <3>1 DEF Tick
  <2> QED
    BY <2>1, <2>2, <2>3, <2>4
       DEF Next, Link, Poll, ConnectFail, BackoffOver, BackoffTransmit, ObeyStop, Receiving,
           SendPacket, SendClosed, ReadFail, Sending, TransmitIgnored, Transmit, WriteOk, WriteFail,
           Environment, IssueTransmit, IssueShutdown, DropHandle, RouterTake, RouterClose, Done, vars
<1>3. WatchdogInv => OneWarningPerSilence
  BY DEF WatchdogInv, OneWarningPerSilence
<1> QED BY <1>1, <1>2, <1>3, PTL DEF Spec

-----------------------------------------------------------------------------
(* Transmissions.                                                           *)

\* The Transmit commands of a queue.
Asked(q) == Range(q) \ {Shutdown}

\* They are in the order in which they were issued.
InOrder(q) ==
    \A i, j \in 1 .. Len(q) : i < j /\ q[i] # Shutdown /\ q[j] # Shutdown => q[i] < q[j]

LEMMA TakeAsked ==
    ASSUME NEW q \in Seq(Nat), q # <<>>, InOrder(q)
    PROVE  /\ InOrder(Tail(q)) /\ Tail(q) \in Seq(Nat)
           /\ Head(q) = Shutdown => Asked(q) = Asked(Tail(q))
           /\ Head(q) # Shutdown => /\ Head(q) \in Nat \ {0}
                                    /\ Asked(q) = {Head(q)} \cup Asked(Tail(q))
                                    /\ \A c \in Asked(Tail(q)) : Head(q) < c
<1>1. /\ Len(q) \in Nat /\ Len(q) > 0 /\ DOMAIN q = 1 .. Len(q) /\ Head(q) = q[1] /\ q[1] \in Nat
      /\ Tail(q) \in Seq(Nat) /\ Len(Tail(q)) = Len(q) - 1 /\ DOMAIN Tail(q) = 1 .. Len(q) - 1
      /\ \A i \in 1 .. Len(q) - 1 : Tail(q)[i] = q[i + 1]
  OBVIOUS
<1>2. InOrder(Tail(q))
  BY <1>1 DEF InOrder
<1>3. Range(q) = {Head(q)} \cup Range(Tail(q))
  <2>2. ASSUME NEW i \in 1 .. Len(q) - 1 PROVE i + 1 \in 1 .. Len(q)
    BY <1>1
  <2>3. 1 \in 1 .. Len(q)
    BY <1>1
  <2>4. Range(q) = {q[i] : i \in 1 .. Len(q)} /\ Range(Tail(q)) = {q[i + 1] : i \in 1 .. Len(q) - 1}
    BY <1>1 DEF Range
  <2>5. ASSUME NEW c \in Range(q) PROVE c \in {Head(q)} \cup Range(Tail(q))
    <3>1. PICK i \in 1 .. Len(q) : c = q[i]
      BY <2>4
    <3>2. CASE i = 1
      BY <1>1, <3>1, <3>2
    <3>3. CASE i # 1
      <4>1. i - 1 \in 1 .. Len(q) - 1 /\ (i - 1) + 1 = i
        BY <1>1, <3>3
      <4> QED BY <2>4, <3>1, <4>1
    <3> QED BY <3>2, <3>3
  <2>6. {Head(q)} \cup Range(Tail(q)) \subseteq Range(q)
    BY <1>1, <2>2, <2>3, <2>4
  <2> QED BY <2>5, <2>6
<1>4. ASSUME Head(q) # Shutdown, NEW c \in Asked(Tail(q)) PROVE Head(q) < c
  <2>1. PICK i \in 1 .. Len(q) - 1 : Tail(q)[i] = c
    BY <1>1 DEF Asked, Range
  <2>2. i + 1 \in 1 .. Len(q) /\ 1 \in 1 .. Len(q) /\ 1 < i + 1 /\ q[i + 1] = c
    BY <1>1, <2>1
  <2> QED BY <1>1, <1>4, <2>2 DEF InOrder, Asked
<1> QED BY <1>1, <1>2, <1>3, <1>4 DEF Asked, Shutdown

LEMMA AppendAsked ==
    ASSUME NEW q \in Seq(Nat), InOrder(q), NEW x \in Nat,
           x # Shutdown => \A c \in Asked(q) : c < x
    PROVE  /\ InOrder(Append(q, x)) /\ Append(q, x) \in Seq(Nat)
           /\ Asked(Append(q, x)) = Asked(q) \cup ({x} \ {Shutdown})
<1>1. Range(Append(q, x)) = Range(q) \cup {x}
  BY RangeAppend
<1>2. /\ Len(q) \in Nat /\ Len(Append(q, x)) = Len(q) + 1 /\ Append(q, x)[Len(q) + 1] = x
      /\ \A i \in 1 .. Len(q) : Append(q, x)[i] = q[i]
      /\ \A i \in 1 .. Len(q) + 1 : i \in 1 .. Len(q) \/ i = Len(q) + 1
  BY AppendElements
<1>3. \A i \in 1 .. Len(q) : q[i] # Shutdown => q[i] \in Asked(q)
  BY DEF Asked, Range
<1>4. ASSUME NEW i \in 1 .. Len(q) + 1, NEW j \in 1 .. Len(q) + 1, i < j,
             Append(q, x)[i] # Shutdown, Append(q, x)[j] # Shutdown
      PROVE  Append(q, x)[i] < Append(q, x)[j]
  <2>1. i \in 1 .. Len(q)
    BY <1>2, <1>4
  <2>2. CASE j = Len(q) + 1
    BY <1>2, <1>3, <1>4, <2>1, <2>2
  <2>3. CASE j \in 1 .. Len(q)
    BY <1>2, <1>4, <2>1, <2>3 DEF InOrder
  <2> QED BY <1>2, <2>2, <2>3
<1>5. InOrder(Append(q, x))
  BY <1>2, <1>4 DEF InOrder
<1> QED BY <1>1, <1>5 DEF Asked

TransmitInv ==
    /\ cmds \in Seq(Nat) /\ tx \in Seq(Nat) /\ aired \in Seq(Nat) /\ ignored \subseteq Nat
    /\ issued \in Nat
    /\ InOrder(cmds) /\ Increasing(aired)
    /\ Range(aired) \cap ignored = {}
    /\ 1 .. issued = Range(aired) \cup ignored \cup Range(tx) \cup Asked(cmds)
    /\ Before(Range(aired) \cup ignored \cup Range(tx), Asked(cmds))
    /\ Before(Range(aired) \cup ignored, Range(tx))
    /\ state = "writing" => Len(tx) = 1
    /\ state # "writing" => tx = <<>>

LEMMA TransmitsInitially == Init => TransmitInv
<1>1. <<>> \in Seq(Nat) /\ Len(<<>>) = 0 /\ Range(<<>>) = {} /\ 1 .. 0 = {}
  BY EmptyType, RangeEmpty
<1>2. InOrder(<<>>) /\ Increasing(<<>>)
  BY DEF InOrder, Increasing
<1>3. SUFFICES ASSUME Init PROVE TransmitInv
  OBVIOUS
<1>4. state # "writing" /\ cmds = <<>> /\ tx = <<>> /\ aired = <<>> /\ ignored = {} /\ issued = 0
  BY <1>3 DEF Init
<1> QED BY <1>1, <1>2, <1>4 DEF TransmitInv, Before, Asked

\* A transmission that is dropped before it is written.
LEMMA IgnoreStep ==
    ASSUME TransmitInv, Transmitting, TakeCommand, Ignore, state # "writing", state' # "writing"
    PROVE  TransmitInv'
<1>1. /\ cmds \in Seq(Nat) /\ cmds # <<>> /\ Head(cmds) # Shutdown
      /\ cmds' = Tail(cmds) /\ ignored' = ignored \cup {Head(cmds)}
      /\ UNCHANGED <<issued, tx, aired>>
  BY DEF TransmitInv, Transmitting, TakeCommand, Ignore
<1>2. /\ InOrder(cmds') /\ cmds' \in Seq(Nat) /\ Head(cmds) \in Nat
      /\ Asked(cmds) = {Head(cmds)} \cup Asked(cmds')
      /\ \A c \in Asked(cmds') : Head(cmds) < c
  BY <1>1, TakeAsked DEF TransmitInv
<1>3. tx = <<>> /\ Range(tx) = {}
  BY RangeEmpty DEF TransmitInv
<1>4. \A c \in Range(aired) : c < Head(cmds) /\ c \in Nat
  BY <1>2, RangeType DEF TransmitInv, Before
<1>5. Head(cmds) \notin Range(aired)
  <2>1. ~(Head(cmds) < Head(cmds))
    BY <1>2
  <2> QED BY <1>4, <2>1
<1>6. Range(aired') \cap ignored' = {}
  BY <1>1, <1>5 DEF TransmitInv
<1>7. /\ 1 .. issued' = Range(aired') \cup ignored' \cup Range(tx') \cup Asked(cmds')
      /\ Before(Range(aired') \cup ignored' \cup Range(tx'), Asked(cmds'))
      /\ Before(Range(aired') \cup ignored', Range(tx'))
  BY <1>1, <1>2, <1>3 DEF TransmitInv, Before
<1> QED BY <1>1, <1>2, <1>3, <1>6, <1>7 DEF TransmitInv

LEMMA TransmitStep == ASSUME TransmitInv, Transmit PROVE TransmitInv'
<1>1. /\ cmds \in Seq(Nat) /\ cmds # <<>> /\ Head(cmds) # Shutdown
      /\ cmds' = Tail(cmds) /\ tx' = <<Head(cmds)>> /\ state' = "writing"
      /\ UNCHANGED <<issued, aired, ignored>>
      /\ state # "writing"
  BY DEF TransmitInv, Transmit, Transmitting, TakeCommand
<1>2. /\ InOrder(cmds') /\ cmds' \in Seq(Nat) /\ Head(cmds) \in Nat
      /\ Asked(cmds) = {Head(cmds)} \cup Asked(cmds')
      /\ \A c \in Asked(cmds') : Head(cmds) < c
  BY <1>1, TakeAsked DEF TransmitInv
<1>3. Range(tx) = {} /\ Range(tx') = {Head(cmds)} /\ tx' \in Seq(Nat) /\ Len(tx') = 1
  BY <1>1, <1>2, RangeEmpty, RangeSingleton, SingletonType DEF TransmitInv
<1>4. /\ 1 .. issued' = Range(aired') \cup ignored' \cup Range(tx') \cup Asked(cmds')
      /\ Before(Range(aired') \cup ignored' \cup Range(tx'), Asked(cmds'))
      /\ Before(Range(aired') \cup ignored', Range(tx'))
  BY <1>1, <1>2, <1>3 DEF TransmitInv, Before
<1> QED BY <1>1, <1>2, <1>3, <1>4 DEF TransmitInv

\* A write ends: what was written is later than all that was written or dropped.
LEMMA WriteStep == ASSUME TransmitInv, WriteOk \/ WriteFail PROVE TransmitInv'
<1>1. /\ tx \in Seq(Nat) /\ Len(tx) = 1 /\ aired \in Seq(Nat) /\ ignored \subseteq Nat
      /\ tx' = <<>> /\ UNCHANGED <<cmds, issued>> /\ state' # "writing"
  BY DEF TransmitInv, WriteOk, WriteFail, Lost, Stop, ctl
<1>2. tx[1] \in Nat /\ tx = <<tx[1]>> /\ Range(tx) = {tx[1]} /\ Range(tx') = {}
  BY <1>1, LengthOne, RangeSingleton, RangeEmpty
<1>3. \A c \in Range(aired) \cup ignored : c < tx[1]
  BY <1>2 DEF TransmitInv, Before
<1>4. tx[1] \notin Range(aired) /\ tx[1] \notin ignored
  <2>1. ~(tx[1] < tx[1])
    BY <1>2
  <2> QED BY <1>3, <2>1
<1>5. CASE WriteOk
  <2>1. aired' = Append(aired, tx[1]) /\ ignored' = ignored
    BY <1>1, <1>2, <1>5, AppendIsConcat DEF WriteOk
  <2>2. Range(aired') = Range(aired) \cup {tx[1]} /\ aired' \in Seq(Nat)
    BY <1>1, <1>2, <2>1, RangeAppend
  <2>3. Increasing(aired')
    BY <1>1, <1>2, <1>3, <2>1, AppendIncreasing DEF TransmitInv, Before
  <2> QED BY <1>1, <1>2, <1>4, <2>1, <2>2, <2>3 DEF TransmitInv, Before
<1>6. CASE WriteFail
  <2>1. aired' = aired /\ ignored' = ignored \cup {tx[1]}
    BY <1>6 DEF WriteFail
  <2> QED BY <1>1, <1>2, <1>4, <2>1 DEF TransmitInv, Before
<1> QED BY <1>5, <1>6

LEMMA ObeyStopStep == ASSUME TransmitInv, ObeyStop PROVE TransmitInv'
<1>1. /\ UNCHANGED <<issued, tx, aired, ignored>> /\ state # "writing" /\ state' # "writing"
      /\ cmds \in Seq(Nat) /\ InOrder(cmds)
  BY DEF TransmitInv, ObeyStop, Stop, tr
<1>2. cmds' \in Seq(Nat) /\ InOrder(cmds') /\ Asked(cmds') = Asked(cmds)
  <2>1. CASE cmds = <<>>
    BY <1>1, <2>1 DEF ObeyStop
  <2>2. CASE cmds # <<>>
    <3>1. Head(cmds) = Shutdown /\ cmds' = Tail(cmds)
      BY <2>2 DEF ObeyStop, ToldToStop
    <3> QED BY <1>1, <2>2, <3>1, TakeAsked
  <2> QED BY <2>1, <2>2
<1> QED BY <1>1, <1>2 DEF TransmitInv

LEMMA IssueStep == ASSUME TransmitInv, IssueTransmit \/ IssueShutdown PROVE TransmitInv'
<1>1. /\ UNCHANGED <<state, tx, aired, ignored>> /\ cmds \in Seq(Nat) /\ InOrder(cmds) /\ issued \in Nat
  BY DEF TransmitInv, IssueTransmit, IssueShutdown, link, tr
<1>2. CASE IssueShutdown
  <2>1. cmds' = Append(cmds, Shutdown) /\ issued' = issued /\ Shutdown \in Nat
    BY <1>2 DEF IssueShutdown, Shutdown
  <2>2. InOrder(cmds') /\ cmds' \in Seq(Nat) /\ Asked(cmds') = Asked(cmds)
    <3>1. /\ InOrder(Append(cmds, Shutdown)) /\ Append(cmds, Shutdown) \in Seq(Nat)
          /\ Asked(Append(cmds, Shutdown)) = Asked(cmds) \cup ({Shutdown} \ {Shutdown})
      BY <1>1, <2>1, AppendAsked
    <3>2. Asked(cmds) \cup ({Shutdown} \ {Shutdown}) = Asked(cmds)
      OBVIOUS
    <3> QED BY <2>1, <3>1, <3>2
  <2> QED BY <1>1, <2>1, <2>2 DEF TransmitInv
<1>3. CASE IssueTransmit
  <2>1. cmds' = Append(cmds, issued + 1) /\ issued' = issued + 1 /\ issued + 1 \in Nat /\ issued + 1 # Shutdown
    BY <1>1, <1>3 DEF IssueTransmit, Shutdown
  <2>2. \A c \in 1 .. issued : c < issued + 1
    BY <1>1
  <2>3. /\ \A c \in Asked(cmds) : c < issued + 1
        /\ \A c \in Range(aired) \cup ignored \cup Range(tx) : c < issued + 1
    BY <2>2 DEF TransmitInv
  <2>4. InOrder(cmds') /\ cmds' \in Seq(Nat) /\ Asked(cmds') = Asked(cmds) \cup {issued + 1}
    <3>1. /\ InOrder(Append(cmds, issued + 1)) /\ Append(cmds, issued + 1) \in Seq(Nat)
          /\ Asked(Append(cmds, issued + 1)) = Asked(cmds) \cup ({issued + 1} \ {Shutdown})
      BY <1>1, <2>1, <2>3, AppendAsked
    <3>2. {issued + 1} \ {Shutdown} = {issued + 1}
      BY <2>1
    <3> QED BY <2>1, <3>1, <3>2
  <2>5. 1 .. issued + 1 = (1 .. issued) \cup {issued + 1}
    BY <1>1
  <2>6. 1 .. issued' = Range(aired') \cup ignored' \cup Range(tx') \cup Asked(cmds')
    BY <1>1, <2>1, <2>4, <2>5 DEF TransmitInv
  <2>7. Before(Range(aired') \cup ignored' \cup Range(tx'), Asked(cmds'))
    BY <1>1, <2>3, <2>4 DEF TransmitInv, Before
  <2> QED BY <1>1, <2>1, <2>4, <2>6, <2>7 DEF TransmitInv
<1> QED BY <1>2, <1>3

LEMMA TransmitsKept ==
    ASSUME TransmitInv, UNCHANGED <<cmds, issued, tx, aired, ignored>>,
           (state' = "writing") <=> (state = "writing")
    PROVE  TransmitInv'
  BY DEF TransmitInv

LEMMA TransmitsInductive == ASSUME TransmitInv, [Next]_vars PROVE TransmitInv'
<1>1. CASE UNCHANGED vars
  BY <1>1, TransmitsKept DEF vars, link, ctl, tr
<1>2. CASE Poll
  <2>1. CASE Transmitting
    BY <1>2, <2>1, IgnoreStep DEF Poll
  <2>2. CASE ~Transmitting
    BY <1>2, <2>2, TransmitsKept DEF Poll, ctl, tr
  <2> QED BY <2>1, <2>2
<1>3. CASE BackoffTransmit
  BY <1>3, IgnoreStep DEF BackoffTransmit, TryAgain
<1>4. CASE TransmitIgnored
  BY <1>4, IgnoreStep DEF TransmitIgnored, link
<1>5. CASE ConnectOk \/ ConnectFail \/ BackoffOver
  BY <1>5, TransmitsKept DEF ConnectOk, ConnectFail, Lost, Stop, BackoffOver, TryAgain, ctl, tr
<1>6. CASE Receiving
  <2>1. UNCHANGED <<cmds, issued, tx, aired, ignored>>
    BY <1>6 DEF Receiving, Read, SendPacket, SendClosed, ReadFail, WatchdogFires, ctl, tr
  <2>2. state # "writing" /\ state' # "writing"
    BY <1>6 DEF Receiving, Read, SendPacket, SendClosed, ReadFail, WatchdogFires, Lost, Stop, link
  <2> QED BY <2>1, <2>2, TransmitsKept
<1>7. CASE DropHandle \/ RouterTake \/ RouterClose \/ Tick
  BY <1>7, TransmitsKept DEF DropHandle, RouterTake, RouterClose, Tick, link, ctl, tr
<1>8. CASE Done
  BY <1>8, TransmitsKept DEF Done, vars, link, ctl, tr
<1> QED
  BY <1>1, <1>2, <1>3, <1>4, <1>5, <1>6, <1>7, <1>8, TransmitStep, WriteStep, ObeyStopStep, IssueStep
     DEF Next, Link, Sending, Environment

\* Transmissions are written in the order they were asked for, none twice, and
\* none is forgotten, for any number of them and any size of the channel.
THEOREM TransmissionsCorrect == Spec => []TransmitOnce
<1>1. TransmitInv => TransmitOnce
  BY DEF TransmitInv, TransmitOnce, Increasing, Asked
<1> QED BY <1>1, TransmitsInitially, TransmitsInductive, PTL DEF Spec

-----------------------------------------------------------------------------
(* The backoff.                                                             *)

\* The definition by recursion has a solution.
LEMMA Doublings ==
    /\ Unlimited \in [Nat -> Nat] /\ Unlimited[0] = InitialBackoff
    /\ \A n \in Nat : Unlimited[n + 1] = 2 * Unlimited[n]
<1> DEFINE next == [n \in Nat |-> [x \in Nat |-> 2 * x]]
           Eq(g) == g = [n \in Nat |-> IF n = 0 THEN InitialBackoff ELSE 2 * g[n - 1]]
<1>1. InitialBackoff \in Nat
  BY InterfaceAssumption
<1>2. PICK h : Iterates(h, Nat, InitialBackoff, next)
  <2>1. next \in [Nat -> [Nat -> Nat]]
    OBVIOUS
  <2> HIDE DEF next
  <2> QED BY <1>1, <2>1, Recursion
<1>3. h \in [Nat -> Nat] /\ h[0] = InitialBackoff /\ \A n \in Nat : h[n + 1] = 2 * h[n]
  BY <1>2 DEF Iterates
<1>4. Eq(h)
  <2>1. ASSUME NEW n \in Nat, n # 0 PROVE h[n] = 2 * h[n - 1]
    <3>1. n - 1 \in Nat /\ (n - 1) + 1 = n
      BY <2>1
    <3> QED BY <1>3, <3>1
  <2> QED BY <1>3, <2>1
<1> DEFINE f == CHOOSE g : Eq(g)
<1>5. Eq(f)
  <2> HIDE DEF Eq
  <2> QED BY <1>4
<1>6. Unlimited = f
  BY DEF Unlimited
<1> HIDE DEF f
\* No other function fits.
<1>7. \A n \in Nat : f[n] = h[n]
  <2> DEFINE T == {n \in Nat : f[n] = h[n]}
  <2>1. 0 \in T
    BY <1>3, <1>5
  <2>2. ASSUME NEW n \in T PROVE n + 1 \in T
    <3>1. n + 1 \in Nat /\ n + 1 # 0 /\ (n + 1) - 1 = n
      OBVIOUS
    <3> QED BY <1>3, <1>5, <3>1
  <2>3. T = Nat
    <3> HIDE DEF T
    <3> QED BY <2>1, <2>2, Induction DEF T
  <2> QED BY <2>3
<1>8. DOMAIN f = Nat
  BY <1>5
<1>9. f = h
  BY <1>3, <1>5, <1>7
<1> QED BY <1>3, <1>6, <1>9

\* A delay under its limit.
Limited(d) == IF d < MaxBackoff THEN d ELSE MaxBackoff

\* Doubling a limited delay and limiting it again is doubling it.
LEMMA LimitedDoubles ==
    ASSUME NEW d \in Nat
    PROVE  Limited(2 * Limited(d)) = Limited(2 * d)
  BY InterfaceAssumption DEF Limited

BackoffInv == fails \in 0 .. MaxFails /\ backoff = Limited(Unlimited[fails])

LEMMA TryAgainStep == ASSUME BackoffInv, TryAgain PROVE BackoffInv'
<1>1. /\ MaxFails \in Nat /\ fails \in Nat /\ fails <= MaxFails /\ Unlimited[fails] \in Nat
      /\ Unlimited[fails + 1] = 2 * Unlimited[fails]
  BY Doublings, InterfaceAssumption DEF BackoffInv
<1>2. backoff' = Limited(2 * backoff) /\ Limited(2 * backoff) = Limited(2 * Unlimited[fails])
  BY <1>1, LimitedDoubles DEF TryAgain, Double, Limited, BackoffInv
<1>3. CASE fails < MaxFails
  BY <1>1, <1>2, <1>3 DEF TryAgain, BackoffInv
\* From here on the limit is what counts.
<1>4. CASE ~(fails < MaxFails)
  <2>1. fails' = fails /\ Unlimited[fails] >= MaxBackoff
    BY <1>1, <1>4, InterfaceAssumption DEF TryAgain
  <2>2. MaxBackoff \in Nat
    BY InterfaceAssumption
  <2>3. Limited(2 * Unlimited[fails]) = Limited(Unlimited[fails])
    BY <1>1, <2>1, <2>2 DEF Limited
  <2> QED BY <1>2, <2>1, <2>3 DEF BackoffInv
<1> QED BY <1>3, <1>4

\* However connections fail, and whatever commands cut a wait short, the delay
\* is InitialBackoff doubled once for each wait since the last connection, up
\* to MaxBackoff.
THEOREM BackoffCorrect == Spec => []BackoffFollowsFailures
<1>1. Init => BackoffInv
  <2> SUFFICES ASSUME Init PROVE BackoffInv
    OBVIOUS
  <2>1. 0 \in 0 .. MaxFails /\ Limited(InitialBackoff) = InitialBackoff
    BY InterfaceAssumption DEF Limited
  <2> QED BY <2>1, Doublings DEF Init, BackoffInv
<1>2. BackoffInv /\ [Next]_vars => BackoffInv'
  <2> SUFFICES ASSUME BackoffInv, [Next]_vars PROVE BackoffInv'
    OBVIOUS
  <2>1. CASE UNCHANGED <<backoff, fails>>
    BY <2>1 DEF BackoffInv
  <2>2. CASE ConnectOk
    <3>1. 0 \in 0 .. MaxFails /\ Limited(InitialBackoff) = InitialBackoff
      BY InterfaceAssumption DEF Limited
    <3> QED BY <2>2, <3>1, Doublings DEF ConnectOk, BackoffInv
  <2>3. CASE BackoffOver \/ BackoffTransmit
    BY <2>3, TryAgainStep DEF BackoffOver, BackoffTransmit
  <2>4. CASE Link \/ Receiving
    BY <2>1, <2>2, <2>3, <2>4
       DEF Link, Poll, ConnectFail, ObeyStop, Lost, Stop, Receiving, Read, SendPacket, SendClosed,
           ReadFail, WatchdogFires, link
  <2>5. CASE Sending \/ Environment \/ Done \/ UNCHANGED vars
    BY <2>1, <2>5
       DEF Sending, TransmitIgnored, Transmit, WriteOk, WriteFail, Lost, Stop, Environment, Done,
           IssueTransmit, IssueShutdown, DropHandle, RouterTake, RouterClose, Tick, link, vars
  <2> QED BY <2>4, <2>5 DEF Next
<1>3. BackoffInv => BackoffFollowsFailures
  BY DEF BackoffInv, BackoffFollowsFailures, Limited
<1> QED BY <1>1, <1>2, <1>3, PTL DEF Spec
=============================================================================
