------------------------------ MODULE BoardProofs ------------------------------
(***************************************************************************)
(* The dashboard, for any number of pages, any size of the ring, any limit  *)
(* and any stations: the count of event streams is right, what a page is    *)
(* sent is in order and complete, and the tables say what happened.         *)
(***************************************************************************)
EXTENDS Board, SharedLemmas

-----------------------------------------------------------------------------
(* A behaviour of the board is one of its pages and one of its tables.      *)

LEMMA BoardPages == BoardSpec => Spec
<1>1. BoardInit => Init
  BY DEF BoardInit
<1>2. [BoardNext]_boardVars => [Next]_vars
  BY DEF BoardNext, Following, Recording, Judging, Silence, boardVars, vars, state, stream
<1> QED BY <1>1, <1>2, PTL DEF BoardSpec, Spec

-----------------------------------------------------------------------------
(* The count of event streams.                                              *)

Awaits == {"none", "request", "responding"} \cup Open

\* The pages that hold a slot.
Holders == {c \in Pages : at[c] \in Open}

AtOK == at \in [Pages -> Awaits] /\ count \in Nat

IInv == AtOK /\ SlotsCounted

-----------------------------------------------------------------------------
(* The ways in which a step can change who holds a slot.                    *)

LEMMA HoldersFinite == IsFiniteSet(Holders) /\ Cardinality(Holders) \in Nat
<1>1. Holders \subseteq Pages
  BY DEF Holders
<1> QED BY <1>1, DashboardAssumption, FS_Subset, FS_CardinalityType

\* Connections stay where they are.
LEMMA NobodyMoves ==
    ASSUME IInv, UNCHANGED <<at, count>>
    PROVE  IInv'
  BY DEF IInv, AtOK, SlotsCounted

\* One moves, neither to an event stream nor from it; or within it.
LEMMA SlotKept ==
    ASSUME IInv, NEW c \in Pages, NEW to \in Awaits, at' = [at EXCEPT ![c] = to],
           at[c] \in Open <=> to \in Open, UNCHANGED count
    PROVE  IInv'
<1>1. Holders' = Holders
  BY DEF IInv, AtOK, Holders
<1>2. AtOK'
  BY DEF IInv, AtOK
<1> QED BY <1>1, <1>2 DEF IInv, SlotsCounted, Holders

LEMMA SlotTaken ==
    ASSUME IInv, NEW c \in Pages, at[c] \notin Open, at' = [at EXCEPT ![c] = "headers"],
           count < MaxSse, count' = count + 1
    PROVE  IInv'
<1>1. Holders' = Holders \cup {c} /\ c \notin Holders
  BY DEF IInv, AtOK, Holders, Open
<1>2. Cardinality(Holders') = Cardinality(Holders) + 1
  BY <1>1, HoldersFinite, FS_AddElement
<1>3. AtOK'
  BY DEF IInv, AtOK, Awaits, Open
<1> QED BY <1>2, <1>3, DashboardAssumption DEF IInv, AtOK, SlotsCounted, Holders

LEMMA SlotGivenBack ==
    ASSUME IInv, NEW c \in Pages, at[c] \in Open, at' = [at EXCEPT ![c] = "none"],
           count' = count - 1
    PROVE  IInv'
<1>1. Holders' = Holders \ {c} /\ c \in Holders
  BY DEF IInv, AtOK, Holders, Open, Streaming
<1>2. Cardinality(Holders') = Cardinality(Holders) - 1 /\ Cardinality(Holders') \in Nat
  <2>1. IsFiniteSet(Holders \ {c})
    BY HoldersFinite, FS_Subset
  <2> QED BY <1>1, <2>1, HoldersFinite, FS_RemoveElement, FS_CardinalityType
<1>3. AtOK'
  BY <1>2 DEF IInv, AtOK, SlotsCounted, Holders, Awaits
<1> QED BY <1>2, <1>3, HoldersFinite, DashboardAssumption DEF IInv, AtOK, SlotsCounted, Holders

-----------------------------------------------------------------------------
LEMMA SlotsInit == Init => IInv
<1> SUFFICES ASSUME Init PROVE IInv
  OBVIOUS
<1>1. Holders = {}
  BY DEF Init, Holders, Open, Streaming
<1>2. Cardinality(Holders) = 0
  BY <1>1, FS_EmptySet
<1> QED BY <1>2, DashboardAssumption DEF Init, IInv, AtOK, SlotsCounted, Holders, Awaits

LEMMA SlotsStep == IInv /\ [Next]_vars => IInv'
<1> SUFFICES ASSUME IInv, [Next]_vars PROVE IInv'
  OBVIOUS
<1> USE DEF Goes, Forget, Awaits, Open, Streaming
<1>1. CASE Push
  BY <1>1, NobodyMoves DEF Push
<1>2. CASE Tick
  BY <1>2, NobodyMoves DEF Tick
<1>3. ASSUME NEW c \in Pages, Request(c) PROVE IInv'
  <2>1. CASE Accept(c)
    BY <2>1, SlotKept DEF Accept
  <2>2. CASE ReadHeader(c)
    BY <2>2, SlotKept DEF ReadHeader
  <2>3. CASE Refuse(c)
    BY <2>3, SlotKept DEF Refuse
  <2>4. CASE RequestTimeout(c)
    BY <2>4, SlotKept DEF RequestTimeout, state
  <2>5. CASE Respond(c)
    BY <2>5, SlotKept DEF Respond, state
  <2> QED BY <1>3, <2>1, <2>2, <2>3, <2>4, <2>5 DEF Request
<1>4. ASSUME NEW c \in Pages, Follow(c) PROVE IInv'
  <2>1. CASE Subscribe(c)
    <3>1. CASE count < MaxSse
      BY <2>1, <3>1, SlotTaken DEF Subscribe
    <3>2. CASE ~(count < MaxSse)
      BY <2>1, <3>2, SlotKept DEF Subscribe
    <3> QED BY <3>1, <3>2
  <2>2. CASE HeadersSent(c)
    BY <2>2, SlotKept DEF HeadersSent
  <2>3. CASE InitialSent(c)
    BY <2>3, SlotKept DEF InitialSent
  <2>4. CASE PacketSent(c)
    BY <2>4, SlotKept DEF PacketSent
  <2>5. CASE StateSent(c)
    BY <2>5, SlotKept DEF StateSent
  <2>6. CASE WriteFail(c)
    BY <2>6, SlotGivenBack DEF WriteFail
  <2>7. CASE Poll(c)
    BY <2>7, SlotKept DEF Poll
  <2>8. CASE SendState(c)
    BY <2>8, SlotKept DEF SendState
  <2>9. CASE Expire(c)
    BY <2>9, SlotGivenBack DEF Expire
  <2> QED BY <1>4, <2>1, <2>2, <2>3, <2>4, <2>5, <2>6, <2>7, <2>8, <2>9 DEF Follow, Written
<1>5. CASE UNCHANGED vars
  BY <1>5, NobodyMoves DEF vars
<1> QED BY <1>1, <1>2, <1>3, <1>4, <1>5 DEF Next

\* The count of event streams is right, on whatever paths streams have begun
\* and ended: refused at the limit, timed out, or broken off in any write.
THEOREM CountCorrect == BoardSpec => []SlotsCounted
<1>1. IInv => SlotsCounted
  BY DEF IInv
<1> QED BY <1>1, SlotsInit, SlotsStep, BoardPages, PTL DEF Spec
-----------------------------------------------------------------------------
(* What the pages are sent.                                                 *)

\* The ring holds the newest packets, in their order, and is empty only before
\* the first.
RingOK ==
    /\ sequence \in Nat /\ ring \in Seq(Nat) /\ Increasing(ring)
    /\ Range(ring) \subseteq 1 .. sequence
    /\ sequence > 0 => sequence \in Range(ring)

PageTypes ==
    /\ at \in [Pages -> Awaits]
    /\ out \in [Pages -> Seq(Nat)] /\ events \in [Pages -> Seq(Nat)]
    /\ last \in [Pages -> Nat] /\ shown \in [Pages -> SUBSET Nat]
    /\ refreshed \in [Pages -> BOOLEAN]

\* What of the ring a page was offered in a poll.
Polled(c) == Range(ring) \cap 1 .. last[c]

\* What was sent packet by packet, and is being sent so, was polled, and in order.
Ordered(c) ==
    /\ last[c] <= sequence
    /\ Increasing(events[c]) /\ Range(events[c]) \subseteq 1 .. last[c]
    /\ at[c] = "packets" =>
          out[c] # <<>> /\ Range(out[c]) \subseteq 1 .. last[c] /\ Increasing(events[c] \o out[c])

\* A page lacks of what was polled at most what is being sent to it, from its
\* second state on; that state has all of it.
Complete(c) ==
    /\ at[c] \notin Streaming => ~refreshed[c]
    /\ at[c] = "state" => Polled(c) \subseteq Range(out[c])
    /\ at[c] = "idle" /\ refreshed[c] => Polled(c) \subseteq shown[c]
    /\ at[c] = "packets" /\ refreshed[c] => Polled(c) \subseteq shown[c] \cup Range(out[c])

PagesInv == RingOK /\ PageTypes /\ \A c \in Pages : Ordered(c) /\ Complete(c)

-----------------------------------------------------------------------------
LEMMA NewerPackets ==
    ASSUME RingOK, NEW n \in Nat
    PROVE  /\ Newer(n) \in Seq(Nat) /\ Increasing(Newer(n))
           /\ Range(Newer(n)) = Range(ring) \cap (n + 1 .. sequence)
           /\ n < sequence => Newer(n) # <<>>
<1>1. /\ Newer(n) \in Seq(Nat) /\ Increasing(Newer(n))
      /\ Range(Newer(n)) = Range(ring) \cap (n + 1 .. sequence)
  BY SelectType, SelectIncreasing DEF RingOK, Newer
<1>2. ASSUME n < sequence PROVE Newer(n) # <<>>
  <2>1. sequence \in Range(Newer(n))
    BY <1>1, <1>2 DEF RingOK
  <2> QED BY <2>1, RangeEmpty
<1> QED BY <1>1, <1>2

\* Of a page nothing changes.
Same(c) == UNCHANGED <<at[c], out[c], last[c], shown[c], events[c], refreshed[c]>>

LEMMA OneMoves ==
    ASSUME PagesInv, UNCHANGED state, NEW c \in Pages, \A d \in Pages \ {c} : Same(d),
           PageTypes', Ordered(c)', Complete(c)'
    PROVE  PagesInv'
<1>1. ASSUME NEW d \in Pages \ {c} PROVE Ordered(d)' /\ Complete(d)'
  <2>1. Ordered(d) /\ Complete(d) /\ Same(d)
    BY DEF PagesInv
  <2> QED BY <2>1 DEF Same, Ordered, Complete, Polled, state
<1>2. RingOK'
  BY DEF PagesInv, RingOK, state
<1> QED BY <1>1, <1>2 DEF PagesInv

\* Before and after an event stream.
LEMMA Elsewhere ==
    ASSUME PagesInv, UNCHANGED <<state, stream>>, NEW c \in Pages, NEW to \in Awaits \ Streaming,
           at[c] \notin Streaming, at' = [at EXCEPT ![c] = to]
    PROVE  PagesInv'
<1>1. PageTypes' /\ \A d \in Pages \ {c} : Same(d)
  BY DEF PagesInv, PageTypes, Same, stream
<1>2. at'[c] = to /\ Ordered(c) /\ Complete(c)
  BY DEF PagesInv, PageTypes
<1>3. Ordered(c)' /\ Complete(c)'
  BY <1>2 DEF Ordered, Complete, stream, state, Streaming
<1> QED BY <1>1, <1>3, OneMoves

LEMMA Ends ==
    ASSUME PagesInv, UNCHANGED state, NEW c \in Pages, Forget(c)
    PROVE  PagesInv'
<1>1. PageTypes' /\ \A d \in Pages \ {c} : Same(d)
  <2>1. <<>> \in Seq(Nat)
    OBVIOUS
  <2> QED BY <2>1 DEF Forget, PagesInv, PageTypes, Same, Awaits
<1>2. /\ at'[c] = "none" /\ out'[c] = <<>> /\ last'[c] = 0 /\ shown'[c] = {} /\ events'[c] = <<>>
      /\ refreshed'[c] = FALSE
  BY DEF Forget, PagesInv, PageTypes
<1>3. Increasing(<<>>) /\ Range(<<>>) = {}
  BY RangeEmpty DEF Increasing
<1>4. Ordered(c)'
  BY <1>2, <1>3 DEF Ordered, PagesInv, RingOK, state
<1>5. Complete(c)'
  BY <1>2 DEF Complete, Streaming
<1> QED BY <1>1, <1>4, <1>5, OneMoves

LEMMA PagesPush ==
    ASSUME PagesInv, Push
    PROVE  PagesInv'
<1> DEFINE n == sequence + 1
           old == IF Len(ring) >= RingCap THEN Tail(ring) ELSE ring
<1>1. /\ sequence \in Nat /\ ring \in Seq(Nat) /\ Increasing(ring) /\ Range(ring) \subseteq 1 .. sequence
      /\ sequence' = n /\ ring' = Append(old, n)
  BY DEF PagesInv, RingOK, Push
<1>2. old \in Seq(Nat) /\ Increasing(old) /\ Range(old) \subseteq Range(ring)
  <2>1. CASE Len(ring) >= RingCap
    <3>1. ring # <<>>
      BY <2>1, DashboardAssumption
    <3>2. old = Tail(ring)
      BY <2>1
    <3> HIDE DEF old
    <3>3. Tail(ring) \in Seq(Nat)
      BY <1>1, <3>1, TailType
    <3>4. Increasing(Tail(ring)) /\ Range(ring) = {Head(ring)} \cup Range(Tail(ring))
      BY <1>1, <3>1, TakeHead
    <3> QED BY <3>2, <3>3, <3>4
  <2>2. CASE ~(Len(ring) >= RingCap)
    BY <1>1, <2>2
  <2> QED BY <2>1, <2>2
<1> HIDE DEF old
<1>3. Range(ring') = Range(old) \cup {n}
  BY <1>1, <1>2, RangeAppend
<1>4. RingOK'
  <2>1. Before(Range(old), {n})
    BY <1>1, <1>2 DEF Before
  <2>2. Append(old, n) \in Seq(Nat) /\ Increasing(Append(old, n))
    BY <1>1, <1>2, <2>1, AppendIncreasing
  <2> QED BY <1>1, <1>2, <1>3, <2>2 DEF RingOK
<1>5. ASSUME NEW c \in Pages PROVE Ordered(c)' /\ Complete(c)'
  <2>1. Ordered(c) /\ Complete(c) /\ last[c] \in Nat /\ UNCHANGED <<at, stream>>
    BY DEF PagesInv, PageTypes, Push
  <2>2. last[c] < n
    BY <1>1, <2>1 DEF Ordered
  <2>3. Polled(c)' \subseteq Polled(c)
    BY <1>2, <1>3, <2>1, <2>2 DEF Polled, stream
  <2> QED BY <1>1, <2>1, <2>2, <2>3 DEF Ordered, Complete, stream
<1> QED BY <1>4, <1>5 DEF PagesInv, PageTypes, Push, stream

-----------------------------------------------------------------------------
(* The steps of an event stream.                                            *)

\* The whole ring is about to be sent.
LEMMA PagesSnapshot ==
    ASSUME PagesInv, NEW c \in Pages, HeadersSent(c) \/ SendState(c)
    PROVE  PagesInv'
<1>1. /\ at' = [at EXCEPT ![c] = IF at[c] = "headers" THEN "initial" ELSE "state"]
      /\ at[c] \in {"headers", "idle"}
      /\ out' = [out EXCEPT ![c] = ring]
      /\ UNCHANGED <<state, last, shown, events, refreshed>>
  BY DEF HeadersSent, SendState, Goes, to_json
<1>2. PageTypes' /\ \A d \in Pages \ {c} : Same(d)
  BY <1>1 DEF PagesInv, PageTypes, RingOK, Same, Awaits, Open, Streaming
<1>3. out'[c] = ring /\ at'[c] = (IF at[c] = "headers" THEN "initial" ELSE "state")
  BY <1>1 DEF PagesInv, PageTypes
<1>4. Ordered(c)' /\ Complete(c)'
  BY <1>1, <1>3 DEF PagesInv, Ordered, Complete, Polled, Streaming, state
<1> QED BY <1>1, <1>2, <1>4, OneMoves

LEMMA PagesInitial ==
    ASSUME PagesInv, NEW c \in Pages, InitialSent(c)
    PROVE  PagesInv'
<1>1. /\ at[c] = "initial" /\ at' = [at EXCEPT ![c] = "idle"]
      /\ shown' = [shown EXCEPT ![c] = Range(out[c])] /\ out' = [out EXCEPT ![c] = <<>>]
      /\ last' = [last EXCEPT ![c] = sequence]
      /\ UNCHANGED <<state, events, refreshed>>
  BY DEF InitialSent, Goes
<1>2. PageTypes' /\ \A d \in Pages \ {c} : Same(d)
  <2>1. <<>> \in Seq(Nat) /\ Range(out[c]) \subseteq Nat
    BY RangeType DEF PagesInv, PageTypes
  <2> QED BY <1>1, <2>1 DEF PagesInv, PageTypes, RingOK, Same, Awaits, Open, Streaming
<1>3. at'[c] = "idle" /\ last'[c] = sequence /\ Ordered(c) /\ Complete(c) /\ last[c] \in Nat
      /\ sequence \in Nat
  BY <1>1 DEF PagesInv, PageTypes, RingOK
<1>4. Ordered(c)'
  <2>1. Range(events[c]) \subseteq 1 .. sequence
    BY <1>3 DEF Ordered
  <2> QED BY <1>1, <1>3, <2>1 DEF Ordered, state
<1>5. Complete(c)'
  BY <1>1, <1>3 DEF Complete, Streaming
<1> QED BY <1>1, <1>2, <1>4, <1>5, OneMoves

LEMMA PagesPoll ==
    ASSUME PagesInv, NEW c \in Pages, Poll(c)
    PROVE  PagesInv'
<1> DEFINE new == Newer(last[c])
<1>1. /\ at[c] = "idle" /\ at' = [at EXCEPT ![c] = "packets"] /\ sequence > last[c]
      /\ out' = [out EXCEPT ![c] = new] /\ last' = [last EXCEPT ![c] = sequence]
      /\ UNCHANGED <<state, shown, events, refreshed>>
  BY DEF Poll, Goes
<1>2. /\ last[c] \in Nat /\ sequence \in Nat /\ RingOK /\ Ordered(c) /\ Complete(c)
      /\ events[c] \in Seq(Nat)
  BY DEF PagesInv, PageTypes, RingOK
<1>3. /\ new \in Seq(Nat) /\ Increasing(new) /\ new # <<>>
      /\ Range(new) = Range(ring) \cap (last[c] + 1 .. sequence)
  BY <1>1, <1>2, NewerPackets
<1> HIDE DEF new
<1>4. PageTypes' /\ \A d \in Pages \ {c} : Same(d)
  BY <1>1, <1>3 DEF PagesInv, PageTypes, RingOK, Same, Awaits, Open, Streaming
<1>5. at'[c] = "packets" /\ out'[c] = new /\ last'[c] = sequence
  BY <1>1 DEF PagesInv, PageTypes
<1>6. Ordered(c)'
  <2>1. Range(events[c]) \subseteq 1 .. last[c] /\ Increasing(events[c])
    BY <1>2 DEF Ordered
  <2>2. Before(Range(events[c]), Range(new))
    BY <1>2, <1>3, <2>1 DEF Before
  <2>3. Increasing(events[c] \o new)
    BY <1>2, <1>3, <2>1, <2>2, ConcatIncreasing
  <2>4. Range(events[c]) \subseteq 1 .. sequence /\ Range(new) \subseteq 1 .. sequence
    BY <1>1, <1>2, <1>3, <2>1
  <2> QED BY <1>1, <1>2, <1>3, <1>5, <2>1, <2>3, <2>4 DEF Ordered, state
<1>7. Complete(c)'
  <2>1. \A n \in 1 .. sequence : n \in 1 .. last[c] \/ n \in last[c] + 1 .. sequence
    BY <1>2
  <2> QED BY <1>1, <1>2, <1>3, <1>5, <2>1 DEF Complete, Polled, Streaming, state
<1> QED BY <1>1, <1>4, <1>6, <1>7, OneMoves

LEMMA PagesPacket ==
    ASSUME PagesInv, NEW c \in Pages, PacketSent(c)
    PROVE  PagesInv'
<1> DEFINE q == out[c]
           to == IF Len(q) = 1 THEN "idle" ELSE "packets"
<1>1. /\ at[c] = "packets" /\ at' = [at EXCEPT ![c] = to]
      /\ shown' = [shown EXCEPT ![c] = shown[c] \cup {Head(q)}]
      /\ events' = [events EXCEPT ![c] = Append(events[c], Head(q))]
      /\ out' = [out EXCEPT ![c] = Tail(q)]
      /\ UNCHANGED <<state, last, refreshed>>
  BY DEF PacketSent, Goes
<1>2. /\ Ordered(c) /\ Complete(c) /\ q \in Seq(Nat) /\ events[c] \in Seq(Nat) /\ q # <<>>
      /\ last[c] \in Nat
  BY <1>1 DEF PagesInv, PageTypes, Ordered
<1>3. /\ Head(q) \in Nat /\ Tail(q) \in Seq(Nat) /\ Len(Tail(q)) = Len(q) - 1 /\ Len(q) \in Nat
      /\ Range(q) = {Head(q)} \cup Range(Tail(q))
  BY <1>2, TailType, TakeElements
<1>4. Append(events[c], Head(q)) \in Seq(Nat) /\ Append(events[c], Head(q)) \o Tail(q) = events[c] \o q
  <2> HIDE DEF q
  <2>1. Append(events[c], Head(q)) \in Seq(Nat)
    BY <1>2, <1>3
  <2> QED BY <1>2, <2>1, TakenQueuedTake
<1>5. /\ at'[c] = to /\ shown'[c] = shown[c] \cup {Head(q)} /\ out'[c] = Tail(q)
      /\ events'[c] = Append(events[c], Head(q))
  BY <1>1 DEF PagesInv, PageTypes
<1>6. Tail(q) = <<>> <=> to = "idle"
  <2>1. Tail(q) = <<>> <=> Len(Tail(q)) = 0
    BY <1>3, EmptySeq
  <2> QED BY <1>3, <2>1
<1>7. PageTypes' /\ \A d \in Pages \ {c} : Same(d)
  BY <1>1, <1>3, <1>4 DEF PagesInv, PageTypes, Same, Awaits, Open, Streaming
<1>8. to \in {"idle", "packets"}
  OBVIOUS
<1>9. Range(q) \subseteq 1 .. last[c] /\ Increasing(events[c] \o q) /\ Range(events[c]) \subseteq 1 .. last[c]
  BY <1>1, <1>2 DEF Ordered
<1> HIDE DEF to, q
<1>10. Ordered(c)'
  <2>1. Range(Append(events[c], Head(q))) = Range(events[c]) \cup {Head(q)}
    BY <1>2, <1>3, RangeAppend
  <2>2. Increasing(Append(events[c], Head(q)))
    BY <1>3, <1>4, <1>9, PrefixIncreasing
  <2>3. last[c] <= sequence
    BY <1>2 DEF Ordered
  <2>4. Range(events'[c]) \subseteq 1 .. last[c] /\ Increasing(events'[c])
    BY <1>3, <1>5, <1>9, <2>1, <2>2
  <2>5. at'[c] = "packets" => /\ out'[c] # <<>> /\ Range(out'[c]) \subseteq 1 .. last[c]
                              /\ Increasing(events'[c] \o out'[c])
    BY <1>3, <1>4, <1>5, <1>6, <1>9
  <2> QED BY <1>1, <2>3, <2>4, <2>5 DEF Ordered, state
<1>11. Complete(c)'
  <2>1. Tail(q) = <<>> => Range(Tail(q)) = {}
    BY RangeEmpty
  <2> QED BY <1>1, <1>2, <1>3, <1>5, <1>6, <1>8, <2>1 DEF Complete, Polled, Streaming, state, q
<1> QED BY <1>1, <1>7, <1>10, <1>11, OneMoves

LEMMA PagesState ==
    ASSUME PagesInv, NEW c \in Pages, StateSent(c)
    PROVE  PagesInv'
<1>1. /\ at[c] = "state" /\ at' = [at EXCEPT ![c] = "idle"]
      /\ shown' = [shown EXCEPT ![c] = shown[c] \cup Range(out[c])]
      /\ out' = [out EXCEPT ![c] = <<>>] /\ refreshed' = [refreshed EXCEPT ![c] = TRUE]
      /\ UNCHANGED <<state, last, events>>
  BY DEF StateSent, Goes
<1>2. PageTypes' /\ \A d \in Pages \ {c} : Same(d)
  <2>1. <<>> \in Seq(Nat) /\ Range(out[c]) \subseteq Nat
    BY RangeType DEF PagesInv, PageTypes
  <2> QED BY <1>1, <2>1 DEF PagesInv, PageTypes, Same, Awaits, Open, Streaming
<1>3. at'[c] = "idle" /\ shown'[c] = shown[c] \cup Range(out[c]) /\ Ordered(c) /\ Complete(c)
  BY <1>1 DEF PagesInv, PageTypes
<1>4. Ordered(c)' /\ Complete(c)'
  BY <1>1, <1>3 DEF Ordered, Complete, Polled, Streaming, state
<1> QED BY <1>1, <1>2, <1>4, OneMoves

-----------------------------------------------------------------------------
LEMMA PagesInit == Init => PagesInv
<1> SUFFICES ASSUME Init PROVE PagesInv
  OBVIOUS
<1>1. <<>> \in Seq(Nat) /\ Range(<<>>) = {} /\ Increasing(<<>>)
  BY RangeEmpty DEF Increasing
<1>2. RingOK
  BY <1>1 DEF Init, RingOK
<1>3. PageTypes
  BY <1>1 DEF Init, PageTypes, Awaits
<1>4. \A c \in Pages : Ordered(c) /\ Complete(c)
  BY <1>1 DEF Init, Ordered, Complete, Streaming
<1> QED BY <1>2, <1>3, <1>4 DEF PagesInv

LEMMA PagesStep == PagesInv /\ [Next]_vars => PagesInv'
<1> SUFFICES ASSUME PagesInv, [Next]_vars PROVE PagesInv'
  OBVIOUS
<1>1. ASSUME UNCHANGED <<state, at, out, last, shown, events, refreshed>> PROVE PagesInv'
  BY <1>1 DEF PagesInv, RingOK, PageTypes, Ordered, Complete, Polled, state
<1>2. CASE Push
  BY <1>2, PagesPush
<1>3. CASE Tick
  BY <1>1, <1>3 DEF Tick
<1>4. ASSUME NEW c \in Pages, Request(c) PROVE PagesInv'
  <2>1. CASE Accept(c) \/ ReadHeader(c) \/ Refuse(c)
    BY <2>1, Elsewhere DEF Accept, ReadHeader, Refuse, Goes, Awaits, Streaming
  <2>2. CASE RequestTimeout(c) \/ Respond(c)
    BY <2>2, Ends DEF RequestTimeout, Respond
  <2> QED BY <1>4, <2>1, <2>2 DEF Request
<1>5. ASSUME NEW c \in Pages, Follow(c) PROVE PagesInv'
  <2>1. CASE Subscribe(c)
    BY <2>1, Elsewhere DEF Subscribe, Goes, Awaits, Open, Streaming
  <2>2. CASE HeadersSent(c) \/ SendState(c)
    BY <2>2, PagesSnapshot
  <2>3. CASE InitialSent(c)
    BY <2>3, PagesInitial
  <2>4. CASE PacketSent(c)
    BY <2>4, PagesPacket
  <2>5. CASE StateSent(c)
    BY <2>5, PagesState
  <2>6. CASE Poll(c)
    BY <2>6, PagesPoll
  <2>7. CASE WriteFail(c) \/ Expire(c)
    BY <2>7, Ends DEF WriteFail, Expire
  <2> QED BY <1>5, <2>1, <2>2, <2>3, <2>4, <2>5, <2>6, <2>7 DEF Follow, Written
<1>6. CASE UNCHANGED vars
  BY <1>1, <1>6 DEF vars, stream
<1> QED BY <1>2, <1>3, <1>4, <1>5, <1>6 DEF Next

\* While the ring moves on under what is being sent, a page gets every packet
\* at most once as an event of its own, and in order: what one poll copies is
\* behind what the polls before it did.
THEOREM OrderCorrect == BoardSpec => []EventsInOrder
<1>1. PagesInv => EventsInOrder
  BY DEF PagesInv, EventsInOrder, Ordered
<1> QED BY <1>1, PagesInit, PagesStep, BoardPages, PTL DEF Spec

\* After its second state a page has been sent whatever of the ring was polled:
\* the state closes the gap that the first one left, and no poll opens another.
THEOREM CompleteCorrect == BoardSpec => []CaughtUp
<1>1. PagesInv => CaughtUp
  BY DEF PagesInv, CaughtUp, Complete, Polled
<1> QED BY <1>1, PagesInit, PagesStep, BoardPages, PTL DEF Spec
-----------------------------------------------------------------------------
(* The tables of stations.                                                  *)

Key(name)  == Tables!to_uppercase(name)
Naming(k)  == {h \in Tables!Records : Key(h.call) = k}
Placing(k) == {h \in Tables!Records : Key(h.call) = k /\ h.place # {}}
Coming(w)  == {j \in Tables!Judgments : j.reasons = w}

Entries  == [interface : Interfaces, count : Nat, place : Tables!Places]
Counters == [rx : Nat, gated : Nat, dropped : Nat, unique : Nat, why : [Tables!Reasons -> Nat]]

\* The entry of a station tells how many packets named it, the interface of the
\* last of them, and the place of the last of those that tell one.
Tells(k) ==
    /\ stations[k].count = Len(Select(heard, Naming(k)))
    /\ stations[k].interface = Select(heard, Naming(k))[Len(Select(heard, Naming(k)))].interface
    /\ stations[k].place = IF Select(heard, Placing(k)) = <<>> THEN {}
                           ELSE Select(heard, Placing(k))[Len(Select(heard, Placing(k)))].place

StationsInv ==
    /\ heard \in Seq(Tables!Records)
    /\ stations \in [{Key(h.call) : h \in Range(heard)} -> Entries]
    /\ \A k \in DOMAIN stations : Tells(k)

\* The set of gated stations, which the property does not mention, says why
\* their number is right.
CountersInv ==
    /\ judged \in Seq(Tables!Judgments) /\ igate \in Counters
    /\ igate.rx = Len(judged) /\ igate.rx = igate.gated + igate.dropped
    /\ \A r \in Tables!Reasons : igate.why[r] = Len(Select(judged, Coming({r})))
    /\ gated = {Key(j.call) : j \in Range(Select(judged, Coming({})))}
    /\ IsFiniteSet(gated) /\ igate.unique = Cardinality(gated)

\* What selects nothing, of what is in a queue, selects the empty queue.
LEMMA NothingSelected ==
    ASSUME NEW A, NEW s \in Seq(A), NEW S, Range(s) \cap S = {}
    PROVE  Select(s, S) = <<>>
<1>1. Select(s, S) \in Seq(A) /\ Range(Select(s, S)) = {}
  BY SelectType
<1> DEFINE t == Select(s, S)
<1>2. t \in Seq(A) /\ Range(t) = {}
  BY <1>1
<1> HIDE DEF t
<1>3. ASSUME t # <<>> PROVE FALSE
  <2>1. Range(t) = {Head(t)} \cup Range(Tail(t))
    BY <1>2, <1>3, TakeElements
  <2> QED BY <1>2, <2>1
<1> QED BY <1>3 DEF t

LEMMA LastAppended ==
    ASSUME NEW A, NEW s \in Seq(A), NEW x \in A
    PROVE  Append(s, x)[Len(Append(s, x))] = x /\ Len(Append(s, x)) = Len(s) + 1 /\ Append(s, x) # <<>>
<1>1. Len(s) \in Nat /\ Len(Append(s, x)) = Len(s) + 1 /\ Append(s, x)[Len(s) + 1] = x
  BY AppendElements
<1>2. Len(<<>>) = 0 /\ Len(s) + 1 # 0
  BY <1>1
<1>3. Append(s, x) # <<>>
  BY <1>1, <1>2
<1> QED BY <1>1, <1>3

LEMMA StationsInit == Tables!Init => StationsInv
<1> SUFFICES ASSUME Tables!Init PROVE StationsInv
  OBVIOUS
<1>1. stations = <<>> /\ heard = <<>> /\ Range(<<>>) = {} /\ <<>> \in Seq(Tables!Records)
  BY RangeEmpty DEF Tables!Init
<1>2. DOMAIN stations = {} /\ stations \in [{} -> Entries]
  BY <1>1
<1>3. {Key(h.call) : h \in Range(heard)} = {}
  BY <1>1
<1> QED BY <1>1, <1>2, <1>3 DEF StationsInv

LEMMA StationsStep ==
    ASSUME StationsInv, NEW c \in Tables!Names, NEW i \in Interfaces, NEW p \in Tables!Places,
           Tables!record_station(c, i, p)
    PROVE  StationsInv'
<1> DEFINE h == [call |-> c, interface |-> i, place |-> p]
           key == Key(c)
           old == IF key \in DOMAIN stations THEN stations[key]
                  ELSE [interface |-> i, count |-> 0, place |-> {}]
           new == [interface |-> i, count |-> old.count + 1, place |-> IF p = {} THEN old.place ELSE p]
<1>1. /\ heard \in Seq(Tables!Records) /\ heard' = Append(heard, h) /\ h \in Tables!Records
      /\ h.call = c /\ h.interface = i /\ h.place = p
  BY DEF StationsInv, Tables!record_station, Tables!Records
<1>2. stations' = [k \in DOMAIN stations \cup {key} |-> IF k = key THEN new ELSE stations[k]]
  BY DEF Tables!record_station, Tables!Recorded, Tables!Put, Key
<1>3. DOMAIN stations = {Key(g.call) : g \in Range(heard)} /\ \A k \in DOMAIN stations : stations[k] \in Entries
  BY DEF StationsInv
<1>4. old \in Entries
  BY <1>3 DEF Entries, Tables!Places
<1>5. /\ new \in Entries /\ new.count = old.count + 1 /\ new.interface = i
      /\ new.place = IF p = {} THEN old.place ELSE p
  BY <1>4 DEF Entries
<1>6. Range(heard') = Range(heard) \cup {h}
  BY <1>1, RangeAppend
<1> HIDE DEF h, new, old
<1>7. {Key(g.call) : g \in Range(heard')} = DOMAIN stations \cup {key}
  BY <1>1, <1>3, <1>6
<1>8. stations' \in [{Key(g.call) : g \in Range(heard')} -> Entries]
  BY <1>2, <1>3, <1>5, <1>7
<1>9. ASSUME NEW k
      PROVE  /\ Select(heard, Naming(k)) \in Seq(Tables!Records)
             /\ Select(heard, Placing(k)) \in Seq(Tables!Records)
             /\ Select(heard', Naming(k)) = IF k = key THEN Append(Select(heard, Naming(k)), h)
                                            ELSE Select(heard, Naming(k))
             /\ Select(heard', Placing(k)) = IF k = key /\ p # {} THEN Append(Select(heard, Placing(k)), h)
                                             ELSE Select(heard, Placing(k))
  <2>1. (h \in Naming(k) <=> k = key) /\ (h \in Placing(k) <=> k = key /\ p # {})
    BY <1>1 DEF Naming, Placing
  <2>2. Select(heard, Naming(k)) \in Seq(Tables!Records) /\ Select(heard, Placing(k)) \in Seq(Tables!Records)
    BY <1>1, SelectType
  <2>3. /\ Select(Append(heard, h), Naming(k)) =
              IF h \in Naming(k) THEN Append(Select(heard, Naming(k)), h) ELSE Select(heard, Naming(k))
        /\ Select(Append(heard, h), Placing(k)) =
              IF h \in Placing(k) THEN Append(Select(heard, Placing(k)), h) ELSE Select(heard, Placing(k))
    BY <1>1, SelectAppend
  <2> QED BY <1>1, <2>1, <2>2, <2>3
\* The entry there was, or none, tells what was heard before.
<1>10. /\ old.count = Len(Select(heard, Naming(key)))
       /\ old.place = IF Select(heard, Placing(key)) = <<>> THEN {}
                      ELSE Select(heard, Placing(key))[Len(Select(heard, Placing(key)))].place
  <2>1. CASE key \in DOMAIN stations
    BY <2>1 DEF old, StationsInv, Tells
  <2>2. CASE key \notin DOMAIN stations
    <3>1. Range(heard) \cap Naming(key) = {} /\ Range(heard) \cap Placing(key) = {}
      BY <1>3, <2>2 DEF Naming, Placing
    <3>2. Select(heard, Naming(key)) = <<>> /\ Select(heard, Placing(key)) = <<>>
      BY <1>1, <3>1, NothingSelected
    <3> QED BY <2>2, <3>2 DEF old
  <2> QED BY <2>1, <2>2
<1>11. ASSUME NEW k \in DOMAIN stations' PROVE Tells(k)'
  <2>1. CASE k = key
    <3>1. stations'[k] = new /\ Len(Select(heard, Naming(k))) \in Nat
      BY <1>2, <1>9, <2>1
    <3> DEFINE n == Select(heard', Naming(k))
               s == Select(heard', Placing(k))
    <3>2. n[Len(n)] = h /\ Len(n) = Len(Select(heard, Naming(k))) + 1
      BY <1>1, <1>9, <2>1, LastAppended
    <3>3. p # {} => s # <<>> /\ s[Len(s)] = h
      BY <1>1, <1>9, <2>1, LastAppended
    <3>4. p = {} => s = Select(heard, Placing(k))
      BY <1>9
    <3> HIDE DEF n, s
    <3>5. /\ new.count = Len(n) /\ new.interface = n[Len(n)].interface
          /\ new.place = IF s = <<>> THEN {} ELSE s[Len(s)].place
      BY <1>1, <1>5, <1>10, <2>1, <3>2, <3>3, <3>4
    <3> QED BY <3>1, <3>5 DEF Tells, n, s
  <2>2. CASE k # key
    <3>1. k \in DOMAIN stations /\ stations'[k] = stations[k] /\ Tells(k)
      BY <1>2, <2>2 DEF StationsInv
    <3> QED BY <1>9, <2>2, <3>1 DEF Tells
  <2> QED BY <2>1, <2>2
<1>12. heard' \in Seq(Tables!Records)
  BY <1>1
<1> QED BY <1>8, <1>11, <1>12 DEF StationsInv

-----------------------------------------------------------------------------
(* The counters of the iGate.                                               *)

LEMMA CountersInit == Tables!Init => CountersInv
<1> SUFFICES ASSUME Tables!Init PROVE CountersInv
  OBVIOUS
<1>1. /\ judged = <<>> /\ gated = {} /\ Range(<<>>) = {} /\ Len(<<>>) = 0
      /\ <<>> \in Seq(Tables!Judgments)
      /\ igate = [rx |-> 0, gated |-> 0, dropped |-> 0, unique |-> 0, why |-> [r \in Tables!Reasons |-> 0]]
  BY RangeEmpty DEF Tables!Init
<1>2. \A w : Select(judged, Coming(w)) = <<>>
  BY <1>1, NothingSelected
<1>3. IsFiniteSet(gated) /\ Cardinality(gated) = 0
  BY <1>1, FS_EmptySet
<1>4. {Key(j.call) : j \in Range(Select(judged, Coming({})))} = {}
  BY <1>1, <1>2
<1> QED BY <1>1, <1>2, <1>3, <1>4 DEF CountersInv, Counters

LEMMA CountersStep ==
    ASSUME CountersInv, NEW c \in Tables!Names, NEW w \in Tables!Verdicts,
           Tables!record_igate_result(c, w)
    PROVE  CountersInv'
<1> DEFINE j == [call |-> c, reasons |-> w]
           key == Key(c)
<1>1. /\ judged \in Seq(Tables!Judgments) /\ judged' = Append(judged, j) /\ j \in Tables!Judgments
      /\ j.call = c /\ j.reasons = w /\ Len(judged) \in Nat /\ Len(judged') = Len(judged) + 1
  <2>1. /\ judged \in Seq(Tables!Judgments) /\ judged' = Append(judged, j)
        /\ j \in Tables!Judgments /\ j.call = c /\ j.reasons = w
    BY DEF CountersInv, Tables!record_igate_result, Tables!Judgments
  <2> HIDE DEF j
  <2> QED BY <2>1, LastAppended
<1> HIDE DEF j
<1>2. ASSUME NEW v
      PROVE  /\ Select(judged, Coming(v)) \in Seq(Tables!Judgments)
             /\ Select(judged', Coming(v)) = IF v = w THEN Append(Select(judged, Coming(v)), j)
                                             ELSE Select(judged, Coming(v))
  <2>1. j \in Coming(v) <=> v = w
    BY <1>1 DEF Coming
  <2> QED BY <1>1, <2>1, SelectType, SelectAppend
<1>3. ASSUME NEW v
      PROVE  /\ Len(Select(judged, Coming(v))) \in Nat
             /\ Len(Select(judged', Coming(v))) = IF v = w THEN Len(Select(judged, Coming(v))) + 1
                                                  ELSE Len(Select(judged, Coming(v)))
  BY <1>1, <1>2, LastAppended
<1>4. gated' = (IF w = {} THEN gated \cup {key} ELSE gated)
      /\ gated' = {Key(i.call) : i \in Range(Select(judged', Coming({})))}
  <2>1. gated' = (IF w = {} THEN gated \cup {key} ELSE gated)
    BY DEF Tables!record_igate_result, Key
  <2>2. gated = {Key(i.call) : i \in Range(Select(judged, Coming({})))}
    BY DEF CountersInv
  <2>3. w = {} => Range(Select(judged', Coming({}))) = Range(Select(judged, Coming({}))) \cup {j}
    <3> DEFINE t == Select(judged, Coming({}))
    <3>1. t \in Seq(Tables!Judgments) /\ (w = {} => Select(judged', Coming({})) = Append(t, j))
      BY <1>2
    <3> HIDE DEF t
    <3>2. Range(Append(t, j)) = Range(t) \cup {j}
      BY <1>1, <3>1, RangeAppend
    <3> QED BY <3>1, <3>2 DEF t
  <2>4. w # {} => Select(judged', Coming({})) = Select(judged, Coming({}))
    BY <1>2
  <2> QED BY <1>1, <2>1, <2>2, <2>3, <2>4
<1>5. IsFiniteSet(gated') /\ Cardinality(gated') \in Nat
  <2>1. IsFiniteSet(gated) /\ IsFiniteSet(gated \cup {key})
    BY FS_AddElement DEF CountersInv
  <2> QED BY <1>4, <2>1, FS_CardinalityType
<1>6. /\ igate \in Counters /\ igate.rx = Len(judged) /\ igate.rx = igate.gated + igate.dropped
      /\ igate.unique = Cardinality(gated)
      /\ \A r \in Tables!Reasons : igate.why[r] = Len(Select(judged, Coming({r})))
  BY DEF CountersInv
<1>7. \A S : Tables!Cardinality(S) = Cardinality(S)
  BY DEF Cardinality, Tables!Cardinality
<1>8. igate' = [rx      |-> igate.rx + 1,
                gated   |-> igate.gated + (IF w = {} THEN 1 ELSE 0),
                dropped |-> igate.dropped + Cardinality(w),
                unique  |-> IF gated' = gated THEN igate.unique ELSE Cardinality(gated'),
                why     |-> [r \in Tables!Reasons |-> igate.why[r] + (IF r \in w THEN 1 ELSE 0)]]
  BY <1>7 DEF Tables!record_igate_result
<1>9. Cardinality(w) = IF w = {} THEN 0 ELSE 1
  BY FS_EmptySet, FS_Singleton DEF Tables!Verdicts
<1>10. igate'.unique = Cardinality(gated')
  BY <1>6, <1>8
<1>11. igate' \in Counters /\ igate'.rx = Len(judged') /\ igate'.rx = igate'.gated + igate'.dropped
  <2> DEFINE n == Cardinality(w)
             m == Len(judged)
             u == igate'.unique
             why == igate'.why
  <2>1. u \in Nat /\ n = (IF w = {} THEN 0 ELSE 1) /\ m \in Nat /\ Len(judged') = m + 1
    BY <1>1, <1>5, <1>9, <1>10
  <2>2. why \in [Tables!Reasons -> Nat]
    BY <1>6, <1>8 DEF Counters
  <2>3. igate' = [rx |-> igate.rx + 1, gated |-> igate.gated + (IF w = {} THEN 1 ELSE 0),
                  dropped |-> igate.dropped + n, unique |-> u, why |-> why]
    BY <1>8
  <2>4. igate \in Counters /\ igate.rx = m /\ igate.rx = igate.gated + igate.dropped
    BY <1>6
  <2> HIDE DEF n, m, u, why
  <2> QED BY <2>1, <2>2, <2>3, <2>4 DEF Counters
<1>12. ASSUME NEW r \in Tables!Reasons PROVE igate'.why[r] = Len(Select(judged', Coming({r})))
  <2>1. r \in w <=> w = {r}
    BY DEF Tables!Verdicts
  <2>2. igate'.why[r] = igate.why[r] + (IF r \in w THEN 1 ELSE 0)
    BY <1>8
  <2>3. igate.why[r] = Len(Select(judged, Coming({r})))
    BY <1>6
  <2> DEFINE m == Len(Select(judged, Coming({r})))
  <2>4. m \in Nat /\ Len(Select(judged', Coming({r}))) = (IF {r} = w THEN m + 1 ELSE m)
    BY <1>3
  <2> HIDE DEF m
  <2> QED BY <2>1, <2>2, <2>3, <2>4 DEF m
<1>13. judged' \in Seq(Tables!Judgments)
  BY <1>1
<1> QED BY <1>4, <1>5, <1>10, <1>11, <1>12, <1>13 DEF CountersInv

-----------------------------------------------------------------------------
LEMMA TablesStep ==
    ASSUME StationsInv, CountersInv, [BoardNext]_boardVars
    PROVE  StationsInv' /\ CountersInv'
<1>1. CASE Recording
  <2>1. PICK c \in Tables!Names, i \in Interfaces, p \in Tables!Places : Tables!record_station(c, i, p)
    BY <1>1 DEF Recording, Tables!Hear
  <2>2. StationsInv'
    BY <2>1, StationsStep
  <2>3. CountersInv'
    BY <2>1 DEF Tables!record_station, CountersInv
  <2> QED BY <2>2, <2>3
<1>2. CASE Judging
  <2>1. PICK c \in Tables!Names, w \in Tables!Verdicts : Tables!record_igate_result(c, w)
    BY <1>2 DEF Judging, Tables!Judge
  <2>2. CountersInv'
    BY <2>1, CountersStep
  <2>3. StationsInv'
    BY <2>1 DEF Tables!record_igate_result, StationsInv, Tells
  <2> QED BY <2>2, <2>3
<1>3. CASE UNCHANGED tableVars
  BY <1>3 DEF tableVars, StationsInv, Tells, CountersInv
<1> QED BY <1>1, <1>2, <1>3 DEF BoardNext, Following, Silence, boardVars

\* The tables say what happened, however many packets of however many stations,
\* on whatever interfaces, the two tasks recorded.
THEOREM TablesCorrect == BoardSpec => []TablesTell
<1>1. BoardInit => StationsInv /\ CountersInv
  BY StationsInit, CountersInit DEF BoardInit
<1>2. StationsInv /\ CountersInv => TablesTell
  <2> SUFFICES ASSUME StationsInv, CountersInv PROVE TablesTell
    OBVIOUS
  <2>1. /\ \A s, S : Tables!Select(s, S) = Select(s, S)
        /\ \A s : Tables!Range(s) = Range(s)
        /\ \A S : Tables!Cardinality(S) = Cardinality(S)
        /\ \A s : Tables!Last(s) = s[Len(s)]
    BY DEF Tables!Select, Select, Tables!Range, Range, Tables!Cardinality, Cardinality, Tables!Last
  <2>2. Tables!StationsTell
    BY <2>1 DEF Tables!StationsTell, Tables!Of, Tables!Located, StationsInv, Tells, Naming, Placing, Key
  <2>3. Tables!CountersTell
    BY <2>1 DEF Tables!CountersTell, Tables!Judged, CountersInv, Coming, Key
  <2> QED BY <2>2, <2>3 DEF TablesTell, Tables!TablesTell
<1> QED BY <1>1, <1>2, TablesStep, PTL DEF BoardSpec
=============================================================================
