----------------------------- MODULE RuleProofs -----------------------------
(***************************************************************************)
(* Proofs about what decides over a packet (PacketRules), part by part: the *)
(* gateways, the duplicate check, the rate limiter, the viscous queue, the  *)
(* path through several digipeaters and the filter chain.                   *)
(***************************************************************************)
EXTENDS PacketRules, SharedLemmas

-----------------------------------------------------------------------------
(* The gateways: any number of them and of stations, any packets, any time  *)
(* that stations are remembered.                                            *)

\* A packet that has been transmitted by a gateway carries TCPIP in its
\* innermost header, where no wrapper hides it; nothing else is on the air.
OnAirOK ==
    \A p \in air :
        /\ p \in Packets /\ p.heads # <<>>
        /\ \/ p.trip = <<>>
           \/ "TCPIP" \in Inner(p).vias

OnNetOK == \A p \in net : p \in Packets /\ p.heads # <<>>

HistoryOK ==
    /\ history \in [Gates -> [Calls -> -1 .. Ttl]]
    /\ since \in [Gates -> [Calls -> 0 .. Ttl]]
    /\ sent \in 0 .. MaxSent

\* What is left of an entry and what has passed make up the whole time.
ClockInv ==
    \A g \in Gates, s \in Calls :
        IF since[g][s] < Ttl THEN history[g][s] = Ttl - since[g][s] ELSE history[g][s] <= 0

IInv == OnAirOK /\ OnNetOK /\ NoReturn /\ HistoryOK /\ ClockInv

LEMMA InnerType ==
    ASSUME NEW p \in Packets, p.heads # <<>>
    PROVE  Inner(p) \in Headers
<1>1. p.heads \in Seq(Headers) /\ Len(p.heads) \in 1 .. Len(p.heads)
  BY DEF Packets
<1> QED BY <1>1 DEF Inner

LEMMA LineType ==
    ASSUME NEW p \in Packets, p.heads # <<>>, NEW g \in Gates
    PROVE  /\ Line(p, g) \in Packets /\ Line(p, g).heads # <<>>
           /\ Line(p, g).trip = Append(p.trip, "net")
<1> DEFINE head == [Inner(p) EXCEPT !.vias = @ \cup {"qAR", g}]
           hs   == <<head>>
<1>1. head \in Headers
  BY InnerType DEF Headers, Calls, Marks
<1>2. hs \in Seq(Headers) /\ hs # <<>>
  BY <1>1
<1>3. Append(p.trip, "net") \in Seq({"net", "air"})
  BY DEF Packets
<1> HIDE DEF hs
<1>4. Line(p, g) = [p EXCEPT !.heads = hs, !.trip = Append(@, "net")]
  BY DEF Line, hs
<1> QED BY <1>2, <1>3, <1>4 DEF Packets

LEMMA FrameType ==
    ASSUME NEW p \in Packets, p.heads # <<>>, NEW g \in Gates
    PROVE  /\ Frame(p, g) \in Packets /\ Frame(p, g).heads # <<>>
           /\ "TCPIP" \in Inner(Frame(p, g)).vias
<1> DEFINE outer == [src |-> g, dst |-> "APRS", vias |-> {}]
           inner == [src |-> Inner(p).src, dst |-> Inner(p).dst, vias |-> {"TCPIP", g}]
           hs    == <<outer, inner>>
<1>1. outer \in Headers
  BY GatingAssumption DEF Headers, Calls
<1>2. inner \in Headers
  BY InnerType DEF Headers, Calls, Marks
<1>3. hs \in Seq(Headers) /\ hs # <<>> /\ Len(hs) = 2 /\ hs[2] = inner
  BY <1>1, <1>2
<1>4. Append(p.trip, "air") \in Seq({"net", "air"})
  BY DEF Packets
<1> HIDE DEF hs
<1>5. Frame(p, g) = [p EXCEPT !.heads = hs, !.trip = Append(@, "air")]
  BY DEF Frame, hs
<1>6. Frame(p, g) \in Packets /\ Frame(p, g).heads = hs
  BY <1>3, <1>4, <1>5 DEF Packets
<1>7. Inner(Frame(p, g)) = inner
  BY <1>3, <1>6 DEF Inner
<1> QED BY <1>3, <1>6, <1>7

LEMMA Initially == Init => IInv
  BY GatingAssumption DEF Init, IInv, OnAirOK, OnNetOK, NoReturn, HistoryOK, ClockInv

LEMMA SendStep == ASSUME IInv, Send PROVE IInv'
<1>1. OnAirOK' /\ OnNetOK'
  BY GatingAssumption DEF IInv, Send, OnAirOK, OnNetOK
<1>2. NoReturn'
  <2>1. \A p \in OnNet : Len(p.trip) = 0
    BY GatingAssumption
  <2> QED BY <2>1 DEF IInv, Send, NoReturn
<1>3. HistoryOK' /\ ClockInv'
  BY GatingAssumption DEF IInv, Send, HistoryOK, ClockInv
<1> QED BY <1>1, <1>2, <1>3 DEF IInv

\* A gated packet comes from the air, and is not what a gateway transmitted.
LEMMA GatedIsFresh ==
    ASSUME IInv, NEW p \in air, ToNet(p)
    PROVE  p.trip = <<>>
  BY DEF IInv, OnAirOK, ToNet, ForbiddenVia

LEMMA HearStep ==
    ASSUME IInv, NEW g \in Gates, NEW p \in air, Hear(g, p)
    PROVE  IInv'
<1>1. p \in Packets /\ p.heads # <<>> /\ p.heads[1].src \in Calls
  <2>1. p \in Packets /\ p.heads # <<>>
    BY DEF IInv, OnAirOK
  <2>2. p.heads[1] \in Headers
    BY <2>1 DEF Packets
  <2> QED BY <2>1, <2>2 DEF Headers
<1>2. OnAirOK'
  BY DEF IInv, Hear, OnAirOK
<1>3. OnNetOK' /\ NoReturn'
  <2>1. CASE ~ToNet(p)
    BY <2>1 DEF IInv, Hear, OnNetOK, NoReturn
  <2>2. CASE ToNet(p)
    <3>1. Line(p, g) \in Packets /\ Line(p, g).heads # <<>> /\ Line(p, g).trip = Append(<<>>, "net")
      BY <1>1, <2>2, LineType, GatedIsFresh
    <3>2. Len(Line(p, g).trip) = 1
      BY <3>1
    <3>3. net' = net \cup {Line(p, g)}
      BY <2>2 DEF Hear
    <3> QED BY <3>1, <3>2, <3>3 DEF IInv, OnNetOK, NoReturn
  <2> QED BY <2>1, <2>2
<1>4. HistoryOK' /\ ClockInv'
  BY <1>1, GatingAssumption DEF IInv, Hear, Heard, HistoryOK, ClockInv
<1> QED BY <1>2, <1>3, <1>4 DEF IInv

LEMMA ReadStep ==
    ASSUME IInv, NEW g \in Gates, NEW p \in net, Read(g, p)
    PROVE  IInv'
<1>1. p \in Packets /\ p.heads # <<>>
  BY DEF IInv, OnNetOK
<1>2. OnAirOK'
  BY <1>1, FrameType DEF IInv, Read, OnAirOK
<1> QED BY <1>2 DEF IInv, Read, OnNetOK, NoReturn, HistoryOK, ClockInv

LEMMA ClockStep ==
    ASSUME IInv, Tick \/ \E g \in Gates : Cleanup(g)
    PROVE  IInv'
<1>1. OnAirOK' /\ OnNetOK' /\ NoReturn'
  BY DEF IInv, Tick, Cleanup, OnAirOK, OnNetOK, NoReturn
<1>2. CASE Tick
  <2>1. HistoryOK'
    BY <1>2, GatingAssumption DEF IInv, Tick, HistoryOK
  <2>2. ClockInv'
    BY <1>2, GatingAssumption DEF IInv, Tick, HistoryOK, ClockInv
  <2> QED BY <1>1, <2>1, <2>2 DEF IInv
<1>3. ASSUME NEW g \in Gates, Cleanup(g) PROVE IInv'
  <2>1. HistoryOK'
    BY <1>3, GatingAssumption DEF IInv, Cleanup, HistoryOK
  <2>2. ClockInv'
    BY <1>3, GatingAssumption DEF IInv, Cleanup, HistoryOK, ClockInv
  <2> QED BY <1>1, <2>1, <2>2 DEF IInv
<1> QED BY <1>2, <1>3

LEMMA Inductive == ASSUME IInv, [Next]_vars PROVE IInv'
<1>1. CASE UNCHANGED vars
  BY <1>1 DEF vars, IInv, OnAirOK, OnNetOK, NoReturn, HistoryOK, ClockInv
<1> QED BY <1>1, SendStep, HearStep, ReadStep, ClockStep DEF Next

LEMMA Invariant == Spec => []IInv
  BY Initially, Inductive, PTL DEF Spec

\* What a gateway has transmitted never comes back to APRS-IS, for any number
\* of gateways on the same channel and any packets, wrapped however deep.
THEOREM NoReturnCorrect == Spec => []NoReturn
<1>1. IInv => NoReturn
  BY DEF IInv
<1> QED BY <1>1, Invariant, PTL

\* Lazy expiry with clean-up at any time answers like an exact memory.
THEOREM HistoryCorrect == Spec => []HeardExactly
<1>1. IInv => HeardExactly
  BY GatingAssumption DEF IInv, HistoryOK, ClockInv, HeardExactly, WasHeard
<1> QED BY <1>1, Invariant, PTL

\* The frame tells who transmitted it, for whom, and who wrote it.
LEMMA FrameTells ==
    ASSUME NEW p, NEW q, NEW g, NEW k, Frame(p, g) = Frame(q, k),
           p \in Packets, q \in Packets, p.heads # <<>>, q.heads # <<>>
    PROVE  g = k /\ p.to = q.to /\ Inner(p).src = Inner(q).src
<1>1. Frame(p, g).to = p.to /\ Frame(q, k).to = q.to
  BY DEF Frame, Packets
<1>2. ASSUME NEW r \in Packets, NEW h
      PROVE  Frame(r, h).heads[1].src = h /\ Frame(r, h).heads[2].src = Inner(r).src
  BY DEF Frame, Packets
<1> QED BY <1>1, <1>2

\* A gateway transmits for stations it has heard in time, and never repeats a
\* station it has heard itself.
THEOREM DistantCorrect == Spec => OnlyForTheDistant
<1>1. ASSUME IInv, [Next]_vars, NEW g \in Gates, NEW p \in net, Frame(p, g) \in air' \ air
      PROVE  since[g][p.to] < Ttl /\ since[g][Inner(p).src] = Ttl
  <2>1. p \in Packets /\ p.heads # <<>> /\ p.to \in Calls /\ Inner(p).src \in Calls
    BY <1>1, InnerType DEF IInv, OnNetOK, Packets, Headers, Calls
  <2>2. PICK k \in Gates, q \in net : Read(k, q) /\ Frame(q, k) = Frame(p, g)
    <3>1. ASSUME Send PROVE FALSE
      <4>1. Frame(p, g).trip # <<>>
        BY <2>1 DEF Frame, Packets
      <4> QED BY <1>1, <3>1, <4>1, GatingAssumption DEF Send
    <3> QED BY <1>1, <3>1 DEF Next, vars, Tick, Cleanup, Hear, Read
  <2>3. q \in Packets /\ q.heads # <<>>
    BY <1>1 DEF IInv, OnNetOK
  <2>4. k = g /\ q.to = p.to /\ Inner(q).src = Inner(p).src
    BY <2>1, <2>2, <2>3, FrameTells
  <2>5. WasHeard(g, p.to) /\ ~WasHeard(g, Inner(p).src)
    BY <2>2, <2>4 DEF Read, ToAir
  <2> QED BY <1>1, <2>1, <2>5, GatingAssumption DEF IInv, HistoryOK, ClockInv, WasHeard
<1>2. IInv /\ [Next]_vars =>
        [\A g \in Gates, p \in net :
            Frame(p, g) \in air' \ air => since[g][p.to] < Ttl /\ since[g][Inner(p).src] = Ttl]_vars
  BY <1>1
<1> QED BY <1>2, Invariant, PTL DEF Spec, OnlyForTheDistant

-----------------------------------------------------------------------------
(* The parts do not disturb each other.                                     *)

LEMMA GatesApart == RulesSpec => Spec
<1>1. RulesInit => Init
  BY DEF RulesInit
<1>2. [RulesNext]_rulesVars => [Next]_vars
  BY DEF RulesNext, rulesVars, AllAdded, AtGates, OnPath, InDupes, InQueue, InLimit, InChain
<1> QED BY <1>1, <1>2, PTL DEF RulesSpec, Spec

LEMMA DupesApart == RulesSpec => Dupes!Spec
<1>1. RulesInit => Dupes!Init
  BY DEF RulesInit
<1>2. [RulesNext]_rulesVars => [Dupes!Next]_Dupes!dupeVars
  BY DEF RulesNext, rulesVars, AllAdded, AtGates, OnPath, InDupes, InQueue, InLimit, InChain,
         dupeVars, Dupes!dupeVars
<1> QED BY <1>1, <1>2, PTL DEF RulesSpec, Dupes!Spec

-----------------------------------------------------------------------------
(* The duplicate check.                                                     *)

\* What the abstract memory sees of the table.
AgeOf(k) == IF Dupes!Live(k) THEN StoreTime - entries[k].left ELSE StoreTime

TableOK ==
    \A k \in DOMAIN entries : entries[k] \in [seen : Nat \ {0}, left : 0 .. StoreTime]

LEMMA TableInit == Dupes!Init => TableOK /\ Dupes!Recent!Init
  BY DEF Dupes!Init, TableOK, Dupes!Recent!Init, Dupes!Live, Dupes!Observations

LEMMA SameKey ==
    ASSUME NEW p, NEW q
    PROVE  Dupes!from_packet(p) = Dupes!from_packet(q) <=>
              q.source = p.source /\ q.dest = p.dest /\ q.text = p.text
  BY DEF Dupes!from_packet

LEMMA CopiesAre ==
    ASSUME NEW p \in Heardable, NEW q \in Heardable
    PROVE  q \in Dupes!Copies(p) <=> Dupes!from_packet(q) = Dupes!from_packet(p)
  BY SameKey DEF Dupes!Copies

SeenOf(k) == Dupes!Observations(k)

\* A check counts for one key, and starts its window unless it has one.
LEMMA CheckTable ==
    ASSUME TableOK, NEW p \in Heardable, Dupes!Check(p)
    PROVE  /\ TableOK'
           /\ \A j : /\ SeenOf(j)' = IF j = Dupes!from_packet(p) THEN SeenOf(j) + 1 ELSE SeenOf(j)
                    /\ AgeOf(j)' = IF j = Dupes!from_packet(p) /\ AgeOf(j) = StoreTime
                                   THEN 0 ELSE AgeOf(j)
           /\ answer' = SeenOf(Dupes!from_packet(p)) + 1
<1> DEFINE k == Dupes!from_packet(p)
<1>1. StoreTime \in Nat \ {0} /\ answer' = SeenOf(k) + 1
  BY RulesAssumption DEF Dupes!Check, SeenOf
<1>2. CASE Dupes!Live(k)
  <2>1. k \in DOMAIN entries /\ entries' = [entries EXCEPT ![k].seen = @ + 1]
    BY <1>2 DEF Dupes!Check, Dupes!Live
  <2>2. TableOK'
    BY <2>1 DEF TableOK
  <2> HIDE DEF k
  <2>3. \A j : AgeOf(j)' = AgeOf(j) /\ SeenOf(j)' = IF j = k THEN SeenOf(j) + 1 ELSE SeenOf(j)
    BY <1>2, <2>1 DEF TableOK, AgeOf, SeenOf, Dupes!Live, Dupes!Observations
  <2>4. AgeOf(k) # StoreTime
    BY <1>1, <1>2, <2>1 DEF AgeOf, Dupes!Live, TableOK
  <2> QED BY <1>1, <2>2, <2>3, <2>4 DEF k
<1>3. CASE ~Dupes!Live(k)
  <2>1. entries' = Dupes!Put(k, [seen |-> 1, left |-> StoreTime])
    BY <1>3 DEF Dupes!Check
  <2> HIDE DEF k
  <2>2. /\ DOMAIN entries' = DOMAIN entries \cup {k} /\ entries'[k] = [seen |-> 1, left |-> StoreTime]
        /\ \A j \in DOMAIN entries : j # k => entries'[j] = entries[j]
    BY <2>1 DEF Dupes!Put
  <2>3. TableOK'
    BY <1>1, <2>2 DEF TableOK
  <2>4. \A j : j # k => AgeOf(j)' = AgeOf(j) /\ SeenOf(j)' = SeenOf(j)
    BY <2>2 DEF AgeOf, SeenOf, Dupes!Live, Dupes!Observations
  <2>5. AgeOf(k) = StoreTime /\ AgeOf(k)' = 0 /\ SeenOf(k) = 0 /\ SeenOf(k)' = 1
    BY <1>1, <1>3, <2>2 DEF AgeOf, SeenOf, Dupes!Live, Dupes!Observations
  <2> QED BY <1>1, <2>3, <2>4, <2>5 DEF k
<1> QED BY <1>2, <1>3

LEMMA CheckStep ==
    ASSUME TableOK, NEW p \in Heardable, Dupes!Check(p)
    PROVE  TableOK' /\ Dupes!Recent!Check(p)
<1> DEFINE K(q) == Dupes!from_packet(q)
<1>1. \A q \in Heardable : q \in Dupes!Copies(p) <=> K(q) = K(p)
  BY CopiesAre
<1>2. /\ TableOK'
      /\ \A j : /\ SeenOf(j)' = IF j = K(p) THEN SeenOf(j) + 1 ELSE SeenOf(j)
               /\ AgeOf(j)' = IF j = K(p) /\ AgeOf(j) = StoreTime THEN 0 ELSE AgeOf(j)
      /\ answer' = SeenOf(K(p)) + 1
  BY CheckTable
<1> HIDE DEF K
<1>3. Dupes!Recent!Check(p) <=>
        /\ [q \in Heardable |-> AgeOf(K(q))'] =
              [q \in Heardable |-> IF q \in Dupes!Copies(p) /\ AgeOf(K(p)) = StoreTime THEN 0 ELSE AgeOf(K(q))]
        /\ [q \in Heardable |-> SeenOf(K(q))'] =
              [q \in Heardable |-> IF q \in Dupes!Copies(p) THEN SeenOf(K(q)) + 1 ELSE SeenOf(K(q))]
        /\ answer' = SeenOf(K(p)) + 1
  BY DEF Dupes!Recent!Check, AgeOf, SeenOf, K
<1> QED BY <1>1, <1>2, <1>3

\* Time passes in the table as in the memory: an entry is forgotten when nothing
\* is left, whether or not it is still there.
LEMMA TickStep ==
    ASSUME TableOK, Dupes!Tick
    PROVE  TableOK' /\ Dupes!Recent!Tick
<1>1. StoreTime \in Nat \ {0}
  BY RulesAssumption
<1>2. /\ DOMAIN entries' = DOMAIN entries
      /\ \A k \in DOMAIN entries :
            /\ entries[k] \in [seen : Nat \ {0}, left : 0 .. StoreTime]
            /\ entries'[k] = [entries[k] EXCEPT !.left = IF @ > 0 THEN @ - 1 ELSE 0]
  BY DEF Dupes!Tick, TableOK
<1>3. TableOK'
  BY <1>1, <1>2 DEF TableOK
<1>4. ASSUME NEW k
      PROVE  /\ AgeOf(k)' = IF AgeOf(k) < StoreTime THEN AgeOf(k) + 1 ELSE StoreTime
             /\ SeenOf(k)' = IF AgeOf(k) + 1 < StoreTime THEN SeenOf(k) ELSE 0
  BY <1>1, <1>2 DEF AgeOf, SeenOf, Dupes!Live, Dupes!Observations
<1> DEFINE K(q) == Dupes!from_packet(q)
<1> HIDE DEF K
<1>5. Dupes!Recent!Tick <=>
        /\ [q \in Heardable |-> AgeOf(K(q))'] =
              [q \in Heardable |-> IF AgeOf(K(q)) < StoreTime THEN AgeOf(K(q)) + 1 ELSE StoreTime]
        /\ [q \in Heardable |-> SeenOf(K(q))'] =
              [q \in Heardable |-> IF AgeOf(K(q)) + 1 < StoreTime THEN SeenOf(K(q)) ELSE 0]
        /\ UNCHANGED answer
  BY DEF Dupes!Recent!Tick, AgeOf, SeenOf, K
<1>6. UNCHANGED answer
  BY DEF Dupes!Tick
<1> QED BY <1>3, <1>4, <1>5, <1>6

\* Removing what has expired makes no difference.
LEMMA CleanupStep ==
    ASSUME TableOK, Dupes!Cleanup
    PROVE  TableOK' /\ UNCHANGED Dupes!Recent!vars
<1>1. /\ DOMAIN entries' = {k \in DOMAIN entries : Dupes!Live(k)}
      /\ \A k \in DOMAIN entries' : entries'[k] = entries[k]
      /\ UNCHANGED answer
  BY DEF Dupes!Cleanup, Dupes!Restrict
<1>2. TableOK'
  BY <1>1 DEF TableOK
<1>3. \A k : Dupes!Live(k)' = Dupes!Live(k) /\ Dupes!Observations(k)' = Dupes!Observations(k)
              /\ AgeOf(k)' = AgeOf(k)
  BY <1>1 DEF Dupes!Live, Dupes!Observations, AgeOf
<1> DEFINE K(q) == Dupes!from_packet(q)
<1>4. \A q : AgeOf(K(q))' = AgeOf(K(q)) /\ SeenOf(K(q))' = SeenOf(K(q))
  BY <1>3 DEF SeenOf
<1>5. Dupes!Recent!vars = << [q \in Heardable |-> AgeOf(K(q))], [q \in Heardable |-> SeenOf(K(q))], answer >>
  BY DEF Dupes!Recent!vars, AgeOf, SeenOf
<1>6. Dupes!Recent!vars' = << [q \in Heardable |-> AgeOf(K(q))'], [q \in Heardable |-> SeenOf(K(q))'], answer' >>
  BY DEF Dupes!Recent!vars, AgeOf, SeenOf
<1> HIDE DEF K
<1> QED BY <1>1, <1>2, <1>4, <1>5, <1>6

LEMMA TableStep ==
    ASSUME TableOK, [Dupes!Next]_Dupes!dupeVars
    PROVE  TableOK' /\ [Dupes!Recent!Next]_Dupes!Recent!vars
<1>1. CASE UNCHANGED Dupes!dupeVars
  BY <1>1 DEF Dupes!dupeVars, TableOK, Dupes!Recent!vars, Dupes!Live, Dupes!Observations
<1>2. CASE Dupes!Next
  BY <1>2, CheckStep, TickStep, CleanupStep DEF Dupes!Next, Dupes!Recent!Next
<1> QED BY <1>1, <1>2

\* The duplicate check implements a memory of exactly the last window, for any
\* packets and any window: entries that expire without being removed, and are
\* removed at any time after that, make no difference to any answer.
THEOREM ImplementsRecent == RulesSpec => RecentSpec
<1>1. TableOK /\ [Dupes!Next]_Dupes!dupeVars => TableOK' /\ [Dupes!Recent!Next]_Dupes!Recent!vars
  BY TableStep
<1>2. Dupes!Spec => Dupes!Recent!Spec
  BY <1>1, TableInit, PTL DEF Dupes!Spec, Dupes!Recent!Spec
<1> QED BY <1>2, DupesApart, PTL DEF RecentSpec, Dupes!RecentSpec

-----------------------------------------------------------------------------
(* The rate limiter.                                                        *)

LEMMA LimitApart == RulesSpec => Limit!Init /\ [][Limit!Next]_Limit!rateVars
<1>1. RulesInit => Limit!Init
  BY DEF RulesInit
<1>2. [RulesNext]_rulesVars => [Limit!Next]_Limit!rateVars
  BY DEF RulesNext, rulesVars, AllAdded, AtGates, OnPath, InDupes, InQueue, InLimit, InChain,
         rateVars, Limit!rateVars
<1> QED BY <1>1, <1>2, PTL DEF RulesSpec

\* What was allowed in a stretch and what is in the bucket now, as it would be
\* after a refill, are together no more than the burst and what came in.
BucketInv ==
    /\ Limit!TypeOK
    /\ \A w \in 0 .. Window : Unit * allowed[w] + Limit!Refilled <= Burst + Rate * w

\* The products, so that the rest is linear.
LEMMA Products ==
    ASSUME NEW a \in Nat, NEW b \in Nat
    PROVE  a * b \in Nat /\ a * (b + 1) = a * b + a /\ (b + 1) * a = b * a + a /\ b * a \in Nat
  OBVIOUS

LEMMA RefilledType ==
    ASSUME Limit!TypeOK
    PROVE  Limit!Refilled \in 0 .. Burst
<1>1. elapsed * Rate \in Nat
  BY RulesAssumption, Products DEF Limit!TypeOK
<1> QED BY <1>1, RulesAssumption DEF Limit!TypeOK, Limit!Refilled, Limit!Lower

LEMMA BucketInit == Limit!Init => BucketInv
<1> SUFFICES ASSUME Limit!Init PROVE BucketInv
  OBVIOUS
<1>1. Limit!TypeOK
  BY RulesAssumption DEF Limit!Init, Limit!TypeOK
<1>2. ASSUME NEW w \in 0 .. Window PROVE Unit * allowed[w] + Limit!Refilled <= Burst + Rate * w
  <2>1. Unit * 0 = 0 /\ Rate * w \in Nat /\ allowed[w] = 0
    BY RulesAssumption, Products DEF Limit!Init
  <2> QED BY <1>1, <2>1, RefilledType, RulesAssumption
<1> QED BY <1>1, <1>2 DEF BucketInv

\* A transmission moves its cost from the bucket to what was allowed.
LEMMA ConsumeStep == ASSUME BucketInv, Limit!TryConsume PROVE BucketInv'
<1>1. Limit!Refilled \in 0 .. Burst /\ Unit \in Nat /\ Burst \in Nat /\ Window \in Nat
      /\ allowed \in [0 .. Window -> Nat]
  BY RefilledType, RulesAssumption DEF BucketInv, Limit!TypeOK
<1>2. Limit!Refilled' = tokens'
  <2>1. 0 * Rate = 0 /\ elapsed' = 0 /\ tokens' \in 0 .. Burst
    BY <1>1, RulesAssumption DEF Limit!TryConsume
  <2> QED BY <1>1, <2>1 DEF Limit!Refilled, Limit!Lower
<1>3. CASE Limit!Refilled >= Unit
  <2>1. tokens' = Limit!Refilled - Unit /\ elapsed' = 0 /\ allowed' = [w \in 0 .. Window |-> allowed[w] + 1]
    BY <1>3 DEF Limit!TryConsume, Limit!Allow
  <2>2. Limit!TypeOK'
    BY <1>1, <1>3, <2>1, RulesAssumption DEF Limit!TypeOK
  <2>3. ASSUME NEW w \in 0 .. Window
        PROVE  Unit * allowed'[w] + Limit!Refilled' <= Burst + Rate * w
    <3>1. Unit * allowed'[w] = Unit * allowed[w] + Unit /\ Unit * allowed[w] \in Nat /\ Rate * w \in Nat
      <4>1. allowed[w] \in Nat /\ allowed'[w] = allowed[w] + 1 /\ w \in Nat /\ Rate \in Nat
        BY <1>1, <2>1, RulesAssumption
      <4>2. Unit * (allowed[w] + 1) = Unit * allowed[w] + Unit /\ Unit * allowed[w] \in Nat
        BY <1>1, <4>1, Products
      <4> QED BY <4>1, <4>2, Products
    <3>2. Unit * allowed[w] + Limit!Refilled <= Burst + Rate * w
      BY DEF BucketInv
    <3> QED BY <1>1, <1>2, <2>1, <3>1, <3>2
  <2> QED BY <2>2, <2>3 DEF BucketInv
<1>4. CASE ~(Limit!Refilled >= Unit)
  <2>1. tokens' = Limit!Refilled /\ elapsed' = 0 /\ allowed' = allowed
    BY <1>4 DEF Limit!TryConsume
  <2>2. Limit!TypeOK'
    BY <1>1, <2>1, RulesAssumption DEF Limit!TypeOK
  <2> QED BY <1>2, <2>1, <2>2 DEF BucketInv
<1> QED BY <1>3, <1>4

\* A tick adds at most the rate to the bucket, and one tick to every stretch.
LEMMA RefillStep == ASSUME BucketInv, Limit!Tick PROVE BucketInv'
<1>1. /\ Burst \in Nat /\ Rate \in Nat /\ Window \in Nat /\ MaxIdle \in Nat /\ Unit \in Nat
      /\ tokens \in 0 .. Burst /\ elapsed \in 0 .. MaxIdle /\ allowed \in [0 .. Window -> Nat]
      /\ tokens' = tokens /\ elapsed' = Limit!Lower(elapsed + 1, MaxIdle)
      /\ allowed' = [w \in 0 .. Window |-> IF w = 0 THEN 0 ELSE allowed[w - 1]]
  BY RulesAssumption DEF BucketInv, Limit!TypeOK, Limit!Tick
<1>2. Limit!TypeOK'
  BY <1>1 DEF Limit!TypeOK, Limit!Lower
<1>3. Limit!Refilled' <= Limit!Refilled + Rate
  <2>1. elapsed * Rate \in Nat /\ (elapsed + 1) * Rate = elapsed * Rate + Rate
    BY <1>1, Products
  <2>2. elapsed' * Rate \in {elapsed * Rate, elapsed * Rate + Rate}
    BY <1>1, <2>1 DEF Limit!Lower
  <2> QED BY <1>1, <2>1, <2>2 DEF Limit!Refilled, Limit!Lower
<1>4. ASSUME NEW w \in 0 .. Window
      PROVE  Unit * allowed'[w] + Limit!Refilled' <= Burst + Rate * w
  <2>1. Limit!Refilled' \in 0 .. Burst /\ Limit!Refilled \in 0 .. Burst
    <3>1. elapsed' \in Nat /\ tokens' \in Nat
      BY <1>1 DEF Limit!Lower
    <3>2. elapsed' * Rate \in Nat
      BY <1>1, <3>1, Products
    <3>3. Limit!Refilled' \in 0 .. Burst
      BY <1>1, <3>1, <3>2 DEF Limit!Refilled, Limit!Lower
    <3> QED BY <3>3, RefilledType DEF BucketInv
  <2>2. CASE w = 0
    <3>1. allowed'[w] = 0 /\ Unit * 0 = 0 /\ Rate * w = 0
      BY <1>1, <2>2
    <3> QED BY <1>1, <2>1, <3>1
  <2>3. CASE w # 0
    <3>1. w - 1 \in 0 .. Window /\ allowed'[w] = allowed[w - 1]
      BY <1>1, <2>3
    <3>2. Unit * allowed[w - 1] + Limit!Refilled <= Burst + Rate * (w - 1)
      BY <3>1 DEF BucketInv
    <3>3. Rate * w = Rate * (w - 1) + Rate /\ Rate * (w - 1) \in Nat /\ Unit * allowed[w - 1] \in Nat
      <4>1. w - 1 \in Nat /\ (w - 1) + 1 = w /\ allowed[w - 1] \in Nat
        BY <1>1, <3>1
      <4>2. Rate * ((w - 1) + 1) = Rate * (w - 1) + Rate /\ Rate * (w - 1) \in Nat
        BY <1>1, <4>1, Products
      <4> QED BY <1>1, <4>1, <4>2, Products
    <3> DEFINE a == Unit * allowed[w - 1]
               b == Rate * (w - 1)
               c == Rate * w
    <3>4. /\ a \in Nat /\ b \in Nat /\ c = b + Rate /\ a + Limit!Refilled <= Burst + b
          /\ Unit * allowed'[w] = a
      BY <3>1, <3>2, <3>3
    <3> HIDE DEF a, b, c
    <3>5. a + Limit!Refilled' <= Burst + c
      <4> DEFINE x == Limit!Refilled
                 y == Limit!Refilled'
      <4>1. y <= x + Rate /\ x \in Nat /\ y \in Nat /\ Rate \in Nat /\ Burst \in Nat /\ a + x <= Burst + b
        BY <1>1, <1>3, <2>1, <3>4
      <4> HIDE DEF x, y
      <4>2. a + y <= Burst + c
        BY <3>4, <4>1
      <4> QED BY <4>2 DEF y
    <3> QED BY <3>4, <3>5 DEF c
  <2> QED BY <2>2, <2>3
<1> QED BY <1>2, <1>4 DEF BucketInv

\* In any stretch of time, however long, no more is transmitted than a full
\* burst and what the rate adds meanwhile, however the calls are spread over it.
THEOREM RateCorrect == RulesSpec => []RateKept
<1>1. BucketInv /\ UNCHANGED Limit!rateVars => BucketInv'
  BY DEF BucketInv, Limit!rateVars, Limit!TypeOK, Limit!Refilled
<1>2. BucketInv /\ [Limit!Next]_Limit!rateVars => BucketInv'
  BY <1>1, ConsumeStep, RefillStep DEF Limit!Next
<1>3. BucketInv => RateKept
  <2> SUFFICES ASSUME BucketInv, NEW w \in 0 .. Window PROVE Unit * allowed[w] <= Burst + Rate * w
    BY DEF RateKept, Limit!RateKept
  <2>1. Unit * allowed[w] + Limit!Refilled <= Burst + Rate * w /\ Limit!Refilled \in 0 .. Burst
    BY RefilledType DEF BucketInv
  <2>2. Unit * allowed[w] \in Nat /\ Rate * w \in Nat
    BY RulesAssumption, Products DEF BucketInv, Limit!TypeOK
  <2> QED BY <2>1, <2>2, RulesAssumption
<1> QED BY <1>2, <1>3, BucketInit, LimitApart, PTL

-----------------------------------------------------------------------------
(* The viscous queue.                                                       *)

LEMMA QueueApart == RulesSpec => Queue!Init /\ [][Queue!Next]_Queue!queueVars
<1>1. RulesInit => Queue!Init
  BY DEF RulesInit
<1>2. [RulesNext]_rulesVars => [Queue!Next]_Queue!queueVars
  BY DEF RulesNext, rulesVars, AllAdded, AtGates, OnPath, InDupes, InQueue, InLimit, InChain,
         queueVars, Queue!queueVars
<1> QED BY <1>1, <1>2, PTL DEF RulesSpec

Waiting == [id : Nat, packet : Heardable, left : Nat]

\* The numbers of the relays in q, and that none is there twice.
IdsOf(q) == {q[j].id : j \in 1 .. Len(q)}
NoneTwice(q) == \A i, j \in 1 .. Len(q) : q[i].id = q[j].id => i = j

\* What OneFate says, and what makes it last: a relay waits in one place of the
\* queue only, and not when it was cancelled.
QueueInv ==
    /\ pending \in Seq(Waiting) /\ added \in Nat /\ relayed \in Seq(Nat) /\ IsFiniteSet(cancelled)
    /\ NoneTwice(pending) /\ IdsOf(pending) \cap Queue!Ids(cancelled) = {}
    /\ 1 .. added = IdsOf(pending) \cup Range(relayed) \cup Queue!Ids(cancelled)
    /\ Len(pending) + Len(relayed) + Cardinality(cancelled) = added
    /\ \A r \in cancelled : Queue!dedup_key(r.packet) = Queue!dedup_key(r.heard)

LEMMA IdsAre == ASSUME NEW q \in Seq(Waiting) PROVE IdsOf(q) = Queue!Ids(Range(q)) /\ IdsOf(q) \subseteq Nat
<1>1. \A j \in 1 .. Len(q) : q[j] \in Waiting
  OBVIOUS
<1>2. DOMAIN q = 1 .. Len(q)
  OBVIOUS
<1>3. \A r \in Waiting : r.id \in Nat
  BY DEF Waiting
<1> QED BY <1>1, <1>2, <1>3 DEF IdsOf, Queue!Ids, Range

LEMMA QueueGives == QueueInv => OneFate
<1> SUFFICES ASSUME QueueInv PROVE OneFate
  OBVIOUS
<1>1. IdsOf(pending) = Queue!Ids(Range(pending))
  BY IdsAre DEF QueueInv
<1>2. Queue!Range(pending) = Range(pending) /\ Queue!Range(relayed) = Range(relayed)
  BY DEF Range, Queue!Range
<1>3. 1 .. added = Queue!Ids(Queue!Range(pending)) \cup Queue!Range(relayed) \cup Queue!Ids(cancelled)
  BY <1>1, <1>2, Zenon DEF QueueInv
<1>4. \A r \in cancelled : <<r.packet.source, r.packet.dest, r.packet.text>>
                              = <<r.heard.source, r.heard.dest, r.heard.text>>
  BY Zenon DEF QueueInv, Queue!dedup_key
<1>5. Len(pending) + Len(relayed) + Cardinality(cancelled) = added
  BY DEF QueueInv
<1>6. Queue!Cardinality(cancelled) = Cardinality(cancelled)
  BY DEF Cardinality, Queue!Cardinality
<1> QED BY <1>3, <1>4, <1>5, <1>6, Zenon DEF OneFate, Queue!OneFate

LEMMA QueueInit == Queue!Init => QueueInv
<1> SUFFICES ASSUME Queue!Init PROVE QueueInv
  OBVIOUS
<1>1. pending = <<>> /\ added = 0 /\ relayed = <<>> /\ cancelled = {}
  BY DEF Queue!Init
<1>2. <<>> \in Seq(Waiting) /\ <<>> \in Seq(Nat) /\ Len(<<>>) = 0 /\ 1 .. 0 = {}
  OBVIOUS
<1>3. IdsOf(<<>>) = {} /\ NoneTwice(<<>>) /\ Queue!Ids({}) = {} /\ Range(<<>>) = {}
  BY <1>2, RangeEmpty DEF IdsOf, NoneTwice, Queue!Ids
<1>4. IsFiniteSet({}) /\ Cardinality({}) = 0
  BY FS_EmptySet
<1>5. \A r \in {} : Queue!dedup_key(r.packet) = Queue!dedup_key(r.heard)
  OBVIOUS
<1>6. 1 .. 0 = IdsOf(<<>>) \cup Range(<<>>) \cup Queue!Ids({}) /\ IdsOf(<<>>) \cap Queue!Ids({}) = {}
  BY <1>2, <1>3
<1>7. Len(<<>>) + Len(<<>>) + Cardinality({}) = 0 /\ 0 \in Nat
  BY <1>2, <1>4
<1> QED BY <1>1, <1>2, <1>3, <1>4, <1>5, <1>6, <1>7, Zenon DEF QueueInv

LEMMA AddStep ==
    ASSUME QueueInv, NEW p \in Heardable, NEW d \in Delays, Queue!Add(p, d)
    PROVE  QueueInv'
<1> DEFINE r == [id |-> added + 1, packet |-> p, left |-> d]
<1>1. /\ pending' = Append(pending, r) /\ added' = added + 1 /\ UNCHANGED <<relayed, cancelled>>
      /\ r \in Waiting /\ r.id = added + 1
  BY RulesAssumption DEF Queue!Add, QueueInv, Waiting
<1>2. /\ pending \in Seq(Waiting) /\ Append(pending, r) \in Seq(Waiting) /\ added \in Nat
      /\ Len(pending) \in Nat /\ Len(Append(pending, r)) = Len(pending) + 1
      /\ \A i \in 1 .. Len(pending) : Append(pending, r)[i] = pending[i]
      /\ Append(pending, r)[Len(pending) + 1] = r
      /\ 1 .. Len(pending) + 1 = (1 .. Len(pending)) \cup {Len(pending) + 1}
  BY <1>1, AppendElements DEF QueueInv
<1> HIDE DEF r
<1>3. IdsOf(pending') = IdsOf(pending) \cup {added + 1}
  BY <1>1, <1>2 DEF IdsOf
<1>4. 1 .. added + 1 = (1 .. added) \cup {added + 1} /\ added + 1 \notin 1 .. added
  BY <1>2
<1>5. NoneTwice(pending')
  <2>1. \A i \in 1 .. Len(pending) : pending[i].id # added + 1
    BY <1>4 DEF QueueInv, IdsOf
  <2>2. ASSUME NEW i \in 1 .. Len(pending) + 1, NEW j \in 1 .. Len(pending) + 1,
               Append(pending, r)[i].id = Append(pending, r)[j].id
        PROVE  i = j
    <3>1. CASE i \in 1 .. Len(pending) /\ j \in 1 .. Len(pending)
      <4>1. pending[i].id = pending[j].id
        BY <1>2, <2>2, <3>1
      <4> QED BY <3>1, <4>1 DEF QueueInv, NoneTwice
    <3>2. CASE i \in 1 .. Len(pending) /\ j = Len(pending) + 1
      BY <1>1, <1>2, <2>1, <2>2, <3>2
    <3>3. CASE j \in 1 .. Len(pending) /\ i = Len(pending) + 1
      BY <1>1, <1>2, <2>1, <2>2, <3>3
    <3> QED BY <1>2, <3>1, <3>2, <3>3
  <2> QED BY <1>1, <1>2, <2>2 DEF NoneTwice
<1>6. Len(pending') + Len(relayed) + Cardinality(cancelled) = added + 1
  <2>1. Len(relayed) \in Nat /\ Cardinality(cancelled) \in Nat
    BY FS_CardinalityType DEF QueueInv
  <2> QED BY <1>1, <1>2, <2>1 DEF QueueInv
<1>7. (IdsOf(pending) \cup {added + 1}) \cap Queue!Ids(cancelled) = {}
  BY <1>4 DEF QueueInv
<1> QED BY <1>1, <1>2, <1>3, <1>4, <1>5, <1>6, <1>7 DEF QueueInv

LEMMA CountdownStep == ASSUME QueueInv, Queue!Tick PROVE QueueInv'
<1>1. /\ pending \in Seq(Waiting) /\ UNCHANGED <<added, relayed, cancelled>>
      /\ pending' = [i \in DOMAIN pending |->
                        [pending[i] EXCEPT !.left = IF @ > 0 THEN @ - 1 ELSE 0]]
  BY DEF Queue!Tick, QueueInv
<1>2. /\ Len(pending) \in Nat /\ DOMAIN pending = 1 .. Len(pending)
      /\ \A i \in 1 .. Len(pending) : pending[i] \in Waiting
  BY <1>1
<1>3. ASSUME NEW i \in 1 .. Len(pending)
      PROVE  pending'[i] \in Waiting /\ pending'[i].id = pending[i].id
  <2>1. pending'[i] = [pending[i] EXCEPT !.left = IF @ > 0 THEN @ - 1 ELSE 0]
    BY <1>1, <1>2
  <2>2. pending[i] \in Waiting
    BY <1>2
  <2> QED BY <2>1, <2>2 DEF Waiting
<1>4. pending' \in [1 .. Len(pending) -> Waiting]
  BY <1>1, <1>2, <1>3
<1>5. pending' \in Seq(Waiting) /\ Len(pending') = Len(pending)
  BY <1>2, <1>4
<1>6. IdsOf(pending') = IdsOf(pending)
  BY <1>3, <1>5 DEF IdsOf
<1>7. NoneTwice(pending')
  <2>1. \A i, j \in 1 .. Len(pending) : pending[i].id = pending[j].id => i = j
    BY DEF QueueInv, NoneTwice
  <2> QED BY <1>3, <1>5, <2>1 DEF NoneTwice
<1> QED BY <1>1, <1>5, <1>6, <1>7 DEF QueueInv

\* In a queue where no number is twice, a number tells the relay.
LEMMA IdsTell ==
    ASSUME NEW q \in Seq(Waiting), NoneTwice(q)
    PROVE  Distinct(q) /\ \A r, t \in Range(q) : r.id = t.id => r = t
<1>1. DOMAIN q = 1 .. Len(q)
  OBVIOUS
<1>2. Distinct(q)
  BY DEF Distinct, NoneTwice
<1> QED BY <1>1, <1>2 DEF NoneTwice, Range

LEMMA CancelStep == ASSUME QueueInv, NEW p \in Heardable, Queue!Cancel(p) PROVE QueueInv'
<1> DEFINE others == {r \in Range(pending) : Queue!dedup_key(r.packet) # Queue!dedup_key(p)}
           gone == Range(pending) \ others
           note == [r \in gone |-> [id |-> r.id, packet |-> r.packet, heard |-> p]]
           notes == {note[r] : r \in gone}
<1>1. /\ pending' = Select(pending, others) /\ cancelled' = cancelled \cup notes
      /\ UNCHANGED <<added, relayed>>
  <2>1. Queue!Range(pending) = Range(pending)
    BY DEF Queue!Range, Range
  <2>2. Queue!Select(pending, others) = Select(pending, others)
    BY DEF Queue!Select, Select
  <2>3. notes = {[id |-> r.id, packet |-> r.packet, heard |-> p] : r \in Range(pending) \ others}
    OBVIOUS
  <2> HIDE DEF notes
  <2> QED BY <2>1, <2>2, <2>3, Zenon DEF Queue!Cancel
<1>2. /\ \A r \in gone : Queue!dedup_key(r.packet) = Queue!dedup_key(p)
      /\ Range(pending) \cap others = others /\ others \cup gone = Range(pending)
      /\ others \cap gone = {}
  OBVIOUS
<1>3. DOMAIN note = gone /\ \A r \in gone : note[r] = [id |-> r.id, packet |-> r.packet, heard |-> p]
  OBVIOUS
<1> HIDE DEF others, note
<1>4. pending \in Seq(Waiting) /\ NoneTwice(pending) /\ Range(pending) \subseteq Waiting
  BY RangeType DEF QueueInv
<1>5. /\ pending' \in Seq(Waiting) /\ Range(pending') = others
      /\ Distinct(pending') /\ IsFiniteSet(gone)
      /\ Len(pending') + Cardinality(gone) = Len(pending)
  <2>1. Distinct(pending)
    BY <1>4, IdsTell
  <2>2. Select(pending, others) \in Seq(Waiting) /\ Range(Select(pending, others)) = Range(pending) \cap others
    BY <1>4, SelectType
  <2>3. /\ Distinct(Select(pending, others)) /\ IsFiniteSet(gone)
        /\ Len(Select(pending, others)) + Cardinality(gone) = Len(pending)
    BY <1>4, <2>1, SelectCounts
  <2> HIDE DEF gone
  <2> QED BY <1>1, <1>2, <2>2, <2>3
<1> HIDE DEF gone
<1>6. \A r, t \in Range(pending) : r.id = t.id => r = t
  BY <1>4, IdsTell
<1>7. /\ IdsOf(pending') = {r.id : r \in others}
      /\ IdsOf(pending) = {r.id : r \in others} \cup {r.id : r \in gone}
      /\ {r.id : r \in others} \cap {r.id : r \in gone} = {}
  <2>1. IdsOf(pending') = Queue!Ids(others) /\ IdsOf(pending) = Queue!Ids(Range(pending))
    BY <1>4, <1>5, IdsAre
  <2> QED BY <1>2, <1>6, <2>1 DEF Queue!Ids
<1>8. Queue!Ids(cancelled') = Queue!Ids(cancelled) \cup {r.id : r \in gone}
  BY <1>1, <1>3 DEF Queue!Ids
<1>9. NoneTwice(pending')
  <2>1. ASSUME NEW i \in 1 .. Len(pending'), NEW j \in 1 .. Len(pending'), pending'[i].id = pending'[j].id
        PROVE  i = j
    <3>1. pending'[i] \in Range(pending) /\ pending'[j] \in Range(pending)
      <4>1. DOMAIN pending' = 1 .. Len(pending')
        BY <1>5
      <4>2. pending'[i] \in Range(pending') /\ pending'[j] \in Range(pending')
        BY <4>1, Zenon DEF Range
      <4> QED BY <1>2, <1>5, <4>2
    <3>2. pending'[i] = pending'[j]
      BY <1>6, <2>1, <3>1
    <3> QED BY <1>5, <3>2 DEF Distinct
  <2> QED BY <2>1 DEF NoneTwice
<1>10. IsFiniteSet(notes) /\ Cardinality(notes) = Cardinality(gone)
  <2>1. note \in [gone -> notes]
    <3>1. note = [r \in gone |-> note[r]] /\ \A r \in gone : note[r] \in notes
      BY DEF note
    <3> HIDE DEF notes
    <3> QED BY <3>1, Zenon
  <2>2. \A x \in notes : \E r \in gone : note[r] = x
    OBVIOUS
  <2>3. \A r, t \in gone : note[r] = note[t] => r = t
    BY <1>2, <1>3, <1>6
  <2> HIDE DEF notes
  <2>4. ExistsBijection(gone, notes)
    BY <1>3, <2>1, <2>2, <2>3 DEF ExistsBijection, Bijection, Injection, Surjection, IsInjective
  <2> QED BY <1>5, <2>4, FS_Bijection
<1>11. cancelled \cap notes = {}
  <2>1. \A x \in notes : x.id \in {r.id : r \in gone}
    BY <1>3
  <2>2. \A x \in cancelled : x.id \in Queue!Ids(cancelled)
    BY DEF Queue!Ids
  <2> QED BY <1>7, <2>1, <2>2 DEF QueueInv
<1>12. /\ IsFiniteSet(cancelled') /\ Cardinality(cancelled') = Cardinality(cancelled) + Cardinality(gone)
       /\ Cardinality(cancelled) \in Nat /\ Cardinality(gone) \in Nat
  <2>1. IsFiniteSet(cancelled)
    BY DEF QueueInv
  <2>2. Cardinality(cancelled \cap notes) = 0
    BY <1>11, FS_EmptySet
  <2> HIDE DEF notes
  <2>3. /\ IsFiniteSet(cancelled \cup notes)
        /\ Cardinality(cancelled \cup notes)
               = Cardinality(cancelled) + Cardinality(notes) - Cardinality(cancelled \cap notes)
    BY <1>10, <2>1, FS_Union
  <2>4. Cardinality(cancelled) \in Nat /\ Cardinality(gone) \in Nat
    BY <1>5, <2>1, FS_CardinalityType
  <2> QED BY <1>1, <1>10, <2>2, <2>3, <2>4
<1>13. \A r \in cancelled' : Queue!dedup_key(r.packet) = Queue!dedup_key(r.heard)
  <2>1. \A x \in notes : x.heard = p /\ Queue!dedup_key(x.packet) = Queue!dedup_key(p)
    BY <1>2, <1>3
  <2> HIDE DEF notes
  <2> QED BY <1>1, <2>1, Zenon DEF QueueInv
<1>14. Len(pending') + Len(relayed) + Cardinality(cancelled') = added
  <2>1. /\ Len(pending') \in Nat /\ Len(pending) \in Nat /\ Len(relayed) \in Nat
        /\ Len(pending) + Len(relayed) + Cardinality(cancelled) = added
    BY <1>4, <1>5 DEF QueueInv
  <2> QED BY <1>5, <1>12, <2>1
<1>15. /\ IdsOf(pending') \cap Queue!Ids(cancelled') = {}
       /\ 1 .. added = IdsOf(pending') \cup Range(relayed) \cup Queue!Ids(cancelled')
  BY <1>7, <1>8 DEF QueueInv
<1> HIDE DEF notes
<1> QED BY <1>1, <1>5, <1>9, <1>12, <1>13, <1>14, <1>15 DEF QueueInv

LEMMA SwapRemoveKeeps ==
    ASSUME NEW q \in Seq(Waiting), NEW i \in 1 .. Len(q)
    PROVE  /\ Queue!SwapRemove(q, i) \in Seq(Waiting) /\ Len(Queue!SwapRemove(q, i)) = Len(q) - 1
           /\ \A j \in 1 .. Len(q) - 1 : Queue!SwapRemove(q, i)[j] = IF j = i THEN q[Len(q)] ELSE q[j]
<1> DEFINE swapped == IF i = Len(q) THEN q ELSE [q EXCEPT ![i] = q[Len(q)]]
<1>1. /\ Len(q) \in Nat /\ Len(q) \in 1 .. Len(q) /\ swapped \in Seq(Waiting) /\ Len(swapped) = Len(q)
      /\ \A j \in 1 .. Len(q) - 1 : swapped[j] = IF j = i THEN q[Len(q)] ELSE q[j]
  <2>1. Len(q) \in Nat /\ Len(q) \in 1 .. Len(q) /\ q[Len(q)] \in Waiting /\ DOMAIN q = 1 .. Len(q)
    OBVIOUS
  <2> QED BY <2>1
<1>2. Queue!SwapRemove(q, i) = SubSeq(swapped, 1, Len(q) - 1)
  BY <1>1 DEF Queue!SwapRemove, Queue!Front, Queue!Last
<1> HIDE DEF swapped
<1>3. /\ SubSeq(swapped, 1, Len(q) - 1) \in Seq(Waiting) /\ Len(SubSeq(swapped, 1, Len(q) - 1)) = Len(q) - 1
      /\ \A j \in 1 .. Len(q) - 1 : SubSeq(swapped, 1, Len(q) - 1)[j] = swapped[j]
  BY <1>1, SubSeqProperties
<1> QED BY <1>1, <1>2, <1>3

\* One relay of the queue less, the one that was at i.
LEMMA SwapRemoveTakes ==
    ASSUME NEW q \in Seq(Waiting), NEW i \in 1 .. Len(q), NoneTwice(q)
    PROVE  /\ NoneTwice(Queue!SwapRemove(q, i))
           /\ IdsOf(q) = IdsOf(Queue!SwapRemove(q, i)) \cup {q[i].id}
<1> DEFINE rest == Queue!SwapRemove(q, i)
<1>1. /\ Len(q) \in Nat /\ i \in Nat /\ Len(rest) = Len(q) - 1
      /\ \A j \in 1 .. Len(rest) : j \in 1 .. Len(q) /\ rest[j] = IF j = i THEN q[Len(q)] ELSE q[j]
  BY SwapRemoveKeeps
<1> HIDE DEF rest
<1>2. \A j, k \in 1 .. Len(q) : q[j].id = q[k].id => j = k
  BY DEF NoneTwice
<1>3. ASSUME NEW j \in 1 .. Len(rest), NEW k \in 1 .. Len(rest), rest[j].id = rest[k].id PROVE j = k
  <2> DEFINE at(l) == IF l = i THEN Len(q) ELSE l
  <2>1. at(j) \in 1 .. Len(q) /\ at(k) \in 1 .. Len(q) /\ rest[j] = q[at(j)] /\ rest[k] = q[at(k)]
    BY <1>1
  <2>2. at(j) = at(k)
    <3> HIDE DEF at
    <3> QED BY <1>2, <1>3, <2>1
  <2> QED BY <1>1, <2>2
<1>4. ASSUME NEW j \in 1 .. Len(q) PROVE q[j].id \in IdsOf(rest) \cup {q[i].id}
  <2>1. CASE j = i
    BY <2>1
  <2>2. CASE j # i /\ j = Len(q)
    <3>1. i \in 1 .. Len(rest) /\ rest[i] = q[j]
      BY <1>1, <2>2
    <3> QED BY <3>1 DEF IdsOf
  <2>3. CASE j # i /\ j # Len(q)
    <3>1. j \in 1 .. Len(rest) /\ rest[j] = q[j]
      BY <1>1, <2>3
    <3> QED BY <3>1 DEF IdsOf
  <2> QED BY <2>1, <2>2, <2>3
<1>5. ASSUME NEW j \in 1 .. Len(rest) PROVE rest[j].id \in IdsOf(q)
  <2>1. rest[j] = q[j] \/ rest[j] = q[Len(q)]
    BY <1>1
  <2>2. Len(q) \in 1 .. Len(q) /\ j \in 1 .. Len(q)
    BY <1>1
  <2> QED BY <2>1, <2>2 DEF IdsOf
<1>6. NoneTwice(rest)
  BY <1>3 DEF NoneTwice
<1>7. IdsOf(q) = IdsOf(rest) \cup {q[i].id}
  BY <1>4, <1>5 DEF IdsOf
<1> QED BY <1>6, <1>7 DEF rest

\* The states of drain_expired's loop.
Loops == [rest : Seq(Waiting), i : Nat \ {0}, out : Seq(Nat)]

\* Going on to the next relay changes the index only.
LEMMA Onward ==
    ASSUME NEW s \in Loops, s.i + 1 \in Nat \ {0}
    PROVE  /\ [s EXCEPT !.i = @ + 1] \in Loops
           /\ [s EXCEPT !.i = @ + 1].rest = s.rest
           /\ [s EXCEPT !.i = @ + 1].out = s.out
<1>1. /\ DOMAIN s = {"rest", "i", "out"}
      /\ s.rest \in Seq(Waiting) /\ s.out \in Seq(Nat)
  BY DEF Loops
<1> DEFINE t == [s EXCEPT !.i = @ + 1]
<1>2. t = [rest |-> s.rest, i |-> s.i + 1, out |-> s.out]
  BY DEF Loops
<1> HIDE DEF t
<1>3. t.rest = s.rest /\ t.out = s.out
  BY <1>2
<1>4. t \in Loops
  BY <1>1, <1>2 DEF Loops
<1> QED BY <1>3, <1>4 DEF t

LEMMA DrainStepType == ASSUME NEW s \in Loops PROVE Queue!DrainStep(s) \in Loops
<1>1. /\ s.rest \in Seq(Waiting) /\ s.i \in Nat \ {0} /\ s.out \in Seq(Nat)
      /\ s.i + 1 \in Nat \ {0} /\ [s EXCEPT !.i = @ + 1] \in Loops
  <2>1. s.rest \in Seq(Waiting) /\ s.i \in Nat \ {0} /\ s.out \in Seq(Nat)
    BY DEF Loops
  <2>2. s.i + 1 \in Nat \ {0}
    BY <2>1
  <2> QED BY <2>1, <2>2, Onward
<1>2. CASE s.i > Len(s.rest)
  BY <1>2 DEF Queue!DrainStep
<1>3. CASE ~(s.i > Len(s.rest)) /\ s.rest[s.i].left = 0
  <2>1. s.i \in 1 .. Len(s.rest) /\ s.rest[s.i] \in Waiting
    BY <1>1, <1>3
  <2>2. Queue!SwapRemove(s.rest, s.i) \in Seq(Waiting) /\ Append(s.out, s.rest[s.i].id) \in Seq(Nat)
    <3>1. s.rest[s.i].id \in Nat
      BY <2>1 DEF Waiting
    <3> QED BY <1>1, <2>1, <3>1, SwapRemoveKeeps
  <2> QED BY <1>1, <1>3, <2>2 DEF Queue!DrainStep, Loops
<1>4. CASE ~(s.i > Len(s.rest)) /\ s.rest[s.i].left # 0
  BY <1>1, <1>4 DEF Queue!DrainStep
<1> QED BY <1>2, <1>3, <1>4

\* The loop starts with the whole queue, and every round does its step.
LEMMA Rounds ==
    ASSUME pending \in Seq(Waiting)
    PROVE  /\ Queue!Round[0] = [rest |-> pending, i |-> 1, out |-> <<>>]
           /\ \A n \in Nat : Queue!Round[n + 1] = Queue!DrainStep(Queue!Round[n])
<1> DEFINE start == [rest |-> pending, i |-> 1, out |-> <<>>]
           next == [n \in Nat |-> [s \in Loops |-> Queue!DrainStep(s)]]
<1>1. start \in Loops
  <2>1. <<>> \in Seq(Nat)
    OBVIOUS
  <2> QED BY <2>1 DEF Loops
<1>2. next \in [Nat -> [Loops -> Loops]]
  BY DrainStepType
<1> HIDE DEF start
<1>3. PICK h : Iterates(h, Loops, start, next)
  <2> HIDE DEF next
  <2> QED BY <1>1, <1>2, Recursion
<1> DEFINE Eq(g) == g = [n \in Nat |-> IF n = 0 THEN start ELSE Queue!DrainStep(g[n - 1])]
<1>4. Eq(h)
  <2>1. h \in [Nat -> Loops] /\ h[0] = start /\ \A n \in Nat : h[n + 1] = next[n][h[n]]
    BY <1>3 DEF Iterates
  <2>2. ASSUME NEW n \in Nat, n # 0 PROVE h[n] = Queue!DrainStep(h[n - 1])
    <3>1. n - 1 \in Nat /\ (n - 1) + 1 = n
      BY <2>2
    <3>2. h[n - 1] \in Loops /\ h[n] = next[n - 1][h[n - 1]]
      BY <2>1, <3>1
    <3> QED BY <3>1, <3>2
  <2> QED BY <2>1, <2>2
<1> DEFINE round == CHOOSE g : Eq(g)
<1>5. Eq(round)
  <2> HIDE DEF Eq
  <2> QED BY <1>4
<1>6. Queue!Round = round
  BY DEF Queue!Round, start
<1> HIDE DEF round
<1>7. \A n \in Nat : n + 1 \in Nat /\ n + 1 # 0 /\ (n + 1) - 1 = n
  OBVIOUS
<1>8. round[0] = start /\ \A n \in Nat : round[n + 1] = Queue!DrainStep(round[n])
  BY <1>5, <1>7
<1> QED BY <1>6, <1>8 DEF start

\* What every round keeps: the relays are in the rest or were taken out.
Parted(s) ==
    /\ s \in Loops /\ NoneTwice(s.rest)
    /\ Len(s.rest) + Len(s.out) = Len(pending)
    /\ IdsOf(s.rest) \cup Range(s.out) = IdsOf(pending)

LEMMA RoundParts ==
    ASSUME NEW s, Parted(s)
    PROVE  Parted(Queue!DrainStep(s))
<1>1. /\ s \in Loops /\ s.rest \in Seq(Waiting) /\ s.i \in Nat \ {0} /\ s.out \in Seq(Nat)
      /\ NoneTwice(s.rest) /\ Len(s.rest) + Len(s.out) = Len(pending)
  BY DEF Loops, Parted
<1>2. CASE s.i > Len(s.rest)
  BY <1>2 DEF Queue!DrainStep
<1>3. CASE ~(s.i > Len(s.rest)) /\ s.rest[s.i].left = 0
  <2> DEFINE rest == Queue!SwapRemove(s.rest, s.i)
             x == s.rest[s.i].id
  <2>1. s.i \in 1 .. Len(s.rest) /\ s.rest[s.i] \in Waiting
    BY <1>1, <1>3
  <2>2. x \in Nat
    BY <2>1 DEF Waiting
  <2>3. /\ rest \in Seq(Waiting) /\ Len(rest) = Len(s.rest) - 1 /\ NoneTwice(rest)
        /\ IdsOf(s.rest) = IdsOf(rest) \cup {x}
    BY <1>1, <2>1, SwapRemoveKeeps, SwapRemoveTakes
  <2>4. Queue!DrainStep(s) = [rest |-> rest, i |-> s.i, out |-> Append(s.out, x)]
    BY <1>3 DEF Queue!DrainStep
  <2> HIDE DEF rest, x
  <2>5. /\ Append(s.out, x) \in Seq(Nat) /\ Len(Append(s.out, x)) = Len(s.out) + 1
        /\ Len(s.out) \in Nat /\ Len(s.rest) \in Nat
    BY <1>1, <2>2
  <2>6. Range(Append(s.out, x)) = Range(s.out) \cup {x}
    BY <1>1, <2>2, RangeAppend
  <2>7. [rest |-> rest, i |-> s.i, out |-> Append(s.out, x)] \in Loops
    BY <1>1, <2>3, <2>5 DEF Loops
  <2>8. Len(rest) + Len(Append(s.out, x)) = Len(pending)
    <3> DEFINE a == Len(s.rest)
               b == Len(s.out)
    <3>1. a \in Nat /\ b \in Nat /\ Len(rest) = a - 1 /\ Len(Append(s.out, x)) = b + 1 /\ a + b = Len(pending)
      BY <1>1, <2>3, <2>5
    <3> HIDE DEF a, b
    <3>2. (a - 1) + (b + 1) = a + b
      BY <3>1
    <3> QED BY <3>1, <3>2, Zenon
  <2>9. IdsOf(rest) \cup Range(Append(s.out, x)) = IdsOf(pending)
    BY <2>3, <2>6 DEF Parted
  <2> DEFINE t == [rest |-> rest, i |-> s.i, out |-> Append(s.out, x)]
  <2>10. t.rest = rest /\ t.out = Append(s.out, x)
    OBVIOUS
  <2>11. t \in Loops /\ NoneTwice(t.rest) /\ Len(t.rest) + Len(t.out) = Len(pending)
         /\ IdsOf(t.rest) \cup Range(t.out) = IdsOf(pending)
    BY <2>3, <2>7, <2>8, <2>9, <2>10, Zenon
  <2> HIDE DEF t
  <2>12. Parted(t)
    BY <2>11 DEF Parted
  <2> QED BY <2>4, <2>12 DEF t
<1>4. CASE ~(s.i > Len(s.rest)) /\ s.rest[s.i].left # 0
  <2>1. Queue!DrainStep(s) = [s EXCEPT !.i = @ + 1]
    BY <1>4 DEF Queue!DrainStep
  <2>2. [s EXCEPT !.i = @ + 1] \in Loops /\ [s EXCEPT !.i = @ + 1].rest = s.rest
        /\ [s EXCEPT !.i = @ + 1].out = s.out
    <3>1. s \in Loops /\ s.i + 1 \in Nat \ {0}
      BY <1>1 DEF Loops
    <3> QED BY <3>1, Onward
  <2> QED BY <2>1, <2>2 DEF Parted
<1> QED BY <1>2, <1>3, <1>4

LEMMA DrainedParts ==
    ASSUME pending \in Seq(Waiting), NoneTwice(pending)
    PROVE  Parted(Queue!Drained)
<1> DEFINE T == {n \in Nat : Parted(Queue!Round[n])}
<1>1. 0 \in T
  <2> DEFINE s == [rest |-> pending, i |-> 1, out |-> <<>>]
  <2>1. Queue!Round[0] = s
    BY Rounds
  <2>2. <<>> \in Seq(Nat) /\ Len(<<>>) = 0 /\ Range(<<>>) = {} /\ Len(pending) \in Nat
    BY RangeEmpty
  <2>3. s \in Loops /\ s.rest = pending /\ s.out = <<>>
    BY <2>2 DEF Loops
  <2>4. Parted(s)
    BY <2>2, <2>3 DEF Parted
  <2> QED BY <2>1, <2>4
<1>2. ASSUME NEW n \in T PROVE n + 1 \in T
  BY Rounds, RoundParts
<1>3. T = Nat
  <2> HIDE DEF T
  <2> QED BY <1>1, <1>2, Induction DEF T
<1>4. Len(pending) \in Nat
  OBVIOUS
<1> QED BY <1>3, <1>4 DEF Queue!Drained

LEMMA DrainStepKeeps == ASSUME QueueInv, Queue!Drain PROVE QueueInv'
<1> DEFINE s == Queue!Drained
<1>1. /\ pending' = s.rest /\ relayed' = relayed \o s.out /\ UNCHANGED <<added, cancelled>>
  BY DEF Queue!Drain
<1>2. Parted(s)
  BY DrainedParts DEF QueueInv
<1> HIDE DEF s
<1>3. /\ s.rest \in Seq(Waiting) /\ s.out \in Seq(Nat) /\ NoneTwice(s.rest)
      /\ Len(s.rest) + Len(s.out) = Len(pending)
      /\ IdsOf(s.rest) \cup Range(s.out) = IdsOf(pending)
  BY <1>2 DEF Parted, Loops
<1>4. relayed \in Seq(Nat)
  BY DEF QueueInv
<1>5. /\ relayed \o s.out \in Seq(Nat) /\ Len(relayed \o s.out) = Len(relayed) + Len(s.out)
      /\ Range(relayed \o s.out) = Range(relayed) \cup Range(s.out)
  BY <1>3, <1>4, RangeConcat
<1>6. Len(pending') + Len(relayed') + Cardinality(cancelled') = added'
  <2>1. /\ Len(s.rest) \in Nat /\ Len(s.out) \in Nat /\ Len(relayed) \in Nat /\ Cardinality(cancelled) \in Nat
        /\ Len(pending) + Len(relayed) + Cardinality(cancelled) = added
    BY <1>3, <1>4, FS_CardinalityType DEF QueueInv
  <2>2. Len(pending) \in Nat
    BY <1>3, <2>1
  <2>3. /\ Len(pending') = Len(s.rest) /\ Len(relayed') = Len(relayed) + Len(s.out)
        /\ cancelled' = cancelled /\ added' = added
    BY <1>1, <1>5
  <2> DEFINE a == Len(s.rest)
             b == Len(s.out)
             c == Len(relayed)
             d == Cardinality(cancelled)
  <2>4. a \in Nat /\ b \in Nat /\ c \in Nat /\ d \in Nat /\ (a + b) + c + d = added
    BY <1>3, <2>1
  <2>5. Len(pending') = a /\ Len(relayed') = c + b /\ Cardinality(cancelled') = d /\ added' = added
    BY <2>3
  <2> HIDE DEF a, b, c, d
  <2>6. a + (c + b) + d = (a + b) + c + d
    BY <2>4
  <2> QED BY <2>4, <2>5, <2>6, Zenon
<1>7. /\ IdsOf(pending') \cap Queue!Ids(cancelled) = {}
      /\ 1 .. added = IdsOf(pending') \cup Range(relayed') \cup Queue!Ids(cancelled)
  BY <1>1, <1>3, <1>5 DEF QueueInv
<1> QED BY <1>1, <1>3, <1>5, <1>6, <1>7 DEF QueueInv

\* Each relay that was added waits, was sent or was cancelled, and only one of
\* these, for any packets and delays and however many relays are added: the
\* swaps of the drain and the filtering of the cancellation lose and double none.
THEOREM FateCorrect == RulesSpec => []OneFate
<1>1. QueueInv /\ UNCHANGED Queue!queueVars => QueueInv'
  BY DEF QueueInv, Queue!queueVars
<1>2. QueueInv /\ [Queue!Next]_Queue!queueVars => QueueInv'
  BY <1>1, AddStep, CancelStep, DrainStepKeeps, CountdownStep DEF Queue!Next
<1> QED BY <1>2, QueueInit, QueueGives, QueueApart, PTL

-----------------------------------------------------------------------------
(* The path of a packet.                                                    *)

LEMMA PathApart == RulesSpec => Path!Spec
<1>1. RulesInit => Path!Init
  BY DEF RulesInit
<1>2. [RulesNext]_rulesVars => [Path!Next]_Path!vars
  BY DEF RulesNext, rulesVars, AllAdded, AtGates, OnPath, InDupes, InQueue, InLimit, InChain,
         pathVars, Path!vars
<1> QED BY <1>1, <1>2, PTL DEF RulesSpec, Path!Spec

\* The stations that had relayed the packet before it was sent, and since.
Earlier == Cardinality(Path!Used(origin))
UsedUp == Earlier + Len(relays)

\* What is used is the beginning of the path: the vias that were used when the
\* packet was sent, then those of the relays.
PathInv ==
    /\ origin \in Paths /\ path \in Seq(Path!Vias) /\ relays \in Seq(Digis)
    /\ Earlier \in Nat /\ Path!Used(origin) = 1 .. Earlier /\ Earlier <= Len(origin)
    /\ Path!Used(path) = 1 .. UsedUp /\ UsedUp <= Len(path)
    /\ \A i \in 1 .. Earlier : path[i] = origin[i]
    /\ \A i \in 1 .. Len(relays) : path[Earlier + i] = Path!Mine(relays[i])
    /\ Distinct(relays)

LEMMA UsedFirst ==
    ASSUME NEW p \in Paths
    PROVE  /\ p \in Seq(Path!Vias) /\ Cardinality(Path!Used(p)) \in 0 .. Len(p)
           /\ Path!Used(p) = 1 .. Cardinality(Path!Used(p))
<1>1. /\ p \in Seq(Path!Vias) /\ Len(p) \in Nat /\ Path!Used(p) \subseteq 1 .. Len(p)
      /\ \A i \in Path!Used(p) : 1 .. i \subseteq Path!Used(p)
  BY RulesAssumption DEF Path!Sensible, Path!Used
<1> DEFINE U == Path!Used(p)
           T == {n \in Nat : n + 1 \notin U}
<1> HIDE DEF U
<1>2. Len(p) \in T
  BY <1>1 DEF U
<1>3. PICK n \in T : \A m \in T : n <= m
  <2> HIDE DEF T
  <2>1. T \in SUBSET Nat /\ T # {}
    BY <1>2 DEF T
  <2> QED BY <2>1, LeastElement
<1>4. n \in Nat /\ n + 1 \notin U /\ n <= Len(p)
  BY <1>2, <1>3
<1>5. \A i \in 1 .. n : i \in U
  <2>1. \A i \in 1 .. n : i - 1 \in Nat /\ ~(n <= i - 1) /\ (i - 1) + 1 = i
    BY <1>4
  <2> QED BY <1>3, <2>1
<1>6. \A i \in U : i \in 1 .. n
  <2>1. SUFFICES ASSUME NEW i \in U, ~(i <= n) PROVE FALSE
    BY <1>1, <1>4 DEF U
  <2>2. n + 1 \in 1 .. i
    BY <1>1, <1>4, <2>1 DEF U
  <2> QED BY <1>1, <1>4, <2>2 DEF U
<1>7. U = 1 .. n
  BY <1>5, <1>6
<1>8. Cardinality(1 .. n) = n
  <2>1. 1 \in Int /\ n \in Int /\ (1 > n => n = 0) /\ n - 1 + 1 = n
    BY <1>4
  <2> QED BY <2>1, FS_Interval
<1> QED BY <1>1, <1>4, <1>7, <1>8 DEF U

LEMMA PathInit == Path!Init => PathInv
<1> SUFFICES ASSUME Path!Init PROVE PathInv
  OBVIOUS
<1>1. origin \in Paths /\ path = origin /\ relays = <<>>
  BY DEF Path!Init
<1>2. relays \in Seq(Digis) /\ Len(relays) = 0 /\ Distinct(relays)
  BY <1>1 DEF Distinct
<1>3. /\ origin \in Seq(Path!Vias) /\ Earlier \in Nat /\ Earlier <= Len(origin)
      /\ Path!Used(origin) = 1 .. Earlier
  BY <1>1, UsedFirst DEF Earlier
<1>4. UsedUp = Earlier
  BY <1>2, <1>3 DEF UsedUp
<1> QED BY <1>1, <1>2, <1>3, <1>4 DEF PathInv

\* What is at k + 1 gives its place to x and r.
Splice(p, k, x, r) == SubSeq(p, 1, k) \o <<x>> \o r \o SubSeq(p, k + 2, Len(p))

\* What q is then, place by place.
Places(S, q, p, k, x, r) ==
    /\ q \in Seq(S) /\ Len(q) = Len(p) + Len(r)
    /\ \A i \in 1 .. k : q[i] = p[i]
    /\ q[k + 1] = x
    /\ \A j \in 1 .. Len(r) : q[k + 1 + j] = r[j]
    /\ \A j \in 1 .. Len(p) - k - 1 : q[k + 1 + Len(r) + j] = p[k + 1 + j]

LEMMA Spliced ==
    ASSUME NEW S, NEW p \in Seq(S), NEW k \in 0 .. Len(p) - 1, NEW x \in S, NEW r \in Seq(S)
    PROVE  Places(S, Splice(p, k, x, r), p, k, x, r)
<1> DEFINE q == Splice(p, k, x, r)
           a == SubSeq(p, 1, k)
           c == SubSeq(p, k + 2, Len(p))
           ab == a \o <<x>>
           abr == ab \o r
<1>1. /\ Len(p) \in Nat /\ k \in Nat /\ k < Len(p) /\ Len(r) \in Nat
      /\ <<x>> \in Seq(S) /\ Len(<<x>>) = 1 /\ <<x>>[1] = x
  OBVIOUS
<1>2. a \in Seq(S) /\ Len(a) = k /\ \A i \in 1 .. k : a[i] = p[i]
  BY <1>1, SubSeqProperties
<1>3. c \in Seq(S) /\ Len(c) = Len(p) - k - 1 /\ \A j \in 1 .. Len(p) - k - 1 : c[j] = p[k + 1 + j]
  <2>1. \A i \in k + 2 .. Len(p) : p[i] \in S
    BY <1>1
  <2>2. c \in Seq(S) /\ Len(c) = IF k + 2 <= Len(p) THEN Len(p) - (k + 2) + 1 ELSE 0
    BY <1>1, <2>1, SubSeqProperties
  <2>3. \A j \in 1 .. Len(p) - (k + 2) + 1 : c[j] = p[k + 2 + j - 1]
    BY <1>1, <2>1, SubSeqProperties
  <2> DEFINE l == Len(p)
  <2>4. l \in Nat /\ k \in Nat /\ k < l
    BY <1>1
  <2> HIDE DEF c, l
  <2>5. (IF k + 2 <= l THEN l - (k + 2) + 1 ELSE 0) = l - k - 1 /\ l - (k + 2) + 1 = l - k - 1
    BY <2>4
  <2>6. \A j \in 1 .. l - k - 1 : k + 2 + j - 1 = k + 1 + j
    BY <2>4
  <2> QED BY <2>2, <2>3, <2>5, <2>6, Zenon DEF l
<1> HIDE DEF a, c
<1>4. /\ ab \in Seq(S) /\ Len(ab) = k + 1 /\ ab[k + 1] = x
      /\ \A i \in 1 .. k : ab[i] = p[i]
  <2>1. /\ ab \in Seq(S) /\ Len(ab) = Len(a) + Len(<<x>>)
        /\ \A i \in 1 .. Len(a) : ab[i] = a[i]
        /\ \A i \in 1 .. Len(<<x>>) : ab[Len(a) + i] = <<x>>[i]
    <3>1. a \in Seq(S) /\ <<x>> \in Seq(S)
      BY <1>1, <1>2
    <3> QED BY <3>1, ConcatElements DEF Joins
  <2>2. 1 \in 1 .. Len(<<x>>)
    BY <1>1
  <2> HIDE DEF ab
  <2> QED BY <1>1, <1>2, <2>1, <2>2, Zenon
<1> HIDE DEF ab
<1>5. /\ abr \in Seq(S) /\ Len(abr) = k + 1 + Len(r)
      /\ \A i \in 1 .. k + 1 : abr[i] = ab[i]
      /\ \A j \in 1 .. Len(r) : abr[k + 1 + j] = r[j]
  <2>1. /\ abr \in Seq(S) /\ Len(abr) = Len(ab) + Len(r)
        /\ \A i \in 1 .. Len(ab) : abr[i] = ab[i]
        /\ \A i \in 1 .. Len(r) : abr[Len(ab) + i] = r[i]
    <3>1. ab \in Seq(S) /\ r \in Seq(S)
      BY <1>4
    <3> QED BY <3>1, ConcatElements DEF Joins
  <2> HIDE DEF abr
  <2> QED BY <1>4, <2>1, Zenon
<1> HIDE DEF abr
<1>6. q = abr \o c
  BY DEF q, Splice, abr, ab, a, c
<1> HIDE DEF q
<1>7. /\ q \in Seq(S) /\ Len(q) = k + 1 + Len(r) + Len(c)
      /\ \A i \in 1 .. k + 1 + Len(r) : q[i] = abr[i]
      /\ \A j \in 1 .. Len(c) : q[k + 1 + Len(r) + j] = c[j]
  <2>1. /\ abr \o c \in Seq(S) /\ Len(abr \o c) = Len(abr) + Len(c)
        /\ \A i \in 1 .. Len(abr) : (abr \o c)[i] = abr[i]
        /\ \A i \in 1 .. Len(c) : (abr \o c)[Len(abr) + i] = c[i]
    <3>1. abr \in Seq(S) /\ c \in Seq(S)
      BY <1>3, <1>5
    <3> QED BY <3>1, ConcatElements DEF Joins
  <2> QED BY <1>5, <1>6, <2>1, Zenon
<1>8. \A i \in 1 .. k : i \in 1 .. k + 1 /\ i \in 1 .. k + 1 + Len(r)
  BY <1>1
<1>9. k + 1 \in 1 .. k + 1 /\ k + 1 \in 1 .. k + 1 + Len(r)
  BY <1>1
<1>10. \A j \in 1 .. Len(r) : k + 1 + j \in 1 .. k + 1 + Len(r)
  BY <1>1
<1>11. Len(q) = Len(p) + Len(r)
  <2>1. Len(q) = k + 1 + Len(r) + (Len(p) - k - 1)
    BY <1>3, <1>7, Zenon
  <2> DEFINE l == Len(p)
             m == Len(r)
  <2>2. l \in Nat /\ m \in Nat /\ Len(q) = k + 1 + m + (l - k - 1)
    BY <1>1, <2>1
  <2> HIDE DEF l, m
  <2>3. k + 1 + m + (l - k - 1) = l + m
    BY <1>1, <2>2
  <2> QED BY <2>2, <2>3, Zenon DEF l, m
<1>12. \A j \in 1 .. Len(p) - k - 1 : q[k + 1 + Len(r) + j] = p[k + 1 + j]
  BY <1>3, <1>7
<1>13. Places(S, q, p, k, x, r)
  BY <1>4, <1>5, <1>7, <1>8, <1>9, <1>10, <1>11, <1>12, Zenon DEF Places
<1> QED BY <1>13 DEF q

\* What a relay does to the path: the station takes the place of the target, or
\* the place before it, and nothing after that is used.
LEMMA RelayedPath ==
    ASSUME PathInv, NEW s \in Digis, Path!Relay(s)
    PROVE  \E r \in Seq(Path!Vias) :
             /\ UsedUp \in Nat /\ UsedUp < Len(path)
             /\ path[UsedUp + 1] \in Path!Vias /\ ~path[UsedUp + 1].used
             /\ Path!Matches(s, path[UsedUp + 1])
             /\ r = Path!Remainder(s, path[UsedUp + 1])
             /\ Places(Path!Vias, path', path, UsedUp, Path!Mine(s), r)
<1> DEFINE k == UsedUp
           v == path[k + 1]
           r == Path!Remainder(s, v)
<1>1. /\ path \in Seq(Path!Vias) /\ Len(path) \in Nat /\ DOMAIN path = 1 .. Len(path) /\ k \in Nat
      /\ Path!Used(path) = 1 .. k /\ k <= Len(path)
  BY DEF PathInv, UsedUp
<1>2. Path!Used(path) # DOMAIN path /\ Path!Matches(s, path[Path!Target(path)]) /\ path' = Path!Relayed(s, path)
  BY DEF Path!Relay, Path!Relays
<1> HIDE DEF k
<1>3. k < Len(path)
  <2>1. k # Len(path)
    BY <1>1, <1>2, Zenon
  <2>2. k \in Nat /\ Len(path) \in Nat /\ k <= Len(path)
    BY <1>1
  <2> QED BY <2>1, <2>2
<1>4. Path!Target(path) = k + 1
  <2>1. /\ k + 1 \in DOMAIN path \ Path!Used(path)
        /\ \A j \in DOMAIN path \ Path!Used(path) : k + 1 <= j
    BY <1>1, <1>3
  <2>2. \A i, j \in DOMAIN path : i <= j /\ j <= i => i = j
    BY <1>1
  <2>3. Path!Target(path) \in DOMAIN path \ Path!Used(path)
        /\ \A j \in DOMAIN path \ Path!Used(path) : Path!Target(path) <= j
    BY <2>1, Zenon DEF Path!Target
  <2> QED BY <2>1, <2>2, <2>3
<1>5. v \in Path!Vias /\ ~v.used
  <2>1. k + 1 \in 1 .. Len(path) /\ k + 1 \notin 1 .. k
    BY <1>1, <1>3
  <2>2. v \in Path!Vias
    BY <1>1, <2>1
  <2> QED BY <1>1, <2>1, <2>2 DEF Path!Used
<1>6. r \in Seq(Path!Vias)
  <2>1. CASE v.call = s \/ v.n = 1
    <3>1. <<>> \in Seq(Path!Vias)
      OBVIOUS
    <3> QED BY <2>1, <3>1 DEF Path!Remainder
  <2>2. CASE ~(v.call = s \/ v.n = 1)
    <3>1. v.n > 0 /\ v.n \in 0 .. 15
      BY <1>2, <1>4, <1>5, <2>2 DEF Path!Matches, Path!Vias
    <3>2. v.n - 1 \in 0 .. 15
      BY <3>1
    <3>3. [v EXCEPT !.n = @ - 1] \in Path!Vias
      BY <1>5, <3>2 DEF Path!Vias
    <3>4. r = <<[v EXCEPT !.n = @ - 1]>>
      BY <2>2 DEF Path!Remainder
    <3> QED BY <3>3, <3>4, SingletonType
  <2> QED BY <2>1, <2>2
<1>7. Path!Mine(s) \in Path!Vias
  BY DEF Path!Mine, Path!Vias
<1>8. path' = SubSeq(path, 1, k) \o <<Path!Mine(s)>> \o r \o SubSeq(path, k + 2, Len(path))
  <2>1. (k + 1) - 1 = k /\ (k + 1) + 1 = k + 2
    BY <1>1
  <2> QED BY <1>2, <1>4, <2>1, Zenon DEF Path!Relayed
<1>9. k \in 0 .. Len(path) - 1
  BY <1>1, <1>3
<1> HIDE DEF v, r
<1>10. Places(Path!Vias, path', path, k, Path!Mine(s), r)
  <2>1. Places(Path!Vias, Splice(path, k, Path!Mine(s), r), path, k, Path!Mine(s), r)
    BY <1>1, <1>6, <1>7, <1>9, Spliced
  <2>2. path' = Splice(path, k, Path!Mine(s), r)
    BY <1>8 DEF Splice
  <2> QED BY <2>1, <2>2
<1>11. Path!Matches(s, v)
  BY <1>2, <1>4 DEF v
<1> QED BY <1>1, <1>3, <1>5, <1>6, <1>10, <1>11, Zenon DEF k, v, r

LEMMA RemainderUnused ==
    ASSUME NEW s, NEW v \in Path!Vias, ~v.used
    PROVE  Len(Path!Remainder(s, v)) \in Nat /\ \A j \in 1 .. Len(Path!Remainder(s, v)) : ~Path!Remainder(s, v)[j].used
<1>1. CASE v.call = s \/ v.n = 1
  BY <1>1 DEF Path!Remainder
<1>2. CASE ~(v.call = s \/ v.n = 1)
  <2>1. [v EXCEPT !.n = @ - 1].used = v.used
    BY DEF Path!Vias
  <2> DEFINE w == [v EXCEPT !.n = @ - 1]
  <2>2. Path!Remainder(s, v) = <<w>>
    BY <1>2 DEF Path!Remainder
  <2> HIDE DEF w
  <2>3. Len(<<w>>) = 1 /\ \A j \in 1 .. 1 : <<w>>[j] = w
    OBVIOUS
  <2> QED BY <2>1, <2>2, <2>3 DEF w
<1> QED BY <1>1, <1>2

LEMMA RelayStep == ASSUME PathInv, NEW s \in Digis, Path!Relay(s) PROVE PathInv'
<1> DEFINE k == UsedUp
           l == Len(path)
           e == Earlier
           m == Len(relays)
<1>1. PICK r \in Seq(Path!Vias) :
             /\ k \in Nat /\ k < l /\ path[k + 1] \in Path!Vias /\ ~path[k + 1].used
             /\ r = Path!Remainder(s, path[k + 1])
             /\ Places(Path!Vias, path', path, k, Path!Mine(s), r)
  BY RelayedPath
<1> DEFINE n == Len(r)
<1>2. n \in Nat /\ \A j \in 1 .. n : ~r[j].used
  BY <1>1, RemainderUnused
<1>3. /\ relays' = Append(relays, s) /\ origin' = origin /\ relays \in Seq(Digis)
      /\ ~Path!AlreadyIn(s, path)
  BY DEF Path!Relay, Path!Relays, PathInv
<1>4. /\ path' \in Seq(Path!Vias) /\ Len(path') = l + n
      /\ \A i \in 1 .. k : path'[i] = path[i]
      /\ path'[k + 1] = Path!Mine(s)
      /\ \A j \in 1 .. n : path'[k + 1 + j] = r[j]
      /\ \A j \in 1 .. l - k - 1 : path'[k + 1 + n + j] = path[k + 1 + j]
  BY <1>1 DEF Places
<1>5. /\ path \in Seq(Path!Vias) /\ l \in Nat /\ e \in Nat /\ m \in Nat /\ k = e + m
      /\ Path!Used(path) = 1 .. k
      /\ \A i \in 1 .. e : path[i] = origin[i]
      /\ \A i \in 1 .. m : path[e + i] = Path!Mine(relays[i])
      /\ Distinct(relays)
  BY <1>3 DEF PathInv, UsedUp
<1>6. /\ relays' \in Seq(Digis) /\ Len(relays') = m + 1 /\ relays'[m + 1] = s
      /\ \A i \in 1 .. m : relays'[i] = relays[i]
  BY <1>3, AppendElements
<1>7. Earlier' = e
  BY <1>3 DEF Earlier, Path!Used
<1> HIDE DEF n, k, l, e, m
<1>8. UsedUp' = k + 1
  BY <1>5, <1>6, <1>7 DEF UsedUp
<1>9. DOMAIN path = 1 .. l /\ DOMAIN path' = 1 .. l + n
  BY <1>4, <1>5 DEF l
<1>10. Path!Used(path') = 1 .. k + 1
  <2>1. \A i \in 1 .. k : i \in 1 .. l + n /\ path'[i].used
    <3>1. \A i \in 1 .. k : path[i].used
      BY <1>5 DEF Path!Used
    <3>2. \A i \in 1 .. k : i \in 1 .. l + n
      BY <1>1, <1>2, <1>5
    <3> QED BY <1>4, <3>1, <3>2
  <2>2. k + 1 \in 1 .. l + n /\ path'[k + 1].used
    BY <1>1, <1>2, <1>4, <1>5 DEF Path!Mine
  <2>3. ASSUME NEW i \in 1 .. l + n, ~(i <= k + 1) PROVE ~path'[i].used
    <3>1. CASE i <= k + 1 + n
      <4>1. i - k - 1 \in 1 .. n /\ k + 1 + (i - k - 1) = i
        BY <1>1, <1>2, <2>3, <3>1
      <4> QED BY <1>2, <1>4, <4>1
    <3>2. CASE ~(i <= k + 1 + n)
      <4>1. /\ i - k - 1 - n \in 1 .. l - k - 1 /\ k + 1 + n + (i - k - 1 - n) = i
            /\ k + 1 + (i - k - 1 - n) \in 1 .. l /\ k + 1 + (i - k - 1 - n) \notin 1 .. k
        <5>1. k \in Nat /\ l \in Nat /\ n \in Nat /\ k < l /\ i \in 1 .. l + n /\ k + 1 + n < i
          BY <1>1, <1>2, <1>5, <3>2
        <5> QED BY <5>1
      <4>2. path'[i] = path[k + 1 + (i - k - 1 - n)]
        BY <1>4, <4>1
      <4> QED BY <1>5, <1>9, <4>1, <4>2 DEF Path!Used
    <3> QED BY <3>1, <3>2
  <2>4. \A i \in 1 .. k + 1 : i \in 1 .. l + n /\ path'[i].used
    <3>1. \A i \in 1 .. k + 1 : i \in 1 .. k \/ i = k + 1
      BY <1>1
    <3> QED BY <2>1, <2>2, <3>1
  <2>5. \A i \in 1 .. l + n : i <= k + 1 => i \in 1 .. k + 1
    BY <1>1
  <2> QED BY <1>9, <2>3, <2>4, <2>5 DEF Path!Used
<1>11. k + 1 <= Len(path')
  BY <1>1, <1>2, <1>4, <1>5
<1>12. \A i \in 1 .. e : path'[i] = origin[i]
  <2>1. \A i \in 1 .. e : i \in 1 .. k
    BY <1>5
  <2> QED BY <1>4, <1>5, <2>1
<1>13. \A i \in 1 .. m + 1 : path'[e + i] = Path!Mine(relays'[i])
  <2>1. ASSUME NEW i \in 1 .. m PROVE path'[e + i] = Path!Mine(relays'[i])
    <3>1. e + i \in 1 .. k
      BY <1>5
    <3> QED BY <1>4, <1>5, <1>6, <3>1
  <2>2. path'[e + (m + 1)] = Path!Mine(relays'[m + 1])
    <3>1. e + (m + 1) = k + 1
      BY <1>5
    <3> QED BY <1>4, <1>6, <3>1
  <2>3. \A i \in 1 .. m + 1 : i \in 1 .. m \/ i = m + 1
    BY <1>5
  <2> QED BY <2>1, <2>2, <2>3
<1>14. Distinct(relays')
  <2>1. ASSUME NEW i \in 1 .. m PROVE relays[i] # s
    <3>1. e + i \in 1 .. k /\ path[e + i] = Path!Mine(relays[i])
      <4>1. e \in Nat /\ m \in Nat /\ k = e + m
        BY <1>5
      <4>2. e + i \in 1 .. k
        BY <4>1
      <4>3. path[e + i] = Path!Mine(relays[i])
        BY <1>5
      <4> QED BY <4>2, <4>3
    <3>2. path[e + i].call # s
      BY <1>3, <1>5, <3>1 DEF Path!AlreadyIn
    <3> QED BY <3>1, <3>2 DEF Path!Mine
  <2>2. s \notin Range(relays)
    <3>1. DOMAIN relays = 1 .. m
      BY <1>3 DEF m
    <3> QED BY <2>1, <3>1 DEF Range
  <2> QED BY <1>3, <1>5, <2>2, AppendDistinct
<1>15. origin' \in Paths /\ Path!Used(origin)' = 1 .. e /\ e <= Len(origin')
  BY <1>3 DEF PathInv, Path!Used, e
<1> QED BY <1>3, <1>4, <1>5, <1>6, <1>7, <1>8, <1>10, <1>11, <1>12, <1>13, <1>14, <1>15, Zenon DEF PathInv

LEMMA PathGives == PathInv => Path!UsedTellsRelays
<1> SUFFICES ASSUME PathInv PROVE Path!UsedTellsRelays
  OBVIOUS
<1> DEFINE e == Earlier
           m == Len(relays)
           k == UsedUp
           done == [i \in 1 .. Len(relays) |-> Path!Mine(relays[i])]
<1>1. /\ origin \in Seq(Path!Vias) /\ path \in Seq(Path!Vias) /\ relays \in Seq(Digis)
      /\ e \in Nat /\ m \in Nat /\ k = e + m /\ e <= Len(origin) /\ k <= Len(path)
      /\ Len(origin) \in Nat /\ Len(path) \in Nat
      /\ Path!Used(path) = 1 .. k
      /\ \A i \in 1 .. e : path[i] = origin[i]
      /\ \A i \in 1 .. m : path[e + i] = Path!Mine(relays[i])
      /\ Distinct(relays)
  BY UsedFirst DEF PathInv, UsedUp
<1>2. Path!Cardinality(Path!Used(origin)) = e
  BY DEF Earlier, Cardinality, Path!Cardinality
<1> HIDE DEF e, m, k
<1>3. Path!Cardinality(Path!Used(path)) = k
  <2>1. Cardinality(1 .. k) = k
    <3>1. 1 \in Int /\ k \in Int /\ (1 > k => k = 0) /\ k - 1 + 1 = k
      BY <1>1
    <3> QED BY <3>1, FS_Interval
  <2>2. Path!Cardinality(1 .. k) = Cardinality(1 .. k)
    BY DEF Cardinality, Path!Cardinality
  <2> QED BY <1>1, <2>1, <2>2
<1>4. /\ done \in Seq(Path!Vias) /\ Len(done) = m
      /\ \A i \in 1 .. m : done[i] = Path!Mine(relays[i])
  <2>1. \A i \in 1 .. m : Path!Mine(relays[i]) \in Path!Vias
    BY <1>1 DEF Path!Mine, Path!Vias, m
  <2>2. done \in [1 .. m -> Path!Vias]
    BY <2>1 DEF m
  <2> QED BY <1>1, <2>2 DEF m
<1> HIDE DEF done
<1> DEFINE a == SubSeq(path, 1, k)
           b == SubSeq(origin, 1, e)
<1>5. a \in Seq(Path!Vias) /\ Len(a) = k /\ \A i \in 1 .. k : a[i] = path[i]
  <2>1. \A i \in 1 .. k : path[i] \in Path!Vias
    BY <1>1
  <2>2. k \in Nat
    BY <1>1
  <2> QED BY <2>1, <2>2, SubSeqProperties
<1>6. b \in Seq(Path!Vias) /\ Len(b) = e /\ \A i \in 1 .. e : b[i] = origin[i]
  <2>1. \A i \in 1 .. e : origin[i] \in Path!Vias
    BY <1>1
  <2>2. e \in Nat
    BY <1>1
  <2> QED BY <2>1, <2>2, SubSeqProperties
<1> HIDE DEF a, b
<1>7. /\ b \o done \in Seq(Path!Vias) /\ Len(b \o done) = k
      /\ \A i \in 1 .. e : (b \o done)[i] = b[i]
      /\ \A i \in 1 .. m : (b \o done)[e + i] = done[i]
  <2>1. /\ b \o done \in Seq(Path!Vias) /\ Len(b \o done) = Len(b) + Len(done)
        /\ \A i \in 1 .. Len(b) : (b \o done)[i] = b[i]
        /\ \A i \in 1 .. Len(done) : (b \o done)[Len(b) + i] = done[i]
    <3>1. done \in Seq(Path!Vias) /\ b \in Seq(Path!Vias)
      BY <1>4, <1>6
    <3>2. Joins(Path!Vias, b \o done, b, done)
      BY <3>1, ConcatElements
    <3> QED BY <3>2 DEF Joins
  <2> QED BY <1>1, <1>4, <1>6, <2>1, Zenon
<1>8. \A i \in 1 .. k : a[i] = (b \o done)[i]
  <2> SUFFICES ASSUME NEW i \in 1 .. k PROVE a[i] = (b \o done)[i]
    OBVIOUS
  <2>1. CASE i <= e
    <3>1. i \in 1 .. e
      BY <1>1, <2>1
    <3> QED BY <1>1, <1>5, <1>6, <1>7, <3>1
  <2>2. CASE ~(i <= e)
    <3>1. i - e \in 1 .. m /\ e + (i - e) = i
      BY <1>1, <2>2
    <3>2. (b \o done)[i] = done[i - e] /\ path[i] = Path!Mine(relays[i - e])
      BY <1>1, <1>7, <3>1
    <3> QED BY <1>4, <1>5, <3>1, <3>2
  <2> QED BY <2>1, <2>2
<1>9. a = b \o done
  BY <1>5, <1>7, <1>8, SeqEqual
<1>10. \A i, j \in 1 .. Len(relays) : relays[i] = relays[j] => i = j
  BY <1>1 DEF Distinct
<1> QED BY <1>2, <1>3, <1>9, <1>10, Zenon DEF Path!UsedTellsRelays, a, b, done

LEMMA PathStep == PathInv /\ [Path!Next]_Path!vars => PathInv'
<1> SUFFICES ASSUME PathInv, [Path!Next]_Path!vars PROVE PathInv'
  OBVIOUS
<1>1. CASE UNCHANGED Path!vars
  BY <1>1 DEF PathInv, Path!vars, UsedUp, Earlier, Path!Used
<1>2. CASE \E s \in Digis : Path!Relay(s)
  BY <1>2, RelayStep
<1>3. CASE Path!Gone
  BY <1>1, <1>3 DEF Path!Gone
<1> QED BY <1>1, <1>2, <1>3 DEF Path!Next

-----------------------------------------------------------------------------
(* The hops that a path asks for.                                           *)

Cost(v) == IF v.used THEN 0 ELSE IF v.call \in Wide THEN v.n ELSE 1

Sums(p, h) ==
    /\ h \in [0 .. Len(p) -> Nat] /\ h[0] = 0
    /\ \A n \in 0 .. Len(p) - 1 : h[n + 1] = h[n] + Cost(p[n + 1])

LEMMA CostType == ASSUME NEW v \in Path!Vias PROVE Cost(v) \in Nat
  BY DEF Cost, Path!Vias

LEMMA HopsAre == ASSUME NEW p \in Seq(Path!Vias) PROVE Sums(p, Path!Hops(p))
<1> DEFINE l == Len(p)
           next == [n \in Nat |-> [x \in Nat |-> IF n < l THEN x + Cost(p[n + 1]) ELSE x]]
           Eq(g) == g = [n \in 0 .. l |-> IF n = 0 THEN 0 ELSE g[n - 1] + Cost(p[n])]
<1>1. l \in Nat /\ \A n \in 1 .. l : Cost(p[n]) \in Nat
  <2>1. l \in Nat /\ \A n \in 1 .. l : p[n] \in Path!Vias
    OBVIOUS
  <2> QED BY <2>1, CostType
<1> HIDE DEF l
<1>2. next \in [Nat -> [Nat -> Nat]]
  <2>1. ASSUME NEW n \in Nat, NEW x \in Nat PROVE (IF n < l THEN x + Cost(p[n + 1]) ELSE x) \in Nat
    <3>1. n < l => n + 1 \in 1 .. l
      BY <1>1
    <3> QED BY <1>1, <3>1
  <2> QED BY <2>1
<1>3. PICK f : Iterates(f, Nat, 0, next)
  <2>1. 0 \in Nat
    OBVIOUS
  <2> HIDE DEF next
  <2> QED BY <1>2, <2>1, Recursion
<1>4. f \in [Nat -> Nat] /\ f[0] = 0 /\ \A n \in 0 .. l - 1 : f[n + 1] = f[n] + Cost(p[n + 1])
  <2>1. f \in [Nat -> Nat] /\ f[0] = 0 /\ \A n \in Nat : f[n + 1] = next[n][f[n]]
    BY <1>3 DEF Iterates
  <2>2. \A n \in 0 .. l - 1 : n \in Nat /\ n < l
    BY <1>1
  <2> QED BY <2>1, <2>2
<1> DEFINE h == [n \in 0 .. l |-> f[n]]
<1>5. /\ h \in [0 .. l -> Nat] /\ h[0] = 0
      /\ \A n \in 0 .. l - 1 : h[n + 1] = h[n] + Cost(p[n + 1])
  <2>1. 0 \in 0 .. l /\ \A n \in 0 .. l - 1 : n \in 0 .. l /\ n + 1 \in 0 .. l
    BY <1>1
  <2>2. \A n \in 0 .. l : n \in Nat
    BY <1>1
  <2> QED BY <1>4, <2>1, <2>2
<1>6. Eq(h)
  <2> HIDE DEF h
  <2>1. ASSUME NEW n \in 0 .. l, n # 0 PROVE h[n] = h[n - 1] + Cost(p[n])
    <3>1. n - 1 \in 0 .. l - 1 /\ (n - 1) + 1 = n
      BY <1>1, <2>1
    <3>2. h[(n - 1) + 1] = h[n - 1] + Cost(p[(n - 1) + 1])
      BY <1>5, <3>1
    <3> QED BY <3>1, <3>2
  <2>2. h = [n \in 0 .. l |-> h[n]]
    BY <1>5
  <2> QED BY <1>5, <2>1, <2>2
<1>7. \E g : Eq(g)
  BY <1>6, Zenon
<1> DEFINE hops == CHOOSE g : Eq(g)
<1>8. Eq(hops)
  <2> HIDE DEF Eq
  <2> QED BY <1>7
<1>9. Path!Hops(p) = hops
  BY DEF Path!Hops, Cost, l
<1> HIDE DEF hops
\* No other function fits.
<1>10. hops = h
  <2> DEFINE T == {n \in Nat : n <= l => hops[n] = h[n]}
  <2>1. 0 \in T
    <3>1. 0 \in 0 .. l
      BY <1>1
    <3> QED BY <1>5, <1>8, <3>1
  <2> HIDE DEF h
  <2>2. ASSUME NEW n \in T PROVE n + 1 \in T
    <3>1. SUFFICES ASSUME n + 1 <= l PROVE hops[n + 1] = h[n + 1]
      OBVIOUS
    <3>2. n \in 0 .. l - 1 /\ n + 1 \in 0 .. l /\ n + 1 # 0 /\ (n + 1) - 1 = n /\ hops[n] = h[n]
      BY <1>1, <3>1
    <3> HIDE DEF T
    <3>3. hops[n + 1] = hops[n] + Cost(p[n + 1])
      BY <1>8, <3>2
    <3> QED BY <1>5, <3>2, <3>3
  <2>3. T = Nat
    <3> HIDE DEF T
    <3> QED BY <2>1, <2>2, Induction DEF T
  <2>4. \A n \in 0 .. l : hops[n] = h[n]
    BY <1>1, <2>3
  <2>5. hops = [n \in 0 .. l |-> hops[n]] /\ h = [n \in 0 .. l |-> h[n]]
    BY <1>5, <1>8
  <2> QED BY <2>4, <2>5
<1> HIDE DEF h
<1> QED BY <1>5, <1>9, <1>10 DEF Sums, l

\* After a and c the two go on alike for m vias.
Alike(p, a, q, c, m) ==
    /\ a \in Nat /\ c \in Nat /\ m \in Nat /\ a + m <= Len(p) /\ c + m <= Len(q)
    /\ \A j \in 1 .. m : q[c + j] = p[a + j]

\* Where two paths go on alike, they ask for as many hops.
LEMMA SameHops ==
    ASSUME NEW p \in Seq(Path!Vias), NEW q \in Seq(Path!Vias), NEW f, NEW g, Sums(p, f), Sums(q, g),
           NEW a, NEW c, NEW m, Alike(p, a, q, c, m)
    PROVE  f[a + m] + g[c] = g[c + m] + f[a]
<1>0. /\ a \in Nat /\ c \in Nat /\ m \in Nat /\ a + m <= Len(p) /\ c + m <= Len(q)
      /\ \A j \in 1 .. m : q[c + j] = p[a + j]
  BY DEF Alike
<1>1. /\ Len(p) \in Nat /\ Len(q) \in Nat
      /\ \A n \in 0 .. Len(p) : f[n] \in Nat
      /\ \A n \in 0 .. Len(q) : g[n] \in Nat
      /\ \A n \in 0 .. Len(p) - 1 : f[n + 1] = f[n] + Cost(p[n + 1])
      /\ \A n \in 0 .. Len(q) - 1 : g[n + 1] = g[n] + Cost(q[n + 1])
  <2>1. Len(p) \in Nat /\ Len(q) \in Nat
    OBVIOUS
  <2>2. f \in [0 .. Len(p) -> Nat] /\ g \in [0 .. Len(q) -> Nat]
    BY Zenon DEF Sums
  <2> QED BY <2>1, <2>2, Zenon DEF Sums
<1> DEFINE T == {n \in Nat : n <= m => f[a + n] + g[c] = g[c + n] + f[a]}
<1>2. 0 \in T
  <2>1. a \in 0 .. Len(p) /\ c \in 0 .. Len(q) /\ a + 0 = a /\ c + 0 = c
    BY <1>0, <1>1
  <2>2. f[a] \in Nat /\ g[c] \in Nat
    BY <1>1, <2>1
  <2>3. f[a] + g[c] = g[c] + f[a]
    BY <2>2
  <2> QED BY <2>1, <2>3
<1>3. ASSUME NEW n \in T PROVE n + 1 \in T
  <2>1. SUFFICES ASSUME n + 1 <= m PROVE f[a + (n + 1)] + g[c] = g[c + (n + 1)] + f[a]
    OBVIOUS
  <2>2. f[a + n] + g[c] = g[c + n] + f[a]
    BY <1>0, <2>1
  <2>3. /\ a + n \in 0 .. Len(p) - 1 /\ c + n \in 0 .. Len(q) - 1
        /\ a + n \in 0 .. Len(p) /\ c + n \in 0 .. Len(q) /\ a \in 0 .. Len(p) /\ c \in 0 .. Len(q)
        /\ a + (n + 1) = (a + n) + 1 /\ c + (n + 1) = (c + n) + 1 /\ n + 1 \in 1 .. m
        /\ (a + n) + 1 \in 1 .. Len(p)
    BY <1>0, <1>1, <2>1
  <2> DEFINE x == Cost(p[(a + n) + 1])
  <2>4. f[a + (n + 1)] = f[a + n] + x /\ x \in Nat
    <3>1. p[(a + n) + 1] \in Path!Vias
      BY <2>3
    <3> QED BY <1>1, <2>3, <3>1, CostType
  <2>5. g[c + (n + 1)] = g[c + n] + x
    <3>1. q[c + (n + 1)] = p[a + (n + 1)]
      BY <1>0, <2>3
    <3> QED BY <1>1, <2>3, <3>1
  <2>6. f[a + n] \in Nat /\ g[c + n] \in Nat /\ f[a] \in Nat /\ g[c] \in Nat
    BY <1>1, <2>3
  <2> DEFINE u == f[a + n]
             v == g[c + n]
             w == f[a]
             y == g[c]
  <2>7. u \in Nat /\ v \in Nat /\ w \in Nat /\ y \in Nat /\ x \in Nat /\ u + y = v + w
    BY <2>2, <2>4, <2>6
  <2> HIDE DEF x, u, v, w, y
  <2>8. (u + x) + y = (v + x) + w
    BY <2>7
  <2> QED BY <2>4, <2>5, <2>8, Zenon DEF u, v, w, y
<1>4. T = Nat
  <2> HIDE DEF T
  <2> QED BY <1>2, <1>3, Induction DEF T
<1>5. m \in T
  <2> HIDE DEF T
  <2> QED BY <1>0, <1>4
<1>6. m <= m
  BY <1>0
<1> QED BY <1>5, <1>6

\* A relay uses one hop: what comes before the target and after it stays, and
\* the target asks for one more than what it leaves.
LEMMA RelayUses ==
    ASSUME PathInv, NEW s \in Digis, Path!Relay(s)
    PROVE  Path!HopsLeft(path) \in Nat /\ Path!HopsLeft(path)' \in Nat
           /\ Path!HopsLeft(path) = Path!HopsLeft(path)' + 1
<1> DEFINE k == UsedUp
           l == Len(path)
           v == path[k + 1]
<1>1. PICK r \in Seq(Path!Vias) :
             /\ k \in Nat /\ k < l /\ v \in Path!Vias /\ ~v.used
             /\ Path!Matches(s, v) /\ r = Path!Remainder(s, v)
             /\ Places(Path!Vias, path', path, k, Path!Mine(s), r)
  BY RelayedPath
<1>2. PICK q : q = path'
  OBVIOUS
<1>3. PICK f : f = Path!Hops(path)
  OBVIOUS
<1>4. PICK g : g = Path!Hops(q)
  OBVIOUS
<1> DEFINE n == Len(r)
<1>5. /\ path \in Seq(Path!Vias) /\ l \in Nat /\ q \in Seq(Path!Vias) /\ Len(q) = l + n /\ n \in Nat
      /\ \A i \in 1 .. k : q[i] = path[i]
      /\ q[k + 1] = Path!Mine(s)
      /\ \A j \in 1 .. n : q[k + 1 + j] = r[j]
      /\ \A j \in 1 .. l - k - 1 : q[k + 1 + n + j] = path[k + 1 + j]
  BY <1>1, <1>2 DEF Places, PathInv
<1>6. Sums(path, f) /\ Sums(q, g)
  BY <1>3, <1>4, <1>5, HopsAre
<1>7. Path!HopsLeft(path) = f[l] /\ Path!HopsLeft(path)' = g[l + n]
  <2>1. Path!HopsLeft(path)' = Path!Hops(path')[Len(path')]
    BY DEF Path!HopsLeft, Path!Hops
  <2> QED BY <1>2, <1>3, <1>4, <1>5, <2>1 DEF Path!HopsLeft
<1> HIDE DEF k, l, v, n
<1>8. /\ \A i \in 0 .. l : f[i] \in Nat
      /\ \A i \in 0 .. l + n : g[i] \in Nat
      /\ f[0] = 0 /\ g[0] = 0
      /\ \A i \in 0 .. l - 1 : f[i + 1] = f[i] + Cost(path[i + 1])
      /\ \A i \in 0 .. l + n - 1 : g[i + 1] = g[i] + Cost(q[i + 1])
  <2>1. /\ f \in [0 .. l -> Nat] /\ f[0] = 0
        /\ \A i \in 0 .. l - 1 : f[i + 1] = f[i] + Cost(path[i + 1])
    BY <1>6 DEF Sums, l
  <2>2. /\ g \in [0 .. Len(q) -> Nat] /\ g[0] = 0
        /\ \A i \in 0 .. Len(q) - 1 : g[i + 1] = g[i] + Cost(q[i + 1])
    BY <1>6 DEF Sums
  <2>3. /\ g \in [0 .. l + n -> Nat] /\ g[0] = 0
        /\ \A i \in 0 .. l + n - 1 : g[i + 1] = g[i] + Cost(q[i + 1])
    <3>1. Len(q) = l + n
      BY <1>5
    <3> QED BY <2>2, <3>1
  <2>4. (\A i \in 0 .. l : f[i] \in Nat) /\ \A i \in 0 .. l + n : g[i] \in Nat
    BY <2>1, <2>3
  <2> QED BY <2>1, <2>3, <2>4, Zenon
<1>9. k \in Nat /\ l \in Nat /\ n \in Nat /\ k < l
  BY <1>1, <1>5
<1>10. f[k] = g[k]
  <2>1. \A j \in 1 .. k : q[0 + j] = path[0 + j]
    BY <1>5, <1>9
  <2>2. 0 \in Nat /\ 0 + k <= Len(path) /\ 0 + k <= Len(q)
    BY <1>5, <1>9 DEF l
  <2>3. f[0 + k] + g[0] = g[0 + k] + f[0]
    <3>1. Alike(path, 0, q, 0, k)
      BY <1>9, <2>1, <2>2 DEF Alike
    <3> QED BY <1>5, <1>6, <3>1, SameHops
  <2>4. 0 + k = k /\ k \in 0 .. l /\ k \in 0 .. l + n
    BY <1>9
  <2>5. f[k] \in Nat /\ g[k] \in Nat
    BY <1>8, <2>4
  <2> QED BY <1>8, <2>3, <2>4, <2>5
<1>11. f[k + 1] = f[k] + Cost(v)
  <2>1. k \in 0 .. l - 1
    BY <1>9
  <2> QED BY <1>8, <2>1 DEF v
<1>12. g[k + 1] = g[k]
  <2>1. k \in 0 .. l + n - 1 /\ k \in 0 .. l + n
    BY <1>9
  <2>2. Cost(q[k + 1]) = 0
    BY <1>5 DEF Cost, Path!Mine
  <2>3. g[k] \in Nat
    BY <1>8, <2>1
  <2> QED BY <1>8, <2>1, <2>2, <2>3
<1>13. g[k + 1 + n] + 1 = g[k + 1] + Cost(v)
  <2>1. v.call \in Wide => v.call # s
    BY RulesAssumption DEF Path!Sensible
  <2>2. CASE v.call = s \/ v.n = 1
    <3>1. r = <<>>
      BY <1>1, <2>2 DEF Path!Remainder
    <3>2. n = 0
      BY <3>1 DEF n
    <3>3. Cost(v) = 1
      BY <1>1, <2>1, <2>2 DEF Cost, Path!Matches
    <3>4. k + 1 + n = k + 1
      BY <1>9, <3>2
    <3> QED BY <3>3, <3>4
  <2>3. CASE ~(v.call = s \/ v.n = 1)
    <3>1. r = <<[v EXCEPT !.n = @ - 1]>>
      BY <1>1, <2>3 DEF Path!Remainder
    <3>2. n = 1 /\ r[1] = [v EXCEPT !.n = @ - 1]
      BY <3>1 DEF n
    <3>3. q[(k + 1) + 1] = r[1]
      BY <1>5, <3>2
    <3>4. v.call \in Wide /\ v.n \in Nat /\ v.n > 1
      BY <1>1, <2>3 DEF Path!Matches, Path!Vias
    <3>5. Cost(v) = v.n /\ Cost(r[1]) = v.n - 1
      BY <1>1, <3>2, <3>4 DEF Cost, Path!Vias
    <3>6. k + 1 \in 0 .. l + n - 1 /\ k + 1 \in 0 .. l + n
      BY <1>9, <3>2
    <3>7. g[(k + 1) + 1] = g[k + 1] + (v.n - 1)
      BY <1>8, <3>3, <3>5, <3>6
    <3>8. g[k + 1] \in Nat
      BY <1>8, <3>6
    <3> QED BY <3>2, <3>4, <3>5, <3>7, <3>8
  <2> QED BY <2>2, <2>3
<1>14. f[l] + g[k + 1 + n] = g[l + n] + f[k + 1]
  <2> DEFINE m == l - k - 1
             c == k + 1 + n
  <2>1. /\ k + 1 \in Nat /\ c \in Nat /\ m \in Nat
        /\ (k + 1) + m = l /\ c + m = l + n
    BY <1>9
  <2>2. \A j \in 1 .. m : q[c + j] = path[(k + 1) + j]
    BY <1>5
  <2> HIDE DEF m, c
  <2>3. (k + 1) + m <= Len(path) /\ c + m <= Len(q)
    BY <1>5, <1>9, <2>1 DEF l
  <2>4. f[(k + 1) + m] + g[c] = g[c + m] + f[k + 1]
    <3>1. Alike(path, k + 1, q, c, m)
      BY <2>1, <2>2, <2>3 DEF Alike
    <3> QED BY <1>5, <1>6, <3>1, SameHops
  <2> QED BY <2>1, <2>4 DEF c
<1>15. /\ f[l] \in Nat /\ f[k] \in Nat /\ f[k + 1] \in Nat
       /\ g[k] \in Nat /\ g[k + 1] \in Nat /\ g[k + 1 + n] \in Nat /\ g[l + n] \in Nat
       /\ Cost(v) \in Nat
  <2>1. /\ l \in 0 .. l /\ k \in 0 .. l /\ k + 1 \in 0 .. l
        /\ k \in 0 .. l + n /\ k + 1 \in 0 .. l + n /\ k + 1 + n \in 0 .. l + n /\ l + n \in 0 .. l + n
    BY <1>9
  <2> QED BY <1>1, <1>8, <2>1, CostType
<1>16. f[l] = g[l + n] + 1
  <2> DEFINE a == f[l]
             b == f[k]
             c == f[k + 1]
             d == g[k]
             e == g[k + 1]
             h == g[k + 1 + n]
             i == g[l + n]
             x == Cost(v)
  <2>1. /\ a \in Nat /\ b \in Nat /\ c \in Nat /\ d \in Nat /\ e \in Nat /\ h \in Nat /\ i \in Nat /\ x \in Nat
        /\ b = d /\ c = b + x /\ e = d /\ h + 1 = e + x /\ a + h = i + c
    BY <1>10, <1>11, <1>12, <1>13, <1>14, <1>15
  <2> HIDE DEF a, b, c, d, e, h, i, x
  <2>2. a = i + 1
    BY <2>1
  <2> QED BY <2>2 DEF a, i
<1> QED BY <1>7, <1>15, <1>16

HopsInv == PathInv /\ Path!HopsLeft(path) \in Nat /\ Path!HopsConserved

\* The path of a packet tells which stations relayed it and in which order, and
\* none does twice; and each relay uses exactly one of the hops the sender asked
\* for: for any stations, any number of them, any bounds on hops and any path
\* the packet may be sent with.
THEOREM PathCorrect == RulesSpec => []PathTellsHistory
<1>1. Path!Init => HopsInv
  <2> SUFFICES ASSUME Path!Init PROVE HopsInv
    OBVIOUS
  <2>1. PathInv /\ path = origin /\ relays = <<>> /\ Len(relays) = 0
    BY PathInit DEF Path!Init
  <2>2. Sums(path, Path!Hops(path)) /\ Len(path) \in Nat
    BY <2>1, HopsAre DEF PathInv
  <2>3. Path!HopsLeft(path) \in Nat
    <3>1. Path!Hops(path) \in [0 .. Len(path) -> Nat] /\ Len(path) \in 0 .. Len(path)
      BY <2>2 DEF Sums
    <3> QED BY <3>1, Zenon DEF Path!HopsLeft
  <2>4. Path!HopsLeft(path) + Len(relays) = Path!HopsLeft(origin)
    <3>1. Path!HopsLeft(path) + 0 = Path!HopsLeft(path)
      BY <2>3
    <3> QED BY <2>1, <3>1, Zenon
  <2> QED BY <2>1, <2>3, <2>4 DEF HopsInv, Path!HopsConserved
<1>2. ASSUME HopsInv, NEW s \in Digis, Path!Relay(s) PROVE HopsInv'
  <2>1. PathInv'
    BY <1>2, RelayStep DEF HopsInv
  <2> DEFINE a == Path!HopsLeft(path)
             b == Path!HopsLeft(path)'
             n == Len(relays)
             t == Path!HopsLeft(origin)
  <2>2. a \in Nat /\ b \in Nat /\ a = b + 1
    BY <1>2, RelayUses DEF HopsInv
  <2>3. Len(relays') = n + 1 /\ n \in Nat /\ a + n = t /\ t' = t
    BY <1>2, AppendElements DEF Path!Relay, HopsInv, Path!HopsConserved, PathInv, Path!HopsLeft, Path!Hops
  <2> HIDE DEF a, b, n, t
  <2>4. b + (n + 1) = t
    BY <2>2, <2>3
  <2>5. Path!HopsLeft(path)' + Len(relays') = Path!HopsLeft(origin)'
    BY <2>3, <2>4, Zenon DEF b, t
  <2> QED BY <2>1, <2>2, <2>5 DEF HopsInv, Path!HopsConserved, b
<1>3. HopsInv /\ UNCHANGED Path!vars => HopsInv'
  <2>1. UNCHANGED Path!vars => Path!HopsLeft(path)' = Path!HopsLeft(path) /\ Path!HopsLeft(origin)' = Path!HopsLeft(origin)
    BY DEF Path!vars, Path!HopsLeft, Path!Hops
  <2> QED BY <2>1, PathStep DEF HopsInv, Path!HopsConserved, Path!vars
<1>4. HopsInv /\ [Path!Next]_Path!vars => HopsInv'
  BY <1>2, <1>3 DEF Path!Next, Path!Gone
<1>5. HopsInv => PathTellsHistory
  BY PathGives DEF HopsInv, PathTellsHistory, Path!PathTellsHistory
<1> QED BY <1>1, <1>4, <1>5, PathApart, PTL DEF Path!Spec

-----------------------------------------------------------------------------
(* The filter chain.                                                        *)

LEMMA ChainApart == RulesSpec => Chain!Init /\ [][Chain!Next]_Chain!vars
<1>1. RulesInit => Chain!Init
  BY DEF RulesInit
<1>2. [RulesNext]_rulesVars => [Chain!Next]_Chain!vars
  BY DEF RulesNext, rulesVars, AllAdded, AtGates, OnPath, InDupes, InQueue, InLimit, InChain,
         filterVars, Chain!vars
<1> QED BY <1>1, <1>2, PTL DEF RulesSpec

Letters == DOMAIN Upper
Capitals == {Upper[l] : l \in Letters}

LEMMA UpperWord ==
    ASSUME NEW w \in Seq(Letters)
    PROVE  /\ Chain!to_uppercase(w) \in Seq(Capitals) /\ Len(Chain!to_uppercase(w)) = Len(w)
           /\ \A i \in 1 .. Len(w) : Chain!to_uppercase(w)[i] = Upper[w[i]]
<1>1. Len(w) \in Nat /\ DOMAIN w = 1 .. Len(w) /\ \A i \in 1 .. Len(w) : w[i] \in Letters
  OBVIOUS
<1>2. Chain!to_uppercase(w) = [i \in 1 .. Len(w) |-> Upper[w[i]]]
  BY <1>1 DEF Chain!to_uppercase
<1>3. \A i \in 1 .. Len(w) : Upper[w[i]] \in Capitals
  BY <1>1 DEF Capitals
<1> HIDE DEF Capitals
<1>4. [i \in 1 .. Len(w) |-> Upper[w[i]]] \in [1 .. Len(w) -> Capitals]
  BY <1>3
<1>5. ASSUME NEW q, q \in [1 .. Len(w) -> Capitals] PROVE q \in Seq(Capitals) /\ Len(q) = Len(w)
  BY <1>1, <1>5
<1> QED BY <1>2, <1>4, <1>5

\* In upper case v begins w, if it does in any.
LEMMA UpperBegins ==
    ASSUME NEW v \in Seq(Letters), NEW w \in Seq(Letters)
    PROVE  Chain!IsPrefix(Chain!to_uppercase(v), Chain!to_uppercase(w)) <=> Chain!Begins(v, w)
<1> DEFINE a == Chain!to_uppercase(v)
           b == Chain!to_uppercase(w)
           m == Len(v)
           n == Len(w)
<1>1. /\ a \in Seq(Capitals) /\ b \in Seq(Capitals) /\ Len(a) = m /\ Len(b) = n
      /\ \A i \in 1 .. m : a[i] = Upper[v[i]]
      /\ \A i \in 1 .. n : b[i] = Upper[w[i]]
  BY UpperWord
<1>2. m \in Nat /\ n \in Nat
  OBVIOUS
<1>3. \A i \in 1 .. n : w[i] \in Letters
  OBVIOUS
<1> HIDE DEF a, b, m, n
<1>4. CASE m <= n
  <2> DEFINE c == SubSeq(a, 1, m)
             d == SubSeq(b, 1, m)
             u == SubSeq(w, 1, m)
             e == Chain!to_uppercase(u)
  <2>1. \A i \in 1 .. m : i \in 1 .. n /\ a[i] \in Capitals /\ b[i] \in Capitals /\ w[i] \in Letters
    <3>1. \A i \in 1 .. m : i \in 1 .. n
      BY <1>2, <1>4
    <3> QED BY <1>1, <1>3, <3>1
  <2>2. /\ c \in Seq(Capitals) /\ Len(c) = m /\ \A i \in 1 .. m : c[i] = a[i]
    BY <1>2, <2>1, SubSeqProperties
  <2>3. /\ d \in Seq(Capitals) /\ Len(d) = m /\ \A i \in 1 .. m : d[i] = b[i]
    BY <1>2, <2>1, SubSeqProperties
  <2>4. /\ u \in Seq(Letters) /\ Len(u) = m /\ \A i \in 1 .. m : u[i] = w[i]
    BY <1>2, <2>1, SubSeqProperties
  <2> HIDE DEF c, d, u
  <2>5. e \in Seq(Capitals) /\ Len(e) = m /\ \A i \in 1 .. m : e[i] = Upper[w[i]]
    BY <2>4, UpperWord
  <2> HIDE DEF e
  <2>6. c = d <=> \A i \in 1 .. m : a[i] = b[i]
    BY <2>2, <2>3, SeqEqual
  <2>7. a = e <=> \A i \in 1 .. m : a[i] = b[i]
    <3>1. \A i \in 1 .. m : e[i] = b[i]
      BY <1>1, <2>1, <2>5
    <3>2. a = e <=> \A i \in 1 .. m : a[i] = e[i]
      BY <1>1, <2>5, SeqEqual
    <3> QED BY <3>1, <3>2
  <2>8. Chain!IsPrefix(a, b) <=> c = d
    BY <1>1, <1>2, <1>4 DEF Chain!IsPrefix, c, d
  <2>9. Chain!Begins(v, w) <=> a = e
    BY <1>4 DEF Chain!Begins, Chain!Same, a, e, u, m, n
  <2> QED BY <2>6, <2>7, <2>8, <2>9 DEF a, b
<1>5. CASE ~(m <= n)
  <2>1. ~Chain!IsPrefix(a, b)
    BY <1>1, <1>5 DEF Chain!IsPrefix
  <2>2. ~Chain!Begins(v, w)
    BY <1>5 DEF Chain!Begins, m, n
  <2> QED BY <2>1, <2>2 DEF a, b
<1> QED BY <1>4, <1>5

LEMMA UpperEnd ==
    ASSUME NEW w \in Seq(Letters), w # <<>>
    PROVE  /\ Chain!Front(w) \in Seq(Letters)
           /\ Chain!Last(Chain!to_uppercase(w)) = "*" <=> Chain!Last(w) = "*"
           /\ Chain!Front(Chain!to_uppercase(w)) = Chain!to_uppercase(Chain!Front(w))
<1> DEFINE u == Chain!to_uppercase(w)
           n == Len(w)
<1>1. /\ n \in Nat \ {0} /\ \A i \in 1 .. n : w[i] \in Letters
  OBVIOUS
<1>2. /\ u \in Seq(Capitals) /\ Len(u) = n /\ \A i \in 1 .. n : u[i] = Upper[w[i]]
  BY UpperWord
<1> HIDE DEF u, n
<1>3. Chain!Last(u) = "*" <=> Chain!Last(w) = "*"
  <2>1. n \in 1 .. n
    BY <1>1
  <2>2. Chain!Last(u) = Upper[w[n]] /\ Chain!Last(w) = w[n] /\ w[n] \in Letters
    BY <1>1, <1>2, <2>1 DEF Chain!Last, n
  <2> QED BY <2>2, RulesAssumption DEF Chain!Sensible, Letters
<1> DEFINE f == SubSeq(w, 1, n - 1)
           g == SubSeq(u, 1, n - 1)
           e == Chain!to_uppercase(f)
<1>4. n - 1 \in Nat /\ \A i \in 1 .. n - 1 : i \in 1 .. n /\ w[i] \in Letters /\ u[i] \in Capitals
  <2>1. n - 1 \in Nat /\ \A i \in 1 .. n - 1 : i \in 1 .. n
    BY <1>1
  <2> QED BY <1>1, <1>2, <2>1
<1>5. f \in Seq(Letters) /\ Len(f) = n - 1 /\ \A i \in 1 .. n - 1 : f[i] = w[i]
  BY <1>4, SubSeqProperties
<1>6. g \in Seq(Capitals) /\ Len(g) = n - 1 /\ \A i \in 1 .. n - 1 : g[i] = u[i]
  BY <1>4, SubSeqProperties
<1> HIDE DEF f, g
<1>7. e \in Seq(Capitals) /\ Len(e) = n - 1 /\ \A i \in 1 .. n - 1 : e[i] = Upper[f[i]]
  BY <1>5, UpperWord
<1> HIDE DEF e
<1>8. g = e
  <2>1. \A i \in 1 .. n - 1 : g[i] = e[i]
    BY <1>2, <1>4, <1>5, <1>6, <1>7
  <2> QED BY <1>6, <1>7, <2>1, SeqEqual
<1>9. Chain!Front(w) = f /\ Chain!Front(u) = g
  BY <1>2 DEF Chain!Front, f, g, n
<1> QED BY <1>3, <1>5, <1>8, <1>9 DEF u, e

\* A list of words, in a filter, names what its specification names.
LEMMA ListNames ==
    ASSUME NEW items \in Seq(Seq(Letters)), NEW call \in Seq(Letters)
    PROVE  /\ Chain!matches_budlist(call, Chain!parse_slash_list(items)) <=>
                  \E i \in DOMAIN items :
                      /\ items[i] # <<>>
                      /\ IF Chain!Last(items[i]) = "*" THEN Chain!Begins(Chain!Front(items[i]), call)
                         ELSE Chain!Same(items[i], call)
           /\ Chain!matches_prefix(call, Chain!parse_slash_list(items)) <=>
                  \E i \in DOMAIN items : items[i] # <<>> /\ Chain!Begins(items[i], call)
<1> DEFINE Bud(q) == IF Chain!Last(q) = "*" THEN Chain!IsPrefix(Chain!Front(q), Chain!to_uppercase(call))
                     ELSE Chain!to_uppercase(call) = q
           Pre(q) == Chain!IsPrefix(q, Chain!to_uppercase(call))
           Words == {items[i] : i \in DOMAIN items} \ {<<>>}
<1>1. Chain!parse_slash_list(items) = {Chain!to_uppercase(w) : w \in Words}
  BY DEF Chain!parse_slash_list, Chain!Range
<1>2. \A w \in Words : w \in Seq(Letters) /\ w # <<>>
  OBVIOUS
<1>3. ASSUME NEW w \in Words
      PROVE  /\ Pre(Chain!to_uppercase(w)) <=> Chain!Begins(w, call)
             /\ Bud(Chain!to_uppercase(w)) <=> IF Chain!Last(w) = "*" THEN Chain!Begins(Chain!Front(w), call)
                                               ELSE Chain!Same(w, call)
  <2>1. w \in Seq(Letters) /\ w # <<>>
    BY <1>2
  <2>2. Pre(Chain!to_uppercase(w)) <=> Chain!Begins(w, call)
    BY <2>1, UpperBegins
  <2>3. /\ Chain!Front(w) \in Seq(Letters)
        /\ Chain!Last(Chain!to_uppercase(w)) = "*" <=> Chain!Last(w) = "*"
        /\ Chain!Front(Chain!to_uppercase(w)) = Chain!to_uppercase(Chain!Front(w))
    BY <2>1, UpperEnd
  <2>4. Chain!IsPrefix(Chain!to_uppercase(Chain!Front(w)), Chain!to_uppercase(call))
            <=> Chain!Begins(Chain!Front(w), call)
    BY <2>3, UpperBegins
  <2>5. Chain!to_uppercase(call) = Chain!to_uppercase(w) <=> Chain!Same(w, call)
    BY DEF Chain!Same
  <2> QED BY <2>2, <2>3, <2>4, <2>5, Zenon
<1>4. Chain!matches_budlist(call, Chain!parse_slash_list(items)) <=> \E w \in Words : Bud(Chain!to_uppercase(w))
  BY <1>1, Zenon DEF Chain!matches_budlist
<1>5. Chain!matches_prefix(call, Chain!parse_slash_list(items)) <=> \E w \in Words : Pre(Chain!to_uppercase(w))
  BY <1>1, Zenon DEF Chain!matches_prefix
<1> HIDE DEF Bud, Pre
<1> QED BY <1>3, <1>4, <1>5, Zenon

\* What is parsed names what its specification names.
LEMMA ParsedNames ==
    ASSUME NEW spec \in Specs, NEW f \in Chain!parse_filter(spec), NEW p \in Checked
    PROVE  Chain!Hits(f, p) <=> Chain!Names(spec, p)
<1>1. p.source \in Seq(Letters) /\ p.dest \in Seq(Letters)
  BY RulesAssumption DEF Chain!Sensible, Letters
<1>2. CASE spec.kind \in Chain!Lists
  <2>1. f = [kind |-> spec.kind, items |-> Chain!parse_slash_list(spec.items)]
    <3>1. spec.kind \notin Chain!Expressions
      BY <1>2 DEF Chain!Lists, Chain!Expressions
    <3> QED BY <1>2, <3>1 DEF Chain!parse_filter
  <2>2. f.kind = spec.kind /\ f.items = Chain!parse_slash_list(spec.items)
    BY <2>1
  <2>3. spec.items \in Seq(Seq(Letters))
    BY <1>2, RulesAssumption DEF Chain!Sensible, Chain!Lists, Letters
  <2>4. CASE spec.kind \in {"b", "-b"}
    <3>1. Chain!Hits(f, p) = Chain!matches_budlist(p.source, f.items)
      BY <2>2, <2>4 DEF Chain!Hits
    <3>2. Chain!Names(spec, p) =
              \E i \in DOMAIN spec.items :
                  /\ spec.items[i] # <<>>
                  /\ IF Chain!Last(spec.items[i]) = "*" THEN Chain!Begins(Chain!Front(spec.items[i]), p.source)
                     ELSE Chain!Same(spec.items[i], p.source)
      BY <2>4 DEF Chain!Names
    <3> QED BY <1>1, <2>2, <2>3, <3>1, <3>2, ListNames
  <2>5. CASE spec.kind \in {"p", "-p"}
    <3>1. Chain!Hits(f, p) = Chain!matches_prefix(p.dest, f.items)
      BY <2>2, <2>5 DEF Chain!Hits
    <3>2. Chain!Names(spec, p) =
              \E i \in DOMAIN spec.items : spec.items[i] # <<>> /\ Chain!Begins(spec.items[i], p.dest)
      BY <2>5 DEF Chain!Names
    <3> QED BY <1>1, <2>2, <2>3, <3>1, <3>2, ListNames
  <2> QED BY <1>2, <2>4, <2>5 DEF Chain!Lists
<1>3. CASE spec.kind \in Chain!Expressions
  <2>1. spec.kind \notin Chain!Lists
    BY <1>3 DEF Chain!Lists, Chain!Expressions
  <2>2. f = [kind |-> spec.kind, items |-> spec.matches]
    BY <1>3, <2>1 DEF Chain!parse_filter
  <2>3. Chain!Names(spec, p) = Chain!Hits([kind |-> spec.kind, items |-> spec.matches], p)
    BY <2>1 DEF Chain!Names, Chain!Lists
  <2> QED BY <2>2, <2>3
<1>4. CASE spec.kind \notin Chain!Lists \cup Chain!Expressions
  BY <1>4 DEF Chain!parse_filter
<1> QED BY <1>2, <1>3, <1>4

LEMMA ParsedKind ==
    ASSUME NEW spec \in Specs, NEW f \in Chain!parse_filter(spec)
    PROVE  Chain!parse_filter(spec) = {f} /\ (Chain!Positive(f) <=> Chain!Positive(spec))
<1>1. CASE spec.kind \in Chain!Lists
  <2>1. spec.kind \notin Chain!Expressions
    BY <1>1 DEF Chain!Lists, Chain!Expressions
  <2> QED BY <1>1, <2>1 DEF Chain!parse_filter, Chain!Positive
<1>2. CASE spec.kind \in Chain!Expressions
  <2>1. spec.kind \notin Chain!Lists
    BY <1>2 DEF Chain!Lists, Chain!Expressions
  <2> QED BY <1>2, <2>1 DEF Chain!parse_filter, Chain!Positive
<1>3. CASE spec.kind \notin Chain!Lists \cup Chain!Expressions
  BY <1>3 DEF Chain!parse_filter
<1> QED BY <1>1, <1>2, <1>3

ChainInv ==
    /\ specs \in Seq(Specs)
    /\ filters \in Seq(UNION {Chain!parse_filter(s) : s \in Specs})

\* What was added is the last of the chain and of the specifications.
LEMMA Added ==
    ASSUME ChainInv, NEW spec \in Specs, Chain!add_filter(spec)
    PROVE  /\ ChainInv' /\ Chain!Last(specs') = spec
           /\ filters' # filters => \E f \in Chain!parse_filter(spec) : filters' = Append(filters, f)
<1> DEFINE Parsed == UNION {Chain!parse_filter(s) : s \in Specs}
<1>1. /\ specs \in Seq(Specs) /\ filters \in Seq(Parsed) /\ specs' = Append(specs, spec)
      /\ filters' = IF Chain!parse_filter(spec) = {} THEN filters
                    ELSE Append(filters, CHOOSE f \in Chain!parse_filter(spec) : TRUE)
  BY DEF ChainInv, Chain!add_filter
<1>2. Append(specs, spec) \in Seq(Specs) /\ Chain!Last(Append(specs, spec)) = spec
  <2>1. /\ Append(specs, spec) \in Seq(Specs) /\ Len(Append(specs, spec)) = Len(specs) + 1
        /\ Append(specs, spec)[Len(specs) + 1] = spec
    BY <1>1, AppendElements
  <2> QED BY <2>1, Zenon DEF Chain!Last
<1>3. CASE Chain!parse_filter(spec) = {}
  BY <1>1, <1>2, <1>3 DEF ChainInv
<1>4. CASE Chain!parse_filter(spec) # {}
  <2>1. PICK f \in Chain!parse_filter(spec) : f = CHOOSE g \in Chain!parse_filter(spec) : TRUE
    BY <1>4
  <2>2. f \in Parsed /\ filters' = Append(filters, f)
    BY <1>1, <1>4, <2>1
  <2> HIDE DEF Parsed
  <2>3. Append(filters, f) \in Seq(Parsed)
    BY <1>1, <2>2
  <2> QED BY <1>1, <1>2, <2>2, <2>3 DEF ChainInv, Parsed
<1> QED BY <1>3, <1>4

LEMMA VerdictStep ==
    ASSUME ChainInv, NEW spec \in Specs, Chain!add_filter(spec)
    PROVE  Chain!VerdictFollows
<1> SUFFICES ASSUME filters' # filters PROVE Chain!VerdictFollows
  BY DEF Chain!VerdictFollows
<1>1. PICK f \in Chain!parse_filter(spec) : filters' = Append(filters, f)
  BY Added
<1>2. Chain!Last(specs') = spec
  BY Added
<1> DEFINE n == Len(filters)
           Pos(i) == Chain!Positive(filters[i])
           Hit(i, p) == Chain!Hits(filters[i], p)
           Spared(p) == \A i \in 1 .. n : ~Pos(i) => ~Hit(i, p)
           Open == \A i \in 1 .. n : ~Pos(i)
           Let(p) == \E i \in 1 .. n : Pos(i) /\ Hit(i, p)
           Named(p) == Chain!Names(spec, p)
           On == Chain!Positive(spec)
<1>3. /\ n \in Nat /\ DOMAIN filters = 1 .. n /\ DOMAIN filters' = (1 .. n) \cup {n + 1}
      /\ filters'[n + 1] = f /\ \A i \in 1 .. n : filters'[i] = filters[i]
  <2>1. filters \in Seq(UNION {Chain!parse_filter(s) : s \in Specs}) /\ f \in UNION {Chain!parse_filter(s) : s \in Specs}
    BY DEF ChainInv
  <2>2. /\ n \in Nat /\ DOMAIN filters = 1 .. n /\ DOMAIN Append(filters, f) = 1 .. n + 1
        /\ Append(filters, f)[n + 1] = f /\ \A i \in 1 .. n : Append(filters, f)[i] = filters[i]
    BY <2>1
  <2>3. 1 .. n + 1 = (1 .. n) \cup {n + 1}
    BY <2>2
  <2> QED BY <1>1, <2>2, <2>3
<1>4. \A p \in Checked : Chain!check(filters, p) <=> Spared(p) /\ (Open \/ Let(p))
  BY <1>3 DEF Chain!check
<1>5. Chain!Positive(f) <=> On
  BY ParsedKind
<1>6. \A p \in Checked : Chain!Hits(f, p) <=> Named(p)
  BY ParsedNames
<1>7. \A p \in Checked :
          Chain!check(filters', p) <=>
              /\ Spared(p) /\ (~On => ~Named(p))
              /\ (Open /\ ~On) \/ Let(p) \/ (On /\ Named(p))
  BY <1>3, <1>5, <1>6 DEF Chain!check
<1> DEFINE admits == {i \in DOMAIN filters : Chain!Positive(filters[i])}
<1>8. (admits = {} <=> Open) /\ (admits = DOMAIN filters => \A p \in Checked : Spared(p))
  BY <1>3
<1>9. Open => \A p \in Checked : ~Let(p)
  OBVIOUS
<1> HIDE DEF admits, n, Spared, Open, Let, Named, On
<1> DEFINE passes == {p \in Checked : Chain!check(filters, p)}
           passed == {p \in Checked : Chain!check(filters', p)}
           named  == {p \in Checked : Named(p)}
<1>10. ~On => passed = passes \ named
  BY <1>4, <1>7
<1>11. On /\ admits = {} => passed = passes \cap named
  BY <1>4, <1>7, <1>8, <1>9
<1>12. On /\ admits # {} => passes \subseteq passed /\ passed \subseteq passes \cup named
  BY <1>4, <1>7, <1>8
<1>13. On /\ admits # {} /\ admits = DOMAIN filters => passed = passes \cup named
  BY <1>4, <1>7, <1>8
<1> HIDE DEF passes, passed, named
<1> QED BY <1>2, <1>10, <1>11, <1>12, <1>13, Zenon DEF Chain!VerdictFollows, passes, passed, named, admits, On, Named

\* What a filter does to the verdicts of the chain follows from its kind and
\* from what it names, for any specifications, packets and alphabet, and
\* wherever in the chain it comes.
THEOREM VerdictsCorrect == RulesSpec => VerdictsFollow
<1>1. Chain!Init => ChainInv
  <2> SUFFICES ASSUME filters = <<>>, specs = <<>> PROVE ChainInv
    BY DEF Chain!Init
  <2> QED BY EmptyType DEF ChainInv
<1>2. ChainInv /\ [Chain!Next]_Chain!vars => ChainInv'
  BY Added DEF Chain!Next, Chain!vars, ChainInv
<1>3. ChainInv /\ [Chain!Next]_Chain!vars => [Chain!VerdictFollows]_Chain!vars
  BY VerdictStep DEF Chain!Next
<1> QED BY <1>1, <1>2, <1>3, ChainApart, PTL DEF VerdictsFollow, Chain!VerdictsFollow
=============================================================================
