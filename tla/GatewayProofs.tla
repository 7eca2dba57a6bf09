---------------------------- MODULE GatewayProofs ----------------------------
(***************************************************************************)
(* Safety of the running program, for any number of interfaces and any      *)
(* channel sizes: types, that packets from APRS-IS are never gated, and     *)
(* that nothing but main's aborts takes the pipeline down.                  *)
(***************************************************************************)
EXTENDS Gateway, SharedLemmas

Origin  == {"rf", "is"}
Written == {"rf", "is", "beacon"}

\* The igate has a line exactly while it is sending.
LineInv == igate = "sending" <=> line # "none"

TypeInv == TypeOK /\ LineInv

-----------------------------------------------------------------------------
(* Types.                                                                   *)

\* What taking from and adding to a bounded queue of the program does.
LEMMA Take ==
    ASSUME NEW S, NEW cap \in Nat, NEW q \in Seq(S), Len(q) <= cap, q # <<>>
    PROVE  Head(q) \in S /\ Tail(q) \in Seq(S) /\ Len(Tail(q)) <= cap
BY TailType, LenProperties

LEMMA Add ==
    ASSUME NEW S, NEW cap \in Nat, NEW q \in Seq(S), Len(q) < cap, NEW x \in S
    PROVE  Append(q, x) \in Seq(S) /\ Len(Append(q, x)) <= cap
OBVIOUS

LEMMA OfferType ==
    ASSUME NEW q \in Seq(Origin), Len(q) <= ConsumerCap,
           NEW alive \in BOOLEAN, NEW p \in Origin
    PROVE  Offer(q, alive, p) \in Seq(Origin) /\ Len(Offer(q, alive, p)) <= ConsumerCap
BY GatewayAssumption, Add DEF Offer

LEMMA TypeInit == Init => TypeInv
<1> SUFFICES ASSUME Init PROVE TypeInv
  OBVIOUS
<1>1. <<>> \in Seq(Origin) /\ <<>> \in Seq(Written) /\ Len(<<>>) = 0
  BY EmptyType
<1> QED BY <1>1, GatewayAssumption DEF Init, TypeInv, TypeOK, LineInv, Origin, Written

LEMMA TypeStep == TypeInv /\ [Next]_vars => TypeInv'
<1> SUFFICES ASSUME TypeInv, [Next]_vars PROVE TypeInv'
  OBVIOUS
<1> USE DEF TypeInv, TypeOK, LineInv, tasks, queues, counts
<1>e. <<>> \in Seq(Origin) /\ <<>> \in Seq(Written) /\ Len(<<>>) = 0
  BY EmptyType
<1>1. ASSUME NEW i \in Interfaces, Hear(i) PROVE TypeInv'
  BY <1>1, GatewayAssumption DEF Hear
<1>2. ASSUME NEW i \in Interfaces, Sent(i) PROVE TypeInv'
  <2>1. source' \in Seq(Origin) /\ Len(source') <= SourceCap
    BY <1>2, Add, GatewayAssumption DEF Sent, Origin
  <2> QED BY <1>2, <2>1 DEF Sent, Origin
<1>3. ASSUME NEW i \in Interfaces, InterfaceStops(i) PROVE TypeInv'
  BY <1>3 DEF InterfaceStops
<1>4. CASE Connects \/ Breaks \/ Reconnects
  <2>1. CASE Connects
    BY <2>1 DEF Connects
  <2>2. CASE Breaks
    BY <2>2 DEF Breaks
  <2>3. CASE Reconnects
    BY <2>3 DEF Reconnects
  <2> QED BY <1>4, <2>1, <2>2, <2>3
<1>5. CASE ClientHears
  <2>1. source' \in Seq(Origin) /\ Len(source') <= SourceCap
    BY <1>5, Add, GatewayAssumption DEF ClientHears, Origin
  <2> QED BY <1>5, <2>1, GatewayAssumption DEF ClientHears, Origin
<1>6. CASE ClientTakes
  <2>1. Head(writeQ) \in Written /\ writeQ' \in Seq(Written) /\ Len(writeQ') <= WriteCap
    BY <1>6, Take, GatewayAssumption DEF ClientTakes, Written
  <2>2. uplinked' \subseteq Written
    BY <1>6, <2>1 DEF ClientTakes, Written
  <2>3. UNCHANGED <<tasks, source, igateQ, dashQ, line, rfs, iss, beacons>>
    BY <1>6 DEF ClientTakes
  <2> QED BY <2>1, <2>2, <2>3 DEF Written
<1>7. CASE ClientStops
  BY <1>7 DEF ClientStops
<1>8. CASE Route
  <2>1. Head(source) \in Origin /\ source' \in Seq(Origin) /\ Len(source') <= SourceCap
    BY <1>8, Take, GatewayAssumption DEF Route, Origin
  <2>2. igateQ' \in Seq(Origin) /\ Len(igateQ') <= ConsumerCap
    BY <1>8, <2>1, OfferType DEF Route, Origin
  <2>3. dashQ' \in Seq(Origin) /\ Len(dashQ') <= ConsumerCap
    BY <1>8, <2>1, OfferType DEF Route, Origin
  <2> QED BY <1>8, <2>1, <2>2, <2>3 DEF Route, Origin
<1>9. CASE RouterEnds
  BY <1>9 DEF RouterEnds
<1>10. CASE DashTakes
  <2>1. dashQ' \in Seq(Origin) /\ Len(dashQ') <= ConsumerCap
    BY <1>10, Take, GatewayAssumption DEF DashTakes, Origin
  <2> QED BY <1>10, <2>1 DEF DashTakes, Origin
<1>11. CASE DashEnds
  BY <1>11 DEF DashEnds
<1>12. CASE IgateSkips \/ IgateGates
  <2>1. igateQ # <<>> /\ igateQ' = Tail(igateQ)
    BY <1>12 DEF IgateSkips, IgateGates
  <2>2. Head(igateQ) \in Origin /\ igateQ' \in Seq(Origin) /\ Len(igateQ') <= ConsumerCap
    BY <2>1, Take, GatewayAssumption DEF Origin
  <2>3. CASE IgateSkips
    BY <2>2, <2>3 DEF IgateSkips, Origin
  <2>4. CASE IgateGates
    BY <2>2, <2>4 DEF IgateGates, Origin
  <2> QED BY <1>12, <2>3, <2>4
<1>13. CASE IgateSends
  <2>1. line \in Written
    BY <1>13 DEF IgateSends, Written
  <2>2. writeQ' \in Seq(Written) /\ Len(writeQ') <= WriteCap
    BY <1>13, <2>1, Add, GatewayAssumption DEF IgateSends, Written
  <2> QED BY <1>13, <2>2 DEF IgateSends, Written
<1>14. CASE IgateEnds
  BY <1>14, <1>e, GatewayAssumption DEF IgateEnds, Origin
<1>15. CASE BeaconFires
  BY <1>15, GatewayAssumption DEF BeaconFires
<1>16. CASE BeaconSends
  <2>1. writeQ' \in Seq(Written) /\ Len(writeQ') <= WriteCap
    BY <1>16, Add, GatewayAssumption DEF BeaconSends, Written
  <2> QED BY <1>16, <2>1 DEF BeaconSends, Written
<1>17. CASE BeaconEnds
  <2>1. beacon' = "ended" /\ UNCHANGED <<config, main, iface, client, router, igate, dash, queues, counts>>
    BY <1>17 DEF BeaconEnds
  <2>2. LineInv'
    BY <2>1
  <2>3. /\ source' = source /\ igateQ' = igateQ /\ dashQ' = dashQ /\ writeQ' = writeQ
        /\ line' = line /\ uplinked' = uplinked /\ rfs' = rfs /\ iss' = iss /\ beacons' = beacons
    BY <2>1
  <2>4. TypeOK'
    BY <2>1, <2>3
  <2> QED BY <2>2, <2>4
<1>18. CASE Interrupt \/ RouterJoined \/ RouterTimesOut
  <2>1. CASE Interrupt
    BY <2>1 DEF Interrupt
  <2>2. CASE RouterJoined \/ RouterTimesOut
    <3>1. Returns
      BY <2>2 DEF RouterJoined, RouterTimesOut
    <3> QED BY <3>1 DEF Returns
  <2> QED BY <1>18, <2>1, <2>2
<1>19. CASE ClientJoined \/ ClientTimesOut
  <2>1. Abort
    BY <1>19 DEF ClientJoined, ClientTimesOut
  <2>2. 0 <= ConsumerCap
    BY GatewayAssumption
  <2> QED BY <2>1, <2>2, <1>e DEF Abort, Origin
<1>20. CASE UNCHANGED vars
  BY <1>20 DEF vars
<1> QED
  BY <1>1, <1>2, <1>3, <1>4, <1>5, <1>6, <1>7, <1>8, <1>9, <1>10, <1>11, <1>12, <1>13,
     <1>14, <1>15, <1>16, <1>17, <1>18, <1>19, <1>20
  DEF Next, InterfaceStep, ClientStep, RouterStep, DashStep, IgateStep, BeaconStep,
      MainStep, Done

LEMMA TypeInvariant == Spec => []TypeInv
  BY TypeInit, TypeStep, PTL DEF Spec

\* Every variable keeps its type, and every channel its capacity, in every
\* configuration.
THEOREM TypeCorrect == Spec => []TypeOK
  BY TypeInvariant, PTL DEF TypeInv

-----------------------------------------------------------------------------
(* The feed from APRS-IS is not a loop.                                     *)

\* Taking a line from the write channel adds no origin to those seen.
LEMMA TakeSees ==
    ASSUME NEW S, NEW q \in Seq(S), q # <<>>
    PROVE  Head(q) \in Range(q) /\ Range(Tail(q)) \subseteq Range(q)
<1>1. /\ Len(q) \in Nat /\ Len(q) > 0 /\ DOMAIN q = 1 .. Len(q) /\ Head(q) = q[1]
      /\ Len(Tail(q)) = Len(q) - 1 /\ DOMAIN Tail(q) = 1 .. Len(q) - 1
      /\ \A i \in 1 .. Len(q) - 1 : Tail(q)[i] = q[i + 1]
  OBVIOUS
<1>2. ASSUME NEW i \in 1 .. Len(q) - 1 PROVE Tail(q)[i] \in Range(q)
  <2>1. i + 1 \in 1 .. Len(q)
    BY <1>1
  <2> QED BY <1>1, <2>1 DEF Range
<1>3. Head(q) \in Range(q)
  BY <1>1 DEF Range
<1> QED BY <1>1, <1>2, <1>3 DEF Range

LEMMA LoopFreeInit == Init => OnlyRadioIsGated
  BY RangeEmpty DEF Init, OnlyRadioIsGated

LEMMA LoopFreeStep == TypeInv /\ OnlyRadioIsGated /\ [Next]_vars => OnlyRadioIsGated'
<1> SUFFICES ASSUME TypeInv, OnlyRadioIsGated, [Next]_vars PROVE OnlyRadioIsGated'
  OBVIOUS
<1> USE DEF OnlyRadioIsGated
<1>t. writeQ \in Seq(Written) /\ igateQ \in Seq(Origin) /\ line \in {"none", "rf", "is"}
  BY DEF TypeInv, TypeOK, Written, Origin
\* Steps that leave the lines alone, or drop the igate's.
<1>1. CASE UNCHANGED <<uplinked, writeQ, line>>
  BY <1>1
<1>2. CASE UNCHANGED <<uplinked, writeQ>> /\ line' = "none"
  BY <1>2
<1>3. CASE ClientTakes
  <2>1. Head(writeQ) \in Range(writeQ) /\ Range(Tail(writeQ)) \subseteq Range(writeQ)
    BY <1>3, <1>t, TakeSees DEF ClientTakes
  <2> QED BY <1>3, <2>1 DEF ClientTakes, queues
<1>4. CASE IgateGates
  <2>1. line' = "rf"
    BY <1>4, <1>t, TailType DEF IgateGates, NotGated, Origin
  <2> QED BY <1>4, <2>1 DEF IgateGates, counts
<1>5. CASE IgateSends
  <2>1. line \in Written
    BY <1>5, <1>t DEF IgateSends, TypeInv, LineInv, Written
  <2>2. Range(writeQ') = Range(writeQ) \cup {line}
    BY <1>5, <1>t, <2>1, RangeAppend DEF IgateSends
  <2> QED BY <1>5, <2>2 DEF IgateSends, counts
<1>6. CASE BeaconSends
  <2>1. Range(writeQ') = Range(writeQ) \cup {"beacon"}
    BY <1>6, <1>t, RangeAppend DEF BeaconSends, Written
  <2> QED BY <1>6, <2>1 DEF BeaconSends, counts
<1> QED
  <2> USE DEF tasks, queues, counts
  <2>1. CASE InterfaceStep
    BY <2>1, <1>1 DEF InterfaceStep, Hear, Sent, InterfaceStops
  <2>2. CASE ClientStep
    BY <2>2, <1>1, <1>3
    DEF ClientStep, Connects, Breaks, Reconnects, ClientHears, ClientStops
  <2>3. CASE RouterStep
    BY <2>3, <1>1 DEF RouterStep, Route, RouterEnds
  <2>4. CASE DashStep
    BY <2>4, <1>1 DEF DashStep, DashTakes, DashEnds
  <2>5. CASE IgateStep
    BY <2>5, <1>1, <1>2, <1>4, <1>5 DEF IgateStep, IgateSkips, IgateEnds
  <2>6. CASE BeaconStep
    BY <2>6, <1>1, <1>6 DEF BeaconStep, BeaconFires, BeaconEnds
  <2>7. CASE MainStep
    BY <2>7, <1>1, <1>2
    DEF MainStep, Interrupt, ClientJoined, ClientTimesOut, Abort, RouterJoined,
        RouterTimesOut, Returns
  <2>8. CASE UNCHANGED vars
    BY <2>8, <1>1 DEF vars
  <2> QED BY <2>1, <2>2, <2>3, <2>4, <2>5, <2>6, <2>7, <2>8 DEF Next, Done

\* No packet from APRS-IS is ever among the lines on their way back to it, with
\* any number of radios, any channel sizes and any interleaving of the tasks.
THEOREM LoopFree == Spec => []OnlyRadioIsGated
  BY TypeInvariant, LoopFreeInit, LoopFreeStep, PTL DEF Spec

-----------------------------------------------------------------------------
(* The pipeline stays up.                                                   *)

LEMMA UpInit == Init => StaysUpUntilAbort
  BY DEF Init, StaysUpUntilAbort

\* StaysUpUntilAbort is inductive: each of its parts holds up another.  The
\* client cannot stop while the igate or beacon task holds a sender; these end
\* only after the client, or after the router; and the client is a sender of
\* the router.
LEMMA UpStep == StaysUpUntilAbort /\ [Next]_vars => StaysUpUntilAbort'
<1> SUFFICES ASSUME StaysUpUntilAbort, [Next]_vars,
                    "aprsis" \in config', main' \in {"running", "awaitClient"}
             PROVE  StaysUpUntilAbort'
  BY DEF StaysUpUntilAbort
<1> USE DEF StaysUpUntilAbort, tasks, queues, counts
<1>1. CASE InterfaceStep
  BY <1>1 DEF InterfaceStep, Hear, Sent, InterfaceStops
<1>2. CASE ClientStep
  BY <1>2 DEF ClientStep, Connects, Breaks, Reconnects, ClientHears, ClientTakes,
              ClientStops, WriteClosed
<1>3. CASE RouterStep
  BY <1>3 DEF RouterStep, Route, RouterEnds, SourceClosed
<1>4. CASE DashStep
  BY <1>4 DEF DashStep, DashTakes, DashEnds
<1>5. CASE IgateStep
  BY <1>5 DEF IgateStep, IgateSkips, IgateGates, IgateSends, IgateEnds, WriteRejects
<1>6. CASE BeaconStep
  BY <1>6 DEF BeaconStep, BeaconFires, BeaconSends, BeaconEnds, WriteRejects
<1>7. CASE MainStep
  BY <1>7 DEF MainStep, Interrupt, ClientJoined, ClientTimesOut, Abort, RouterJoined,
              RouterTimesOut, Returns
<1>8. CASE UNCHANGED vars
  BY <1>8 DEF vars
<1> QED BY <1>1, <1>2, <1>3, <1>4, <1>5, <1>6, <1>7, <1>8 DEF Next, Done

\* With an [aprsis] section no interleaving of stopping radios, breaking
\* connections and full channels ends a task of the pipeline before main does.
THEOREM StaysUp == Spec => []StaysUpUntilAbort
  BY UpInit, UpStep, PTL DEF Spec
=============================================================================
