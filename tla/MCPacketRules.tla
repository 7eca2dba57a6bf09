---------------------------- MODULE MCPacketRules ----------------------------
(* Model checking of PacketRules.                                            *)
EXTENDS PacketRules, TLC

\* Two gateways, a station on the channel and one that may be there, packets in
\* wrappers of third-party frames.
MCGates == {"G", "H"}
MCStations == {"A", "B", "APRS"}

By(s, v) == [src |-> s, dst |-> "APRS", vias |-> v]
Msg(heads, to) == [heads |-> heads, kind |-> "message", to |-> to, trip |-> <<>>]
Pos(heads, kind) == [heads |-> heads, kind |-> kind, to |-> "APRS", trip |-> <<>>]

MCOnAir == {Pos(<<By("B", {})>>, "other"), Pos(<<By("B", {"NOGATE"})>>, "other"),
            Msg(<<By("A", {})>>, "B"), Pos(<<By("A", {})>>, "query"),
            Msg(<<By("B", {}), By("A", {})>>, "B"), Msg(<<By("B", {}), By("A", {"TCPIP"})>>, "B"),
            Pos([i \in 1 .. 5 |-> By("A", {})], "other")}
MCOnNet == {Msg(<<By("A", {"qAR"})>>, "B"), Msg(<<By("A", {"TCPXX"})>>, "B"),
            Msg(<<By("B", {"qAR"})>>, "A")}

\* Four stations, and every path of up to four vias from a small set in which
\* what is used comes first.
MCDigis == {"A", "B", "C", "D"}
MCWide == {"WIDE1", "WIDE2", "WIDE5"}
MCOthers == {"X"}
MCRequestedN == [w \in MCWide |-> IF w = "WIDE1" THEN 1 ELSE IF w = "WIDE2" THEN 2 ELSE 5]

Via(c, n, u) == [call |-> c, n |-> n, used |-> u]
MCVias == {Via("A", 0, FALSE), Via("B", 0, FALSE), Via("X", 0, TRUE), Via("X", 0, FALSE),
           Via("WIDE1", 1, FALSE), Via("WIDE2", 2, FALSE), Via("WIDE1", 3, FALSE),
           Via("WIDE5", 1, FALSE), Via("WIDE2", 0, FALSE)}
UsedFirst(path_) == \A i, j \in DOMAIN path_ : i < j /\ path_[j].used => path_[i].used
MCPaths == {path_ \in UNION {[1 .. k -> MCVias] : k \in 0 .. 4} : UsedFirst(path_)}

\* A packet by two paths, and another; delays of none and of two ticks.
Sent(vias, text, blanks) == [source |-> "A", dest |-> "APRS", vias |-> vias, text |-> text, blanks |-> blanks]
MCHeardable == {Sent(<<>>, "p", 0), Sent(<<"B*">>, "p", 1), Sent(<<>>, "q", 0)}
MCDelays == {0, 2}

\* Callsigns of one and two letters in both cases, patterns of up to two.
MCUpper == [l \in {"a", "b", "A", "B", "*"} |-> IF l = "a" THEN "A" ELSE IF l = "b" THEN "B" ELSE l]
Listed(kind, items) == [kind |-> kind, items |-> items]
MCSpecs ==
    {Listed(kind, items) : kind \in {"b", "p", "-b", "-p"},
                           items \in {<<<<"a", "b">>>>, <<<<"A", "*">>, <<>>>>, <<<<"B">>, <<"a", "A">>>>, <<<<>>>>}}
        \cup {[kind |-> kind, compiles |-> TRUE, matches |-> {<<"A", "B">>, <<"b">>}] :
                 kind \in {"regex-source", "regex-destination", "regex-via", "regex-data"}}
        \cup {[kind |-> "regex-via", compiles |-> FALSE, matches |-> {}], Listed("t", <<<<"A">>>>)}
MCCalls == {<<"A", "B">>, <<"a", "a">>, <<"b">>, <<"B", "A">>}
MCChecked == {[source |-> s, dest |-> d, vias |-> v, data |-> t] :
                 s \in MCCalls, d \in MCCalls, t \in {<<"b">>, <<"B">>},
                 v \in {<<>>, <<Via(<<"B">>, 0, TRUE), Via(<<"A", "B">>, 0, TRUE)>>}}
=============================================================================
