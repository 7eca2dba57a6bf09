------------------------------- MODULE MCTimers -------------------------------
(* Model checking of Timers: three beacons, of which the last has a symbol   *)
(* and no place and is skipped; texts shorter and longer than the limit and  *)
(* than a pipe, and commands that end or not, well or not, and leave a        *)
(* process behind or not, which writes nothing or more than a pipe holds.     *)
EXTENDS Timers

MCConfig ==
    << [cycle |-> {[number |-> 15, unit |-> "s"]}, mode |-> "both", symbol |-> FALSE, comment |-> TRUE],
       [cycle |-> {[number |-> 15, unit |-> "d"]}, mode |-> "radio", symbol |-> FALSE, comment |-> TRUE],
       [cycle |-> {}, mode |-> "aprsis", symbol |-> TRUE, comment |-> TRUE] >>

MCTexts == {[len |-> n, wide |-> FALSE] : n \in {0, 1, 3}} \cup {[len |-> 5, wide |-> TRUE]}
MCContents ==
    [kind : {"fixed"}, symbol : {<<"R", "&">>, <<"x">>}, comment : {{}, {"text"}}]
      \cup [kind : {"file"}, readable : BOOLEAN, text : MCTexts]
      \cup [kind : {"command"}, text : MCTexts, succeeds : BOOLEAN, ends : BOOLEAN,
             leaves : {FALSE}, left : {0}]
      \cup [kind : {"command"}, text : MCTexts, succeeds : BOOLEAN, ends : BOOLEAN,
             leaves : {TRUE}, left : {0, 4}]
MCVias == {<<>>, <<"WIDE2-1">>}
=============================================================================
