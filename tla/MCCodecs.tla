------------------------------- MODULE MCCodecs -------------------------------
(* Model checking of Codecs.                                                 *)
EXTENDS Codecs, FiniteSetsExt

CONSTANTS c, d

\* Operators of these for the values below.
Air  == INSTANCE Ax25
Aprs == INSTANCE AprsData

\* KISS: a command byte with up to two more bytes of any kind.
MCPlain  == {c, d}
MCFrames == {<<c>>} \cup {<<c, b>> : b \in Bytes \ {c}}
                   \cup {<<c, a, b>> : a, b \in Bytes \ {c}}

\* Sums: bytes that leave none, two and all of the bits of an entry.
MCData   == {{}, {6, 7}, 0 .. 7}
MCErrors == {{0}, {7}, 0 .. 7}

\* Frames on the air: none, two and about eight vias; lines with each of their
\* ends; addresses with spaces and other characters in them; broken ones, of
\* which some have no end bit and are read as addresses to their last byte.
MCValidCalls == {<<"A">>, <<"B", "1">>, <<"O", "H", "2", "M", "Q", "K">>}
Addr(call, ssid, used) == [call |-> call, ssid |-> ssid, used |-> used]
MCVias == UNION {[1 .. n -> {Addr(<<"A">>, 0, TRUE), Addr(<<"O", "H", "2", "M", "Q", "K">>, 15, FALSE)}] : n \in 0 .. 2}
             \cup {[i \in 1 .. n |-> Addr(<<"A">>, i, i = 1)] : n \in {8, 9, 16}}
MCTails == {<<"UI", "F0">> \o t : t \in UNION {[1 .. n -> {"x", "CR", "LF"}] : n \in 0 .. 2}}
             \cup {<<"UI", "F0", "x", "CR", "hi">>, <<"UI", "F0", "x", "y", "CR", "LF", "z">>,
                   <<"UI", "CF", "x">>, <<"I", "F0", "x">>, <<"UI">>}
Field(call, end) == [call |-> call, ssid |-> 0, hbit |-> TRUE, end |-> end]
Alone  == <<"A", " ", " ", " ", " ", " ">>
Spaces == [i \in 1 .. 6 |-> " "]
MCOdd == {[fields |-> f, tail |-> <<"UI", "F0", "x">>] :
             f \in {<<Field(Alone, FALSE), Field(<<" ", "B", " ", ",", "a", " ">>, TRUE)>>,
                    <<Field(Alone, TRUE), Field(Alone, FALSE), Field(<<"#", "x", "x", " ", " ", "x">>, TRUE)>>}}
MCBroken == {[fields |-> f, tail |-> <<"UI", "F0", "x">>] :
                f \in {<<Field(Alone, FALSE), Field(Alone, FALSE)>>, <<Field(Alone, TRUE)>>,
                       <<Field(Alone, FALSE), Field(Spaces, TRUE)>>,
                       [i \in 1 .. 12 |-> Field(Alone, FALSE)]}}
MCAirFrames ==
    MCOdd \cup MCBroken
        \cup UNION {Air!Framed(<<Addr(<<"A">>, 3, TRUE), Addr(<<"B", "1">>, 0, TRUE)>> \o v, t) :
                       v \in MCVias, t \in MCTails}

\* AGWPE: callsigns of no, nine, ten and eleven bytes.
MCCalls  == {[i \in 1 .. n |-> "A"] : n \in {0, 9, 10, 11}}
MCBlocks == {<<>>, <<"x", "y">>}

\* Places: at, next to and beyond what the text can show.
At(deg, u) == deg * Aprs!Degree + u
Number(x) == [kind |-> "number", at |-> x]
Coord(deg, width, min, hem, space) ==
    [kind |-> "aprs", text |-> [deg |-> deg, width |-> width, min |-> min, hem |-> hem, space |-> space]]
MCLats == {Number(s * At(g, u)) : s \in {1, -1}, g \in {0, 60, 89}, u \in {0, 1, 8999, 17998, 17999}}
             \cup {Number(At(90, 0)), Number(At(90, 1)), [kind |-> "other"]}
             \cup {Coord(60, 2, 2950, h, s) : h \in {"N", "S", "E"}, s \in {"none", "before", "behind"}}
             \cup {Coord(60, 3, 2950, "N", "none"), Coord(91, 2, 0, "S", "none"), Coord(1, 2, 6000, "N", "none")}
MCLons == {Number(s * At(g, u)) : s \in {1, -1}, g \in {0, 179}, u \in {543, 17999}}
             \cup {Number(At(-180, 0)), Number(At(180, 1)), [kind |-> "other"]}
             \cup {Coord(25, 3, 543, h, s) : h \in {"W", "N"}, s \in {"none", "before", "behind"}}
MCLocations == [lat : MCLats, lon : MCLons]
MCPoints == [lat : {At(60, 1), -At(0, 1), At(89, 17999), At(100, 0)}, lon : {At(25, 2), -At(179, 17998)}]

\* Reports of others: compressed ones, of which some have a colon among their
\* digits, and objects and items.
Base91(v) == [i \in 1 .. 4 |-> 33 + ((v \div (91 ^ (4 - i))) % 91)]
Squeezed(v, w) == [form |-> "compressed", tried |-> TRUE, lat |-> Base91(v), lon |-> Base91(w)]
ColonIn(digits, from, len) == Min({from + i : i \in {j \in 1 .. 8 : digits[j] = 58}} \cup {len})
Said(dti, len, colon, mark, at, body) ==
    [dti |-> dti, len |-> len, colon |-> colon, mark |-> mark, at |-> at, closed |-> TRUE,
     id |-> "some", body |-> body, wide |-> {}]
MCSqueezed ==
    {[payload |-> Said(k[1], k[2] + k[3], ColonIn(Base91(v) \o Base91(w), k[2], k[2] + k[3]), "", 0, Squeezed(v, w)),
      meant   |-> IF k[3] < 10 THEN {}
                  ELSE {[lat |-> Aprs!Angle(90 * 380926 - v, 380926),
                         lon |-> Aprs!Angle(w - 180 * 190463, 190463)]}]
        : v \in {0, 25, 20346417, 180 * 380926}, w \in {0, 25 * 91, 360 * 190463},
          k \in {<<"!", 1, 9>>, <<"=", 1, 10>>, <<"@", 8, 10>>, <<"/", 8, 16>>}}
\* 60 degrees 29.50 minutes north, 25 degrees 5.43 minutes west.
Plainly == [form |-> "plain", lat |-> Coord(60, 2, 2950, "N", "none").text, lon |-> Coord(25, 3, 543, "W", "none").text]
Spotted == [lat |-> Aprs!Angle(At(60, 8850), Aprs!Degree), lon |-> Aprs!Angle(-At(25, 1629), Aprs!Degree)]
MCPlainly ==
    {[payload |-> Said(k[1], k[2], k[3], k[4], k[5], Plainly),
      meant   |-> IF k[6] THEN {Spotted} ELSE {}]
        : k \in {<<";", 37, 37, "*", 0, TRUE>>, <<";", 37, 3, "_", 0, TRUE>>, <<";", 36, 36, "*", 0, FALSE>>,
                 <<";", 40, 40, "x", 0, FALSE>>, <<")", 26, 26, "!", 4, TRUE>>, <<")", 26, 26, "_", 9, FALSE>>,
                 <<")", 25, 25, "!", 4, TRUE>>, <<":", 30, 0, "", 0, FALSE>>, <<">", 30, 30, "", 0, FALSE>>,
                 <<"@", 27, 27, "", 0, TRUE>>, <<"@", 26, 26, "", 0, FALSE>>, <<"!", 1, 1, "", 0, FALSE>>}}
\* Reports with a character of two bytes: in the comment, for a symbol, in the
\* names of an object and of an item, and in a text that is no place.
Elsewhere == [form |-> "none"]
MCWide ==
    {[payload |-> [Said(k[1], 40, 40, k[2], k[3], k[4]) EXCEPT !.wide = {k[5]}], meant |-> k[6]]
        : k \in {<<"!", "", 0, Plainly, 23, {Spotted}>>, <<"!", "", 0, Plainly, 20, {Spotted}>>,
                 <<"@", "", 0, Plainly, 17, {Spotted}>>, <<"=", "", 0, Elsewhere, 9, {}>>,
                 <<"=", "", 0, Elsewhere, 12, {}>>, <<";", "*", 0, Plainly, 4, {Spotted}>>,
                 <<";", "x", 0, Plainly, 10, {}>>, <<")", "!", 5, Plainly, 3, {Spotted}>>,
                 <<")", "!", 12, Plainly, 10, {}>>, <<":", "", 0, Elsewhere, 10, {}>>,
                 <<">", "", 0, Elsewhere, 10, {}>>}}
MCReports == MCSqueezed \cup MCPlainly \cup MCWide
=============================================================================
