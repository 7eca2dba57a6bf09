------------------------------- MODULE AprsData -------------------------------
(***************************************************************************)
(* parse_aprs and extract_position (src/src/parse_aprs.rs).                 *)
(*                                                                          *)
(* A payload is a record of what the parser looks at: dti, its first byte;  *)
(* len, its length; colon, the place of its first ":" (or len); mark, the   *)
(* byte behind an object's name or the separator of an item, and at, the    *)
(* place of that separator; closed and id of a message; and body, what      *)
(* stands where a position is expected: a plain pair of coordinates, or a   *)
(* compressed one of which each is four bytes.  Places count from zero;     *)
(* wide are those within a character, which takes several bytes if it is    *)
(* not ASCII: the text cannot be cut there.                                 *)
(***************************************************************************)
EXTENDS Positions, Sequences, FiniteSetsExt, SequencesExt

Unknown == [type |-> "unknown"]

\* A place is two angles, each in its own unit: per tells how many to a degree.
Angle(n, per) == [n |-> n, per |-> per]
Place(type, live, a, b, comment) ==
    [type |-> type, live |-> live, lat |-> a, lon |-> b, comment |-> comment]

-----------------------------------------------------------------------------
\* Where the text of a pair of coordinates from place n on is cut, as far as
\* it is read: behind the degrees, around the symbols, before the comment.
Around(body, n, len) ==
    IF len < n + 19 THEN {}
    ELSE {n + 2, n + 8} \cup
         (IF body.form # "plain" \/ parse_latitude(body.lat) = {} THEN {}
          ELSE {n + 9, n + 18} \cup
               IF parse_longitude(body.lon) # {} /\ len > n + 19 THEN {n + 19} ELSE {})

\* The same of a payload.
Cuts(p) ==
    LET position(n) == IF p.body.form = "compressed" /\ p.len >= n + 10
                       THEN (IF p.len > n + 12 THEN {n + 13} ELSE {})
                       ELSE Around(p.body, n, p.len)
    IN  CASE p.dti \in {"!", "="}                -> position(1)
          [] p.dti \in {"/", "@"} /\ p.len >= 8 -> {8} \cup position(8)
          [] p.dti = ":" /\ p.len >= 11         -> {10}
          [] p.dti = ";" /\ p.len >= 37         ->
                {10} \cup IF p.mark \in {"*", "_"} THEN {18} \cup (Around(p.body, 18, p.len) \ {37}) ELSE {}
          [] p.dti = ")" /\ p.len >= 4          ->
                {Min({p.len, 10})} \cup
                IF p.at \in 1 .. Min({p.len, 10}) - 1
                THEN Around(p.body, p.at + 1, p.len) \ {p.at + 20} ELSE {}
          [] OTHER -> {}

\* Mutant: the digits count from one.
FromOne(d) ==
    IF \E i \in 1 .. 4 : d[i] \notin 33 .. 124 THEN {}
    ELSE {FoldLeft(LAMBDA v, c : v * 91 + (c - 32), 0, d)}
decode_base91_4(d) ==
    IF \E i \in 1 .. 4 : d[i] \notin 33 .. 124 THEN {}
    ELSE {FoldLeft(LAMBDA v, c : v * 91 + (c - 33), 0, d)}

\* try_parse_compressed: a symbol, two times four digits, a symbol, and three
\* bytes before the comment.
try_parse_compressed(body, n) ==
    {Place("position", TRUE, Angle(90 * 380926 - v, 380926), Angle(w - 180 * 190463, 190463), n > 13)
        : v \in decode_base91_4(body.lat), w \in decode_base91_4(body.lon)}

\* parse_uncompressed_position, and the coordinates of an object or item.
PlainPlace(type, live, body, comment) ==
    {Place(type, live, Angle(a, Degree), Angle(b, Degree), comment)
        : a \in parse_latitude(body.lat), b \in parse_longitude(body.lon)}

\* The end of parse_position and parse_position_with_timestamp.  A compressed
\* body is tried only behind a table of "/", "\" or a capital letter.
PositionIn(body, n) ==
    CASE body.form = "compressed" /\ body.tried /\ n >= 10 -> try_parse_compressed(body, n)
      [] body.form = "plain" /\ n >= 19 -> PlainPlace("position", TRUE, body, n > 19)
      [] OTHER -> {}

parse_position(p) == PositionIn(p.body, p.len - 1)

parse_position_with_timestamp(p) == PositionIn(p.body, p.len - 8)

parse_object(p) ==
    IF p.len < 37 \/ p.mark \notin {"*", "_"} \/ p.body.form # "plain" THEN {}
    ELSE PlainPlace("object", p.mark = "*", p.body, FALSE)

parse_item(p) ==
    IF p.at \notin 1 .. Min({p.len, 10}) - 1 \/ p.len - (p.at + 1) < 19 \/ p.body.form # "plain" THEN {}
    ELSE PlainPlace("item", p.mark = "!", p.body, FALSE)

\* The text ends at the last "{"; an empty number behind it is none.
parse_message(p) ==
    IF p.len < 11 \/ ~p.closed THEN {} ELSE {[type |-> "message", numbered |-> p.id = "some"]}

parse_aprs(p) ==
    LET found == IF p.len = 0 THEN {} ELSE
                 CASE p.dti \in {"!", "="} -> parse_position(p)
                   [] p.dti \in {"/", "@"} -> parse_position_with_timestamp(p)
                   [] p.dti = ":"          -> parse_message(p)
                   [] p.dti = ";"          -> parse_object(p)
                   [] p.dti = ")"          -> parse_item(p)
                   [] OTHER                -> {}
    IN  IF found = {} THEN Unknown ELSE CHOOSE d \in found : TRUE

\* The place in what was parsed.
PlaceOf(data) ==
    IF data.type \in {"position", "object", "item"} THEN {[lat |-> data.lat, lon |-> data.lon]} ELSE {}

\* split(':').nth(1): the payload ends at its first colon.
ToColon(p) == [p EXCEPT !.len = p.colon]
\* A cut within a character is a panic, which ends the program (Cargo.toml).
Panics(p) == Cuts(ToColon(p)) \cap p.wide # {}
extract_position(p) == PlaceOf(parse_aprs(ToColon(p)))
=============================================================================
