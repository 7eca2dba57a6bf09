------------------------------ MODULE Positions ------------------------------
(***************************************************************************)
(* Latitudes and longitudes between decimal degrees and the text of an APRS *)
(* report: what the configuration (src/src/config.rs), the D-PRS converter  *)
(* (src/src/dprsgw.rs) and beacons (src/src/beacon.rs) write, and what      *)
(* parse_latitude and parse_longitude (src/src/parse_aprs.rs) read.         *)
(*                                                                          *)
(* An angle is an integer.  Its unit is a third of a hundredth of a minute, *)
(* so that no angle lies halfway between two that the text can show: there  *)
(* the rounding of binary fractions goes either way.  An angle as text is   *)
(* its degrees with the number of their digits, its minutes in hundredths,  *)
(* the hemisphere's letter and where the text has a space too many.         *)
(* A result that may be missing (Option, Result) is a set of at most one.   *)
(***************************************************************************)
EXTENDS Integers

Minute == 300
Degree == 60 * Minute

Magnitude(x) == IF x < 0 THEN -x ELSE x

\* Mutant: the minutes are cut off after two digits.
CutOff(u) == u \div 3
\* {:05.2}: the minutes are rounded to hundredths, up to 60.00.
Hundredths(u) == (u + 1) \div 3

AsText(x, digits, plus, minus) ==
    [deg   |-> Magnitude(x) \div Degree,
     width |-> digits,
     min   |-> Hundredths(Magnitude(x) % Degree),
     hem   |-> IF x >= 0 THEN plus ELSE minus,
     space |-> "none"]

decimal_lat_to_aprs(x) == IF Magnitude(x) > 90 * Degree  THEN {} ELSE {AsText(x, 2, "N", "S")}
decimal_lon_to_aprs(x) == IF Magnitude(x) > 180 * Degree THEN {} ELSE {AsText(x, 3, "E", "W")}

\* One coordinate of [location]: a number, also one in quotes; a string that
\* looks like APRS format, taken as it is, with its spaces and whichever letter
\* it ends in; or something else, which is refused.
Converted(value, convert(_)) ==
    CASE value.kind = "number" -> convert(value.at)
      [] value.kind = "aprs"   -> {value.text}
      [] OTHER                 -> {}

\* LocationConfig::try_from.
LocationOf(raw) ==
    {[lat |-> a, lon |-> b] : a \in Converted(raw.lat, decimal_lat_to_aprs),
                              b \in Converted(raw.lon, decimal_lon_to_aprs)}

\* dprs_to_aprs looks at no range: a latitude may have three digits of degrees.
DprsPlace(x, y) ==
    [lat |-> AsText(x, IF Magnitude(x) >= 100 * Degree THEN 3 ELSE 2, "N", "S"),
     lon |-> AsText(y, 3, "E", "W")]

-----------------------------------------------------------------------------
\* The fields are read at fixed places: with another number of digits, or a
\* space before it, none of them is where it is looked for.
AngleOf(t, width, most, plus, minus) ==
    IF t.width # width \/ t.deg > most \/ t.min >= 6000 \/ t.hem \notin {plus, minus}
    THEN {}
    ELSE LET a == t.deg * Degree + 3 * t.min IN {IF t.hem = plus THEN a ELSE -a}

\* A space behind the latitude puts the longitude out of its place.
parse_latitude(t) == IF t.space # "none" THEN {} ELSE AngleOf(t, 2, 90, "N", "S")
\* A space behind the longitude is taken for the symbol.
parse_longitude(t) == IF t.space = "before" THEN {} ELSE AngleOf(t, 3, 180, "E", "W")
=============================================================================
