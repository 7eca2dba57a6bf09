----------------------------- MODULE PlaceReports -----------------------------
(***************************************************************************)
(* A place on its way to the dashboard: written into a report by a beacon   *)
(* with the configured location (src/src/config.rs, src/src/beacon.rs), by  *)
(* the D-PRS converter (src/src/dprsgw.rs) or by another station, and read  *)
(* from the line again by extract_position (src/src/parse_aprs.rs), which    *)
(* the dashboard task calls for each packet (src/src/main.rs).              *)
(***************************************************************************)
EXTENDS AprsData

CONSTANTS
    Locations,   \* what [location] may say: pairs of values
    Points,      \* places in D-PRS reports: pairs of angles
    Reports,     \* payloads of other stations, with the place that is meant, if any
    Comments     \* where the first colon of a comment is: 0 without one

VARIABLES
    place,    \* history: where the line is from, and what is meant
    line,     \* the payload of the line, <<>> before
    readable, \* the location has been read: it may be refused
    shown,    \* the place the dashboard makes of it
    aborted   \* the parser has panicked

vars  == <<place, line, readable, shown, aborted>>

Init ==
    /\ place = [from |-> "nowhere"] /\ line = <<>> /\ readable = TRUE
    /\ shown = {} /\ aborted = FALSE

-----------------------------------------------------------------------------
\* "!" latitude table longitude symbol comment: the payload of a report.  The
\* symbol may itself be a colon.
Report(p, symbol, comment) ==
    [dti |-> "!", len |-> 40, wide |-> {},
     colon |-> IF symbol = ":" THEN 19 ELSE IF comment = 0 THEN 40 ELSE 20 + comment,
     body |-> [form |-> "plain", lat |-> p.lat, lon |-> p.lon]]

\* Config::load, and with a location format_position_beacon: the symbol and the
\* comment are the beacon's.
BeaconLine(raw, symbol, comment) ==
    /\ line = <<>> /\ readable /\ UNCHANGED <<shown, aborted>>
    /\ place' = [from |-> "config", raw |-> raw, symbol |-> symbol]
    /\ readable' = (LocationOf(raw) # {})
    /\ line' = IF LocationOf(raw) = {} THEN <<>>
               ELSE Report(CHOOSE p \in LocationOf(raw) : TRUE, symbol, comment)

\* dprs_to_aprs.
DprsLine(point, comment) ==
    /\ line = <<>> /\ readable /\ UNCHANGED <<readable, shown, aborted>>
    /\ place' = [from |-> "dprs", raw |-> [lat |-> [kind |-> "number", at |-> point.lat],
                                           lon |-> [kind |-> "number", at |-> point.lon]],
                 symbol |-> ">"]
    /\ line' = Report(DprsPlace(point.lat, point.lon), ">", comment)

OtherLine(report) ==
    /\ line = <<>> /\ readable /\ UNCHANGED <<readable, shown, aborted>>
    /\ place' = [from |-> "air", meant |-> report.meant] /\ line' = report.payload

\* The dashboard task: extract_position.
Show ==
    /\ line # <<>> /\ shown = {} /\ ~aborted
    /\ aborted' = Panics(line)
    /\ shown' = IF Panics(line) THEN {} ELSE {[found |-> extract_position(line)]}
    /\ UNCHANGED <<place, line, readable>>

Next ==
    \/ \E l \in Locations, s \in {">", ":"}, c \in Comments : BeaconLine(l, s, c)
    \/ \E p \in Points, c \in Comments : DprsLine(p, c)
    \/ \E r \in Reports : OtherLine(r)
    \/ Show

-----------------------------------------------------------------------------
(* Properties.                                                              *)

\* What a coordinate of the configuration means.
Meaning(value) ==
    IF value.kind = "number" THEN value.at
    ELSE LET a == value.text.deg * Degree + 3 * value.text.min
         IN  IF value.text.hem \in {"S", "W"} THEN -a ELSE a

\* A number in its range of which no hundredths of a minute round up to a whole
\* degree; a text of the right size and letter, without spaces.
Sound(value, digits, most, letters) ==
    \/ /\ value.kind = "number" /\ Magnitude(value.at) <= most * Degree
       /\ Magnitude(value.at) % Degree < Degree - 1
    \/ /\ value.kind = "aprs" /\ value.text.width = digits /\ value.text.space = "none"
       /\ value.text.deg <= most /\ value.text.min < 60 * 100 /\ value.text.hem \in letters

\* A place comes to the dashboard as it was meant, to half a hundredth of a
\* minute, or not at all: the two writers of coordinates, the three forms of
\* text and the parser never disagree about where something is.  It is lost
\* only where the minutes round up to 60.00, where the configuration does not
\* say it properly, or where a colon comes before its end.
PlaceKept ==
    /\ (place.from = "config" /\ ~readable) =>
            \/ place.raw.lat.kind = "other" \/ place.raw.lon.kind = "other"
            \/ Magnitude(Meaning(place.raw.lat)) > 90 * Degree
            \/ Magnitude(Meaning(place.raw.lon)) > 180 * Degree
    /\ \A s \in shown :
        IF place.from = "air"
        THEN /\ s.found \subseteq place.meant
             /\ line.colon >= line.len => s.found = place.meant
        ELSE /\ \A f \in s.found : \A axis \in {"lat", "lon"} :
                    /\ f[axis].per = Degree
                    /\ Magnitude(f[axis].n - Meaning(place.raw[axis])) <= 1
             /\ ( /\ Sound(place.raw.lat, 2, 90, {"N", "S"})
                  /\ Sound(place.raw.lon, 3, 180, {"E", "W"})
                  /\ place.symbol # ":" ) => s.found # {}

\* "Unrecognized or unparseable format." (parse_aprs.rs:46)
\* Whatever a station sends, the parser has an answer.
EveryLineAnswered == ~aborted
=============================================================================
