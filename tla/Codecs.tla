-------------------------------- MODULE Codecs --------------------------------
(***************************************************************************)
(* The conversions of the program, each a component of its own: KISS        *)
(* framing byte by byte (KissCodec), its check bytes (Crc), AX.25 frames    *)
(* over several KISS links (RadioLink), AGWPE frames (Agwpe), the lines of  *)
(* a request (RequestLines) and places in reports (PlaceReports).  They     *)
(* share nothing; which of them takes part is chosen in the initial state,  *)
(* and the others never make a step.                                        *)
(***************************************************************************)
EXTENDS KissCodec

CONSTANTS Data, Errors, MaxData, ValidCalls, UpperBytes, AirFrames, CheckBytes, MaxLinks,
          Ports, Calls, Blocks, MaxLine, MaxText, Locations, Points, Reports, Comments

VARIABLES
    part, \* the component that takes part
    variant, reg, sums, open, left, check, burst, before,
    origin, online, command, packet, checked, links,
    request, wire, parsed,
    closed, avail, buf, lines, text,
    place, line, readable, shown, aborted

Sum   == INSTANCE Crc
Link  == INSTANCE RadioLink WITH Frames <- AirFrames
Agw   == INSTANCE Agwpe
Req   == INSTANCE RequestLines
Where == INSTANCE PlaceReports

\* Bytes are sets of bits, and an error is no error if it has none.
ASSUME CrcAssumption ==
    Data \subseteq Sum!Byte /\ Errors \subseteq Sum!Byte \ {{}}

\* Callsigns and data are bytes; a callsign has no NUL.
ASSUME AgwpeAssumption ==
    /\ \A call \in Calls : call \in Seq({call[i] : i \in DOMAIN call} \ {"NUL"})
    /\ \A data \in Blocks : data \in Seq({data[i] : i \in DOMAIN data})

\* A frame on the air is its address fields, of six characters each, and its
\* bytes behind them.  The fields go on to the first end bit from the source on;
\* without one there is less than a field behind them.
ASSUME LinkAssumption ==
    \A f \in AirFrames :
        /\ f = [fields |-> f.fields, tail |-> f.tail]
        /\ f.fields \in Seq({f.fields[i] : i \in DOMAIN f.fields})
        /\ f.tail \in Seq({f.tail[i] : i \in DOMAIN f.tail})
        /\ \A i \in DOMAIN f.fields :
              LET call == f.fields[i].call IN call \in Seq({call[j] : j \in DOMAIN call}) /\ Len(call) = 6
        /\ \A i \in 2 .. Len(f.fields) - 1 : ~f.fields[i].end
        /\ (\A i \in 2 .. Len(f.fields) : ~f.fields[i].end) => Len(f.tail) < 7

ASSUME RequestAssumption == MaxLine \in Nat /\ MaxText \in Nat

\* A coordinate of the configuration is a number, a text of the form of APRS, or
\* something else; a report has the place of its first colon, or its length.
ASSUME PlaceAssumption ==
    /\ Comments \subseteq Nat
    /\ \A l \in Locations : \A value \in {l.lat, l.lon} :
          \/ value.kind = "number" /\ value.at \in Int
          \/ value.kind = "aprs" /\ value.text.deg \in Nat /\ value.text.min \in Nat
          \/ value.kind = "other"
    /\ \A point \in Points : point.lat \in Int /\ point.lon \in Int
    /\ \A r \in Reports :
          /\ {"dti", "len", "colon", "mark", "at", "closed", "id", "body"} \subseteq DOMAIN r.payload
          /\ r.payload.len \in Nat /\ r.payload.colon \in 0 .. r.payload.len /\ r.payload.at \in Nat

sumVars   == <<variant, reg, sums, open, left, check, burst, before>>
linkVars  == <<origin, online, command, packet, checked, links>>
agwVars   == <<request, wire, parsed>>
reqVars   == <<closed, avail, buf, lines, text>>
placeVars == <<place, line, readable, shown, aborted>>
codecVars == <<part, vars, sumVars, linkVars, agwVars, reqVars, placeVars>>

CodecsInit ==
    /\ part \in {"kiss", "crc", "link", "agwpe", "lines", "place"}
    /\ Init /\ Sum!Init /\ Link!Init /\ Agw!Init /\ Req!Init /\ Where!Init
    /\ part # "crc" => variant = "Smack"

Framing  == part = "kiss"  /\ Next       /\ UNCHANGED <<sumVars, linkVars, agwVars, reqVars, placeVars>>
Checking == part = "crc"   /\ Sum!Next   /\ UNCHANGED <<vars, linkVars, agwVars, reqVars, placeVars>>
Linking  == part = "link"  /\ Link!Next  /\ UNCHANGED <<vars, sumVars, agwVars, reqVars, placeVars>>
Engine   == part = "agwpe" /\ Agw!Next   /\ UNCHANGED <<vars, sumVars, linkVars, reqVars, placeVars>>
Asking   == part = "lines" /\ Req!Next   /\ UNCHANGED <<vars, sumVars, linkVars, agwVars, placeVars>>
Placing  == part = "place" /\ Where!Next /\ UNCHANGED <<vars, sumVars, linkVars, agwVars, reqVars>>

CodecsNext == (Framing \/ Checking \/ Linking \/ Engine \/ Asking \/ Placing) /\ UNCHANGED part

CodecsSpec == CodecsInit /\ [][CodecsNext]_codecVars

-----------------------------------------------------------------------------
(* Properties.                                                              *)

\* What Crc, RadioLink, Agwpe, RequestLines and PlaceReports state of
\* themselves.
CheckTells        == Sum!CheckTells
FramesKept        == Link!LinkKeeps
AgwpeKept         == Agw!AgwpeKeeps
LinesKept         == Req!LinesKept
PlaceKept         == Where!PlaceKept
EveryLineAnswered == Where!EveryLineAnswered
=============================================================================
