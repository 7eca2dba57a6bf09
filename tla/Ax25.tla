--------------------------------- MODULE Ax25 ---------------------------------
(***************************************************************************)
(* AX.25 addresses and frames, and their TNC2 text (src/src/ax25.rs).       *)
(*                                                                          *)
(* A frame is bytes, written here as seven-byte address fields and what     *)
(* follows them: fields up to the first from the source on that has the end *)
(* bit, and behind them control, PID and payload.  In a frame without that  *)
(* bit everything is fields, as far as it goes: its payload as well.        *)
(* An address field is six characters of seven bits, an SSID, the H-bit and *)
(* the end bit.  A result that may be missing is a set of at most one.      *)
(***************************************************************************)
EXTENDS Queues, FiniteSetsExt

CONSTANTS
    ValidCalls,  \* sequences of one to six capital letters and digits
    UpperBytes   \* bytes from 0x80 on

MAX_VIA_ADDRS == 8
MIN_FRAME_LEN == 16

encode_ax25_address(call, ssid, used, end) ==
    IF call \notin ValidCalls \/ ssid > 15 THEN {}
    ELSE {[call |-> [i \in 1 .. 6 |-> IF i <= Len(call) THEN call[i] ELSE " "],
           ssid |-> ssid, hbit |-> used, end |-> end]}

\* Mutant: the spaces that fill the field belong to the callsign.
KeepsSpaces(field, mark) ==
    IF Range(field.call) \ {" "} = {} THEN {}
    ELSE {[call |-> field.call, ssid |-> field.ssid, used |-> mark /\ field.hbit]}
\* All spaces are dropped, wherever they are, and any other character is taken.
\* The star of a used address is written for vias only (mark_hbit).
decode_ax25_address(field, mark) ==
    LET call == Select(field.call, Range(field.call) \ {" "})
    IN  IF call = <<>> THEN {} ELSE {[call |-> call, ssid |-> field.ssid, used |-> mark /\ field.hbit]}

\* A frame that others send, as far as its addresses can be encoded.
Framed(addrs, tail) ==
    LET field(i) == encode_ax25_address(addrs[i].call, addrs[i].ssid, addrs[i].used, i = Len(addrs))
    IN  IF \E i \in DOMAIN addrs : field(i) = {} THEN {}
        ELSE {[fields |-> [i \in DOMAIN addrs |-> CHOOSE f \in field(i) : TRUE], tail |-> tail]}

-----------------------------------------------------------------------------
\* A byte becomes the character of its number (b as char), here in UTF-8: one
\* byte, or two of which the first says so.
AsChar(b) == IF b \in UpperBytes THEN <<"lead", b>> ELSE <<b>>

\* The payload up to the first LF, without any CR.
Line(bytes) ==
    LET feeds == {i \in DOMAIN bytes : bytes[i] = "LF"}
    IN  IF feeds = {} THEN bytes ELSE SubSeq(bytes, 1, Min(feeds) - 1)
\* Mutant: the LF is left out and ends nothing.
TextOfAll(bytes) ==
    LET kept == Select(bytes, Range(bytes) \ {"CR", "LF"})
    IN  [i \in 1 .. Len(kept) |-> AsChar(kept[i])]
Text(bytes) ==
    LET kept == Select(Line(bytes), Range(bytes) \ {"CR"})
    IN  [i \in 1 .. Len(kept) |-> AsChar(kept[i])]

\* Whether the addresses end, with the last via that there may be or before.
EndsInTime(frame) ==
    LET n == Len(frame.fields)
    IN  /\ 7 * n + Len(frame.tail) >= MIN_FRAME_LEN
        /\ n >= 2 /\ n - 2 <= MAX_VIA_ADDRS /\ frame.fields[n].end

ax25_to_tnc2(frame) ==
    LET n       == Len(frame.fields)
        addr(i) == decode_ax25_address(frame.fields[i], i > 2)
        ui      == frame.tail[1] = "UI"
    IN  IF ~EndsInTime(frame) \/ (\E i \in 1 .. n : addr(i) = {}) \/ Len(frame.tail) < 2 THEN {}
        ELSE {[addrs   |-> [i \in 1 .. n |-> CHOOSE a \in addr(i) : TRUE],
               is_aprs |-> ui /\ frame.tail[2] = "F0",
               ui_pid  |-> IF ui THEN frame.tail[2] ELSE "none",
               text    |-> IF ui THEN Text(SubSeq(frame.tail, 3, Len(frame.tail))) ELSE <<>>]}
=============================================================================
