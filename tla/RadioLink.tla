------------------------------- MODULE RadioLink -------------------------------
(***************************************************************************)
(* A frame on its way through radio interfaces: process_kiss_frame makes a  *)
(* packet of it, prepare_transmit a frame of the packet for the next KISS   *)
(* link (src/src/interface/serial.rs), and so on from link to link.  The    *)
(* encoder appends the check bytes of the link's protocol (src/src/kiss.rs) *)
(* and nothing takes them off again: the decoder hands over all it gets.    *)
(***************************************************************************)
EXTENDS Ax25

CONSTANTS
    Frames,      \* frames that others put on the air, broken ones too
    CheckBytes,  \* values check bytes can have
    MaxLinks     \* bound: KISS links a frame crosses

VARIABLES
    origin,  \* the frame as it was sent first, <<>> before
    online,  \* frame on the link, <<>> when there is none
    command, \* low four bits of its command byte
    packet,  \* what the interface hands to the router, <<>> when nothing
    checked, \* history: check bytes added so far
    links    \* history: links crossed

vars == <<origin, online, command, packet, checked, links>>

\* protocol_to_kiss_variant, and how many bytes kiss_encode appends: TNC2 and
\* DPRS are not KISS and transmit nothing.
Protocols == {"KISS", "SMACK", "FLEXNET", "BPQCRC", "TNC2", "DPRS"}
Variants(protocol) == IF protocol \in {"TNC2", "DPRS"} THEN {} ELSE {protocol}
CheckLen(variant)  == CASE variant = "KISS" -> 0 [] variant = "BPQCRC" -> 1 [] OTHER -> 2

-----------------------------------------------------------------------------
Init ==
    /\ origin = <<>> /\ online = <<>> /\ command = 0 /\ packet = <<>>
    /\ checked = <<>> /\ links = 0

\* A TNC hands over a frame from the air, or a command of its own.
Heard(f, c) ==
    /\ origin = <<>> /\ origin' = f /\ online' = f
    /\ command' = c
    /\ UNCHANGED <<packet, checked, links>>

\* process_kiss_frame.
Receive ==
    /\ online # <<>> /\ online' = <<>>
    /\ LET tnc2 == IF command = 0 THEN ax25_to_tnc2(online) ELSE {}
       IN  packet' = IF tnc2 = {} THEN <<>>
                     ELSE [tnc2 |-> CHOOSE t \in tnc2 : TRUE, ax25 |-> online]
    /\ UNCHANGED <<origin, command, checked, links>>

\* prepare_transmit: the AX.25 data of the packet, whatever has become of its
\* text; a packet made from text (Packet::new) has none.
Transmit(protocol, check) ==
    /\ packet # <<>> /\ links < MaxLinks
    /\ \E v \in Variants(protocol) :
          /\ Len(check) = CheckLen(v)
          /\ online' = [packet.ax25 EXCEPT !.tail = @ \o check]
    /\ checked' = checked \o check /\ links' = links + 1
    /\ packet' = <<>> /\ command' = 0
    /\ UNCHANGED origin

Next ==
    \/ \E f \in Frames, c \in {0, 6} : Heard(f, c)
    \/ Receive
    \/ \E p \in Protocols, c \in UNION {[1 .. n -> CheckBytes] : n \in 0 .. 2} : Transmit(p, c)

-----------------------------------------------------------------------------
(* Properties.                                                              *)

\* What an AX.25 frame is: at most eight vias, no address without a callsign,
\* the end bit in the last address, a control and a PID byte.
WellFormed(f) ==
    /\ Len(f.fields) \in 2 .. 10 /\ Len(f.tail) >= 2
    /\ \A i \in DOMAIN f.fields : \E j \in 1 .. 6 : f.fields[i].call[j] # " "
    /\ f.fields[Len(f.fields)].end

\* The place that j has among the places P.
Rank(P, j) == Cardinality({i \in P : i <= j})

\* A callsign is read as it fills its field from the left, with its SSID.  Of an
\* address with a space elsewhere the characters are kept, and their order.
SaidAs(field, mark, addr) ==
    LET said == {j \in 1 .. 6 : field.call[j] # " "}
    IN  /\ Len(addr.call) = Cardinality(said)
        /\ \A j \in said : addr.call[Rank(said, j)] = field.call[j]
        /\ addr.ssid = field.ssid /\ addr.used = (mark /\ field.hbit)

\* Each byte in front of the first LF has its character, in order, but for the
\* CRs, those inside the line as well: an ASCII byte itself, any other a
\* character of two bytes.
LineOf(bytes, text) ==
    LET said == {j \in DOMAIN bytes : bytes[j] # "CR" /\ \A i \in 1 .. j : bytes[i] # "LF"}
    IN  /\ Len(text) = Cardinality(said)
        /\ \A j \in said : LET ch == text[Rank(said, j)]
                           IN  IF bytes[j] \in UpperBytes THEN Len(ch) = 2 ELSE ch = <<bytes[j]>>

\* A frame keeps its addresses as far as SaidAs says, with the H-bits of the
\* vias and of nothing else, and the line in it as far as LineOf says, on however
\* many links it is sent, and is lost on none of them; only check bytes, on links
\* that have them, come behind the line.  So a callsign that fills its field from
\* the left, and a line of ASCII bytes that ends in CR, LF, both or neither, come
\* out as they went in, and others do not.  A broken frame gives no packet.
LinkKeeps ==
    (origin # <<>> /\ online = <<>> /\ command = 0) =>
        LET tail == origin.tail
        IN  IF ~WellFormed(origin) THEN packet = <<>>
            ELSE /\ packet # <<>>
                 /\ DOMAIN packet.tnc2.addrs = DOMAIN origin.fields
                 /\ \A i \in DOMAIN origin.fields :
                        SaidAs(origin.fields[i], i > 2, packet.tnc2.addrs[i])
                 /\ packet.tnc2.is_aprs = (tail[1] = "UI" /\ tail[2] = "F0")
                 /\ IF tail[1] # "UI" THEN packet.tnc2.text = <<>>
                    ELSE LineOf(SubSeq(tail, 3, Len(tail)) \o checked, packet.tnc2.text)
=============================================================================
