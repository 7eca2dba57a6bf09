--------------------------------- MODULE Agwpe ---------------------------------
(***************************************************************************)
(* Frames of the AGW packet engine (src/src/interface/agwpe.rs): a header    *)
(* with two callsigns in ten bytes each and a length, and data.  The program *)
(* does not open such an interface yet.                                      *)
(* A callsign is a sequence of bytes.                                        *)
(***************************************************************************)
EXTENDS Naturals, Sequences, SequencesExt, FiniteSetsExt

CONSTANTS
    Ports, Calls,  \* ports and callsigns
    Blocks         \* AX.25 data to transmit

VARIABLES
    request,  \* the frame to send, <<>> before
    wire,     \* its bytes: the header's fields and the data
    parsed    \* what the other end makes of them

vars == <<request, wire, parsed>>

Field == 10

-----------------------------------------------------------------------------
AgwpeFrame(port, kind, from, to, data) ==
    [port |-> port, data_kind |-> kind, call_from |-> from, call_to |-> to, data |-> data]

register_callsign(port, call)   == AgwpeFrame(port, "X", call, <<>>, <<>>)
unregister_callsign(port, call) == AgwpeFrame(port, "x", call, <<>>, <<>>)
version_request                 == AgwpeFrame(0, "R", <<>>, <<>>, <<>>)
port_info_request               == AgwpeFrame(0, "G", <<>>, <<>>, <<>>)
raw_transmit(port, from, to, d) == AgwpeFrame(port, "K", from, to, d)

Requests ==
    {register_callsign(p, c) : p \in Ports, c \in Calls}
        \cup {unregister_callsign(p, c) : p \in Ports, c \in Calls}
        \cup {raw_transmit(p, c, e, d) : p \in Ports, c, e \in Calls, d \in Blocks}
        \cup {version_request, port_info_request}

\* What is beyond the tenth byte is cut off, the rest of the field is NULs.
write_callsign(call) == [i \in 1 .. Field |-> IF i <= Len(call) THEN call[i] ELSE "NUL"]

\* Mutant: a callsign ends before a NUL, and there has to be one.
NeedsNul(field) ==
    IF \A i \in DOMAIN field : field[i] # "NUL" THEN <<>>
    ELSE SubSeq(field, 1, Min({i \in DOMAIN field : field[i] = "NUL"}) - 1)
\* A callsign ends before the first NUL, or with the field.
extract_callsign(field) ==
    SubSeq(field, 1, Min({i \in DOMAIN field : field[i] = "NUL"} \cup {Field + 1}) - 1)

encode_agwpe_frame(f) ==
    [port |-> f.port, kind |-> f.data_kind, from |-> write_callsign(f.call_from),
     to |-> write_callsign(f.call_to), len |-> Len(f.data), data |-> f.data]

\* The data is as many bytes as the header says.
parse_agwpe_frame(w) ==
    AgwpeFrame(w.port, w.kind, extract_callsign(w.from), extract_callsign(w.to),
               SubSeq(w.data, 1, w.len))

Init == request = <<>> /\ wire = <<>> /\ parsed = <<>>

Send(f) == request = <<>> /\ request' = f /\ wire' = encode_agwpe_frame(f) /\ UNCHANGED parsed

Parse == wire # <<>> /\ parsed = <<>> /\ parsed' = parse_agwpe_frame(wire) /\ UNCHANGED <<request, wire>>

Next == Parse \/ \E f \in Requests : Send(f)

-----------------------------------------------------------------------------
\* A frame comes out as it went in, data of any length and callsigns that fill
\* their field to the last byte included; of a longer one the head remains, so
\* that two such calls may become one.
AgwpeKeeps ==
    parsed # <<>> =>
        LET head(call) == SubSeq(call, 1, Min({Len(call), Field}))
        IN  parsed = [request EXCEPT !.call_from = head(@), !.call_to = head(@)]
=============================================================================
