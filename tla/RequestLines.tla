----------------------------- MODULE RequestLines -----------------------------
(***************************************************************************)
(* The lines of a request to the dashboard, as read_line_bounded            *)
(* (src/src/web/server.rs) takes them one after the other from what arrives *)
(* on the connection, cut at any place.  A byte is a letter, a line feed,   *)
(* or one that makes no UTF-8; a page closes once it has sent all it has.   *)
(***************************************************************************)
EXTENDS Naturals, Sequences, FiniteSets, SequencesExt

CONSTANTS
    MaxLine, \* max_len: MAX_REQUEST_LINE_LEN and MAX_HEADER_LINE_LEN
    MaxText  \* bound: bytes a page sends

VARIABLES
    closed, \* the page has closed
    avail,  \* the buffer of the BufReader
    buf,    \* buf: the beginning of a line
    lines,  \* history: what the calls returned, each a line in a set, or {} for an error
    text    \* history: all that the page sent

vars == <<closed, avail, buf, lines, text>>

Init == closed = FALSE /\ text = <<>> /\ avail = <<>> /\ buf = <<>> /\ lines = <<>>

\* No call follows an error.
Reading == ~(lines # <<>> /\ Last(lines) = {})

\* fill_buf with an empty buffer: some bytes arrive, or the page closes.
Fill ==
    /\ Reading /\ ~closed /\ avail = <<>>
    /\ \E n \in 1 .. MaxText - Len(text) : avail' \in [1 .. n -> {"x", "bad", "feed"}]
    /\ text' = text \o avail'
    /\ UNCHANGED <<closed, buf, lines>>

Close ==
    /\ Reading /\ ~closed /\ avail = <<>> /\ closed' = TRUE
    /\ UNCHANGED <<avail, buf, lines, text>>

\* String::from_utf8.
from_utf8(line) == IF "bad" \in ToSet(line) THEN {} ELSE {line}

\* What the loop takes of the buffer: up to the line feed, or all.
Taken == LET feeds == {i \in DOMAIN avail : avail[i] = "feed"}
         IN  IF feeds = {} THEN avail ELSE SubSeq(avail, 1, CHOOSE i \in feeds : \A j \in feeds : i <= j)

TooLong ==
    /\ Reading /\ avail # <<>> /\ Len(buf \o Taken) > MaxLine
    /\ lines' = Append(lines, {}) /\ buf' = <<>>
    /\ UNCHANGED <<closed, avail, text>>

TakePart ==
    /\ Reading /\ avail # <<>> /\ Len(buf \o Taken) <= MaxLine /\ Last(Taken) # "feed"
    /\ buf' = buf \o avail /\ avail' = <<>>
    /\ UNCHANGED <<closed, lines, text>>

\* Mutant: the line feed is not consumed with its line.
TakeLineOnly ==
    /\ Reading /\ avail # <<>> /\ Len(buf \o Taken) <= MaxLine /\ Last(Taken) = "feed"
    /\ lines' = Append(lines, from_utf8(buf \o Taken)) /\ buf' = <<>>
    /\ avail' = SubSeq(avail, Len(Taken), Len(avail))
    /\ UNCHANGED <<closed, text>>
TakeLine ==
    /\ Reading /\ avail # <<>> /\ Len(buf \o Taken) <= MaxLine /\ Last(Taken) = "feed"
    /\ lines' = Append(lines, from_utf8(buf \o Taken)) /\ buf' = <<>>
    /\ avail' = SubSeq(avail, Len(Taken) + 1, Len(avail))
    /\ UNCHANGED <<closed, text>>

\* End of file inside a line.  Without one, nothing is returned.
TakeRest ==
    /\ Reading /\ closed /\ avail = <<>> /\ buf # <<>>
    /\ lines' = Append(lines, from_utf8(buf)) /\ buf' = <<>>
    /\ UNCHANGED <<closed, avail, text>>

Next == Fill \/ Close \/ TooLong \/ TakePart \/ TakeLine \/ TakeRest

-----------------------------------------------------------------------------
\* Which stretches of the text are lines, in order: those that end with a line
\* feed, and what follows the last one.
Ends == {i \in DOMAIN text : text[i] = "feed" \/ i = Len(text)}
Upto(i)  == {j \in Ends : j <= i}
End(n)   == CHOOSE i \in Ends \cup {0} : Cardinality(Upto(i)) = n
Whole(n) == SubSeq(text, End(n - 1) + 1, End(n))
Good(line) == Len(line) <= MaxLine /\ "bad" \notin ToSet(line)

\* However the bytes of a request arrive, each line comes whole, in order, and
\* as long as it may be; one that is too long, or no text, is an error and the
\* end of the request, and nothing else is.
LinesKept ==
    /\ \A n \in DOMAIN lines :
          /\ n <= Cardinality(Ends)
          /\ lines[n] = IF Good(Whole(n)) THEN {Whole(n)} ELSE {}
    /\ Reading /\ closed /\ buf \o avail = <<>> => Len(lines) = Cardinality(Ends)
=============================================================================
