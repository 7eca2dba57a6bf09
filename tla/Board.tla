--------------------------------- MODULE Board ---------------------------------
(***************************************************************************)
(* The dashboard whole: the packets and their pages (Dashboard) and the     *)
(* tables of stations (HeardTables), of which the iGate has its own.  All   *)
(* are under one lock and none depends on another: which of the three takes *)
(* part is chosen in the initial state.                                     *)
(***************************************************************************)
EXTENDS Dashboard

CONSTANTS Calls, Interfaces, Spots, MaxHeard

VARIABLES
    part, \* "pages", "stations" or "igate"
    stations, igate, gated, heard, judged

Tables == INSTANCE HeardTables

tableVars == <<stations, igate, gated, heard, judged>>
boardVars == <<part, vars, tableVars>>

BoardInit == part \in {"pages", "stations", "igate"} /\ Init /\ Tables!Init

Following == part = "pages"  /\ Next        /\ UNCHANGED <<part, tableVars>>
Recording == part = "stations" /\ Tables!Hear /\ UNCHANGED <<part, vars>>
Judging   == part = "igate" /\ Tables!Judge /\ UNCHANGED <<part, vars>>

\* Nothing more is heard.
Silence == (Len(heard) = MaxHeard \/ Len(judged) = MaxHeard) /\ UNCHANGED boardVars

BoardNext == Following \/ Recording \/ Judging \/ Silence

BoardSpec == BoardInit /\ [][BoardNext]_boardVars

\* The fairness of FairSpec, where there are pages.
FairBoardSpec ==
    /\ BoardSpec
    /\ WF_boardVars(part = "pages" /\ Tick /\ UNCHANGED <<part, tableVars>>)
    /\ \A c \in Pages : SF_boardVars(part = "pages" /\ Expire(c) /\ UNCHANGED <<part, tableVars>>)

-----------------------------------------------------------------------------
TablesTell == Tables!TablesTell
=============================================================================
