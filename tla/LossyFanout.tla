----------------------------- MODULE LossyFanout -----------------------------
(***************************************************************************)
(* What the packet router promises (src/src/router.rs, header comment): a   *)
(* packet goes to every consumer that has room for it and is dropped for    *)
(* the others; each consumer reads its packets oldest first; no consumer    *)
(* takes part in, or can delay, what another one is given; and it is over   *)
(* only when all that was accepted has gone to the consumers, each of which *)
(* is told so when it has read all that it was given.                        *)
(***************************************************************************)
EXTENDS Naturals, FiniteSets

CONSTANTS Consumers, Room   \* Room[c]: how many unread packets c can hold

VARIABLES
    accepted,   \* packets accepted so far
    count,      \* packets broadcast so far, numbered from 1
    unread,     \* unread[c]: the packets c was given and has not read
    listening,  \* the consumers that have not left
    over,       \* nothing more is accepted or broadcast
    told        \* the consumers that know it is over

vars == <<accepted, count, unread, listening, over, told>>

Init ==
    /\ accepted = 0 /\ count = 0 /\ over = FALSE /\ told = {}
    /\ unread = [c \in Consumers |-> {}]
    /\ listening = Consumers

HasRoom(c) == c \in listening /\ Cardinality(unread[c]) < Room[c]

Accept ==
    /\ ~over /\ accepted' = accepted + 1
    /\ UNCHANGED <<count, unread, listening, over, told>>

Broadcast ==
    /\ count < accepted /\ count' = count + 1
    /\ unread' = [c \in Consumers |-> IF HasRoom(c) THEN unread[c] \cup {count + 1}
                                                    ELSE unread[c]]
    /\ UNCHANGED <<accepted, listening, over, told>>

\* A consumer reads its oldest unread packet.
Read(c) ==
    \E p \in unread[c] :
        /\ \A q \in unread[c] : p <= q
        /\ unread' = [unread EXCEPT ![c] = @ \ {p}]
        /\ UNCHANGED <<accepted, count, listening, over, told>>

Leave(c) ==
    /\ c \in listening \ told
    /\ listening' = listening \ {c}
    /\ unread' = [unread EXCEPT ![c] = {}]
    /\ UNCHANGED <<accepted, count, over, told>>

End ==
    /\ ~over /\ count = accepted /\ over' = TRUE
    /\ UNCHANGED <<accepted, count, unread, listening, told>>

Tell(c) ==
    /\ over /\ c \in listening \ told /\ unread[c] = {} /\ told' = told \cup {c}
    /\ UNCHANGED <<accepted, count, unread, listening, over>>

Next ==
    \/ Accept \/ Broadcast \/ End
    \/ \E c \in Consumers : Read(c) \/ Leave(c) \/ Tell(c)

Spec == Init /\ [][Next]_vars
=============================================================================
