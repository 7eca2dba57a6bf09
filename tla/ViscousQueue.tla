----------------------------- MODULE ViscousQueue -----------------------------
(***************************************************************************)
(* The viscous delay of src/src/digipeater/viscous.rs: relays that wait,    *)
(* and are cancelled when the packet is heard from another station first.   *)
(* Relays are numbered in the order they are added.                         *)
(***************************************************************************)
EXTENDS Queues, FiniteSets, SequencesExt

CONSTANTS
    Packets, \* the packets heard, as in DupeChecker
    Delays,  \* delays in use, in ticks
    MaxAdds  \* bound: relays added

VARIABLES
    pending,   \* the waiting relays, each with the time left of its delay
    added,     \* history: relays added
    sent,      \* history: relays drained, in order
    cancelled  \* history: relays cancelled, each with the packet that was heard

queueVars == <<pending, added, sent, cancelled>>

Init == pending = <<>> /\ added = 0 /\ sent = <<>> /\ cancelled = {}

\* The path and the blanks at the end do not matter.
dedup_key(p) == <<p.source, p.dest, p.text>>

Add(p, d) ==
    /\ added < MaxAdds
    /\ added' = added + 1
    /\ pending' = Append(pending, [id |-> added + 1, packet |-> p, left |-> d])
    /\ UNCHANGED <<sent, cancelled>>

\* cancel_if_heard.
Cancel(p) ==
    LET others == {r \in Range(pending) : dedup_key(r.packet) # dedup_key(p)}
    IN  /\ pending' = Select(pending, others)
        /\ cancelled' = cancelled \cup
               {[id |-> r.id, packet |-> r.packet, heard |-> p] : r \in Range(pending) \ others}
        /\ UNCHANGED <<added, sent>>

\* The last one takes the place of the one that is removed.
SwapRemove(q, i) == Front(IF i = Len(q) THEN q ELSE [q EXCEPT ![i] = Last(q)])

\* The body of drain_expired's loop: i stays where it is after a removal.
DrainStep(s) ==
    IF s.i > Len(s.rest) THEN s
    ELSE IF s.rest[s.i].left = 0
    THEN [rest |-> SwapRemove(s.rest, s.i), i |-> s.i, out |-> Append(s.out, s.rest[s.i].id)]
    ELSE [s EXCEPT !.i = @ + 1]

\* The state of the loop after n rounds; each relay gets one.
Round[n \in Nat] ==
    IF n = 0 THEN [rest |-> pending, i |-> 1, out |-> <<>>] ELSE DrainStep(Round[n - 1])
Drained == Round[Len(pending)]

\* Mutant: what is drained stays in the queue.
DrainCopies ==
    /\ sent' = sent \o Drained.out
    /\ UNCHANGED <<pending, added, cancelled>>

Drain ==
    /\ pending' = Drained.rest
    /\ sent' = sent \o Drained.out
    /\ UNCHANGED <<added, cancelled>>

Tick ==
    /\ pending' = [i \in DOMAIN pending |->
                      [pending[i] EXCEPT !.left = IF @ > 0 THEN @ - 1 ELSE 0]]
    /\ UNCHANGED <<added, sent, cancelled>>

Next ==
    \/ \E p \in Packets : Cancel(p) \/ \E d \in Delays : Add(p, d)
    \/ Drain \/ Tick

-----------------------------------------------------------------------------
TypeOK ==
    /\ pending \in Seq([id : Nat, packet : Packets, left : Nat])
    /\ added \in 0 .. MaxAdds
    /\ sent \in Seq(1 .. MaxAdds) /\ cancelled \subseteq [id : 1 .. MaxAdds, packet : Packets, heard : Packets]

Ids(relays) == {r.id : r \in relays}

\* Each relay that was added waits, was sent or was cancelled, and only one of
\* these, whatever order of removals and swaps the queue went through; and one
\* that was cancelled is of what was heard, whatever the paths of the two.
OneFate ==
    /\ 1 .. added = Ids(Range(pending)) \cup Range(sent) \cup Ids(cancelled)
    /\ Len(pending) + Len(sent) + Cardinality(cancelled) = added
    /\ \A r \in cancelled :
          <<r.packet.source, r.packet.dest, r.packet.text>> = <<r.heard.source, r.heard.dest, r.heard.text>>
=============================================================================
