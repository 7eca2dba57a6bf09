-------------------------------- MODULE Filters --------------------------------
(***************************************************************************)
(* The filter chain of a digipeater's source (src/src/digipeater/filter.rs). *)
(* A callsign and a pattern is a sequence of letters.  What a regular        *)
(* expression matches is up to the regex crate: it is the set of the texts   *)
(* that it matches, if it compiles.                                          *)
(***************************************************************************)
EXTENDS Naturals, Sequences, SequencesExt, Functions

CONSTANTS
    Upper,    \* to_uppercase: a function on letters, the star included
    Specs,    \* filters to add: a kind, with a list of patterns or an expression
    Packets,  \* packets to check
    MaxAdded  \* bound: filters added

\* What the constants must be: only the star is a star in upper case.
Sensible ==
    /\ \A l \in DOMAIN Upper : Upper[l] = "*" <=> l = "*"
    /\ \A s \in Specs : s.kind \in {"b", "p", "-b", "-p"} => s.items \in Seq(Seq(DOMAIN Upper))
    /\ \A p \in Packets : p.source \in Seq(DOMAIN Upper) /\ p.dest \in Seq(DOMAIN Upper)
    /\ MaxAdded \in Nat

VARIABLES
    filters,  \* FilterChain.filters
    specs     \* history: the specifications that add_filter was called with

vars == <<filters, specs>>

Init == filters = <<>> /\ specs = <<>>

-----------------------------------------------------------------------------
to_uppercase(word) == [i \in DOMAIN word |-> Upper[word[i]]]

\* The order of the words does not matter to what they match.
parse_slash_list(items) == {to_uppercase(w) : w \in Range(items) \ {<<>>}}

Lists       == {"b", "p", "-b", "-p"}
Expressions == {"regex-source", "regex-destination", "regex-via", "regex-data"}

\* A list without a pattern, an expression that does not compile and an unknown
\* kind are refused.
parse_filter(spec) ==
    CASE spec.kind \in Lists /\ parse_slash_list(spec.items) # {} ->
             {[kind |-> spec.kind, items |-> parse_slash_list(spec.items)]}
      [] spec.kind \in Expressions /\ spec.compiles ->
             {[kind |-> spec.kind, items |-> spec.matches]}
      [] OTHER -> {}

add_filter(spec) ==
    /\ Len(specs) < MaxAdded
    /\ specs' = Append(specs, spec)
    /\ filters' = IF parse_filter(spec) = {} THEN filters
                  ELSE Append(filters, CHOOSE f \in parse_filter(spec) : TRUE)

-----------------------------------------------------------------------------
matches_budlist(call, patterns) ==
    \E p \in patterns :
        IF Last(p) = "*" THEN IsPrefix(Front(p), to_uppercase(call)) ELSE to_uppercase(call) = p

matches_prefix(call, prefixes) == \E p \in prefixes : IsPrefix(p, to_uppercase(call))

\* A via without its H-bit, the destination excepted.
matches_regex_via(vias, texts) == \E i \in DOMAIN vias : vias[i].call \in texts

Hits(f, packet) ==
    CASE f.kind \in {"b", "-b"}         -> matches_budlist(packet.source, f.items)
      [] f.kind \in {"p", "-p"}         -> matches_prefix(packet.dest, f.items)
      [] f.kind = "regex-source"        -> packet.source \in f.items
      [] f.kind = "regex-destination"   -> packet.dest \in f.items
      [] f.kind = "regex-via"           -> matches_regex_via(packet.vias, f.items)
      [] f.kind = "regex-data"          -> packet.data \in f.items

Positive(f) == f.kind \in {"b", "p"}

\* Mutant: a packet that a positive filter names passes at once.
FirstThatHits(chain, packet) ==
    \/ \E i \in DOMAIN chain : Positive(chain[i]) /\ Hits(chain[i], packet)
    \/ \A i \in DOMAIN chain : ~Positive(chain[i]) /\ ~Hits(chain[i], packet)
check(chain, packet) ==
    /\ \A i \in DOMAIN chain : ~Positive(chain[i]) => ~Hits(chain[i], packet)
    /\ \/ \A i \in DOMAIN chain : ~Positive(chain[i])
       \/ \E i \in DOMAIN chain : Positive(chain[i]) /\ Hits(chain[i], packet)

Next == \E s \in Specs : add_filter(s)

-----------------------------------------------------------------------------
(* Properties.                                                              *)

Same(v, w) == to_uppercase(v) = to_uppercase(w)
Begins(v, w) == Len(v) <= Len(w) /\ Same(v, SubSeq(w, 1, Len(v)))

\* What a specification says of a packet, in whatever case both are written.
Names(spec, packet) ==
    CASE spec.kind \in {"b", "-b"} ->
            \E i \in DOMAIN spec.items :
                LET w == spec.items[i]
                IN  w # <<>> /\ IF Last(w) = "*" THEN Begins(Front(w), packet.source)
                                ELSE Same(w, packet.source)
      [] spec.kind \in {"p", "-p"} ->
            \E i \in DOMAIN spec.items : spec.items[i] # <<>> /\ Begins(spec.items[i], packet.dest)
      [] OTHER -> Hits([kind |-> spec.kind, items |-> spec.matches], packet)

\* A filter that rejects takes away from what passes exactly what it names, at
\* whatever place in the chain; the first that admits leaves only what it
\* names; every further one takes away nothing and brings back what it names,
\* unless it is rejected.
VerdictFollows ==
    filters' # filters =>
        LET spec   == Last(specs')
            passes == {p \in Packets : check(filters, p)}
            passed == {p \in Packets : check(filters', p)}
            named  == {p \in Packets : Names(spec, p)}
            admits == {i \in DOMAIN filters : Positive(filters[i])}
        IN  /\ ~Positive(spec) => passed = passes \ named
            /\ Positive(spec) /\ admits = {} => passed = passes \cap named
            /\ Positive(spec) /\ admits # {} => passes \subseteq passed /\ passed \subseteq passes \cup named
            /\ Positive(spec) /\ admits # {} /\ admits = DOMAIN filters => passed = passes \cup named

\* Every filter that is added does that to the verdicts.
VerdictsFollow == [][VerdictFollows]_vars
=============================================================================
