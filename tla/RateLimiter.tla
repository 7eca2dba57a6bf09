------------------------------ MODULE RateLimiter ------------------------------
(***************************************************************************)
(* The token bucket of src/src/digipeater/mod.rs.  Tokens are counted in    *)
(* fractions, Unit of them to the token, in place of the f64 of the code.   *)
(***************************************************************************)
EXTENDS Naturals

CONSTANTS
    Unit,   \* what one transmission costs
    Burst,  \* max_tokens, in fractions
    Rate,   \* refill_rate: fractions per tick
    MaxIdle, \* bound: where elapsed saturates, late enough to overfill the bucket
    Window   \* bound: the longest stretch of the history, in ticks

VARIABLES
    tokens,   \* tokens after the last refill
    elapsed,  \* ticks since last_refill
    allowed   \* history: allowed[w], the transmissions allowed in the last w ticks

rateVars == <<tokens, elapsed, allowed>>

Init == tokens = Burst /\ elapsed = 0 /\ allowed = [w \in 0 .. Window |-> 0]

Lower(a, b) == IF a < b THEN a ELSE b

\* One more transmission, in every stretch that has not ended.
Allow == allowed' = [w \in 0 .. Window |-> allowed[w] + 1]

Refilled == Lower(tokens + elapsed * Rate, Burst)

\* Mutant: last_refill stays where it was.
ConsumeKeepsClock ==
    /\ UNCHANGED elapsed
    /\ IF Refilled >= Unit
       THEN tokens' = Refilled - Unit /\ Allow
       ELSE tokens' = Refilled /\ UNCHANGED allowed

\* try_consume: it refills first, and consumes if there is a token.
TryConsume ==
    /\ elapsed' = 0
    /\ IF Refilled >= Unit
       THEN tokens' = Refilled - Unit /\ Allow
       ELSE tokens' = Refilled /\ UNCHANGED allowed

Tick ==
    /\ elapsed' = Lower(elapsed + 1, MaxIdle)
    /\ allowed' = [w \in 0 .. Window |-> IF w = 0 THEN 0 ELSE allowed[w - 1]]
    /\ UNCHANGED tokens

Next == TryConsume \/ Tick

-----------------------------------------------------------------------------
TypeOK == tokens \in 0 .. Burst /\ elapsed \in 0 .. MaxIdle /\ allowed \in [0 .. Window -> Nat]

\* In any stretch of time no more is transmitted than a full burst and what the
\* rate adds meanwhile, however the calls are spread over it.
RateKept ==
    \A w \in 0 .. Window : Unit * allowed[w] <= Burst + Rate * w
=============================================================================
