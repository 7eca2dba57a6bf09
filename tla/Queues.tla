------------------------------- MODULE Queues -------------------------------
(* Queues, and queues of numbers that are given out in order.                *)
EXTENDS Integers, Sequences, Functions

\* The elements of s that are in S, in their order: SelectSeq, written as a
\* recursive function so that it can be reasoned about.
Select(s, S) ==
    LET kept[n \in Nat] ==
            IF n = 0 THEN <<>>
            ELSE IF s[n] \in S THEN Append(kept[n - 1], s[n]) ELSE kept[n - 1]
    IN  kept[Len(s)]

Increasing(s) == \A i, j \in 1 .. Len(s) : i < j => s[i] < s[j]

\* IsInjective, for sequences.
Distinct(s) == \A i, j \in 1 .. Len(s) : s[i] = s[j] => i = j

Before(A, B) == \A x \in A, y \in B : x < y
=============================================================================
