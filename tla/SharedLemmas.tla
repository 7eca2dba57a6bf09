---------------------------- MODULE SharedLemmas ----------------------------
(* Facts that the proofs about the components share: induction over natural  *)
(* numbers, recursive functions, and queues.                                 *)
EXTENDS Queues, FiniteSets, SequenceTheorems, FiniteSetTheorems, WellFoundedInduction, TLAPS

-----------------------------------------------------------------------------
(* Induction.  The library states it with an operator as a parameter; a set  *)
(* in its place leaves it first-order.                                       *)

LEMMA LeastElement ==
    ASSUME NEW T \in SUBSET Nat, T # {}
    PROVE  \E n \in T : \A m \in T : n <= m
<1> DEFINE R == {ss \in Nat \X Nat : ss[1] < ss[2]}
<1>1. IsWellFoundedOn(R, Nat)
  BY NatLessThanWellFounded DEF OpToRel
<1>2. \A m, n \in Nat : <<m, n>> \in R \/ n <= m
  OBVIOUS
<1> HIDE DEF R
<1>3. \E n \in T : \A m \in T : <<m, n>> \notin R
  BY <1>1, WFMin
<1> QED BY <1>2, <1>3

LEMMA Induction ==
    ASSUME NEW T \in SUBSET Nat, 0 \in T, \A n \in T : n + 1 \in T
    PROVE  T = Nat
<1>1. SUFFICES ASSUME Nat \ T # {} PROVE FALSE
  OBVIOUS
<1>2. PICK n \in Nat \ T : \A m \in Nat \ T : n <= m
  BY <1>1, LeastElement
<1>3. n # 0 /\ n - 1 \in Nat /\ n - 1 \notin Nat \ T
  BY <1>2
<1> QED BY <1>2, <1>3

\* What is built step by step exists as one function: cut it off after n steps,
\* and take of each of these functions its last value.
Iterates(f, S, b, next) ==
    f \in [Nat -> S] /\ f[0] = b /\ \A n \in Nat : f[n + 1] = next[n][f[n]]

LEMMA Recursion ==
    ASSUME NEW S, NEW b \in S, NEW next \in [Nat -> [S -> S]]
    PROVE  \E f : Iterates(f, S, b, next)
<1> DEFINE Upto(n, g) == g[0] = b /\ \A i \in 0 .. n - 1 : g[i + 1] = next[i][g[i]]
           T == {n \in Nat : \E g \in [Nat -> S] : Upto(n, g)}
<1>1. 0 \in T
  <2>1. [i \in Nat |-> b] \in [Nat -> S] /\ Upto(0, [i \in Nat |-> b])
    OBVIOUS
  <2> QED BY <2>1
<1>2. ASSUME NEW n \in T PROVE n + 1 \in T
  <2>1. PICK g \in [Nat -> S] : Upto(n, g)
    OBVIOUS
  <2> DEFINE h == [g EXCEPT ![n + 1] = next[n][g[n]]]
  <2>2. h \in [Nat -> S]
    OBVIOUS
  <2>3. h[n + 1] = next[n][h[n]] /\ \A i \in 0 .. n : h[i] = g[i]
    OBVIOUS
  <2>4. Upto(n + 1, h)
    <3>1. h[0] = b
      BY <2>1, <2>3
    <3>2. ASSUME NEW i \in 0 .. n PROVE h[i + 1] = next[i][h[i]]
      <4>1. CASE i = n
        BY <2>3, <4>1
      <4>2. CASE i # n
        <5>1. i \in 0 .. n - 1 /\ i + 1 \in 0 .. n
          BY <4>2
        <5> QED BY <2>1, <2>3, <5>1
      <4> QED BY <4>1, <4>2
    <3> QED BY <3>1, <3>2
  <2> HIDE DEF h, Upto
  <2> QED BY <2>2, <2>4
<1>3. T = Nat
  <2> HIDE DEF T
  <2> QED BY <1>1, <1>2, Induction DEF T
<1>4. \A n \in Nat : \E g \in [Nat -> S] : Upto(n, g)
  BY <1>3
<1> DEFINE G(n) == CHOOSE g \in [Nat -> S] : Upto(n, g)
<1>5. \A n \in Nat : G(n) \in [Nat -> S] /\ Upto(n, G(n))
  BY <1>4
<1> HIDE DEF G
\* They agree where both are determined.
<1>6. \A n, m \in Nat : n <= m => \A i \in 0 .. n : G(m)[i] = G(n)[i]
  <2>1. SUFFICES ASSUME NEW n \in Nat, NEW m \in Nat, n <= m
                 PROVE  \A i \in 0 .. n : G(m)[i] = G(n)[i]
    OBVIOUS
  <2> DEFINE U == {i \in Nat : i <= n => G(m)[i] = G(n)[i]}
  <2>2. 0 \in U
    BY <1>5
  <2>3. ASSUME NEW i \in U PROVE i + 1 \in U
    <3>1. CASE i + 1 <= n
      <4>1. i \in 0 .. n - 1 /\ i \in 0 .. m - 1
        BY <2>1, <3>1
      <4> QED BY <1>5, <4>1, <3>1
    <3> QED BY <3>1
  <2>4. U = Nat
    <3> HIDE DEF U
    <3> QED BY <2>2, <2>3, Induction DEF U
  <2> QED BY <2>4
<1> DEFINE f == [n \in Nat |-> G(n)[n]]
<1>7. f \in [Nat -> S] /\ f[0] = b
  BY <1>5
<1>8. ASSUME NEW n \in Nat PROVE f[n + 1] = next[n][f[n]]
  <2>1. G(n + 1)[n] = G(n)[n]
    BY <1>6
  <2>2. G(n + 1)[n + 1] = next[n][G(n + 1)[n]]
    <3>1. Upto(n + 1, G(n + 1))
      BY <1>5
    <3> QED BY <3>1
  <2> QED BY <2>1, <2>2
<1> HIDE DEF f
<1>9. Iterates(f, S, b, next)
  BY <1>7, <1>8 DEF Iterates
<1> QED BY <1>9

-----------------------------------------------------------------------------
(* What taking an element from a queue, and adding one, does to types.      *)

LEMMA TailType ==
    ASSUME NEW S, NEW q \in Seq(S), q # <<>>
    PROVE  Head(q) \in S /\ Tail(q) \in Seq(S) /\ Len(Tail(q)) = Len(q) - 1
  OBVIOUS

LEMMA RangeType ==
    ASSUME NEW S, NEW q \in Seq(S)
    PROVE  Range(q) \subseteq S
  BY DEF Range

LEMMA SingletonType ==
    ASSUME NEW S, NEW x \in S
    PROVE  <<x>> \in Seq(S) /\ Len(<<x>>) = 1
  OBVIOUS

LEMMA EmptyType ==
    ASSUME NEW S
    PROVE  <<>> \in Seq(S) /\ Len(<<>>) = 0
  OBVIOUS

LEMMA LengthOne ==
    ASSUME NEW S, NEW q \in Seq(S), Len(q) = 1
    PROVE  q[1] \in S /\ q = <<q[1]>>
<1>1. q[1] \in S /\ <<q[1]>> \in Seq(S) /\ Len(<<q[1]>>) = 1 /\ <<q[1]>>[1] = q[1]
  OBVIOUS
<1>2. \A i \in 1 .. Len(q) : q[i] = <<q[1]>>[i]
  BY <1>1
<1> QED BY <1>1, <1>2, SeqEqual

-----------------------------------------------------------------------------
(* The elements of a queue.                                                 *)

LEMMA RangeEmpty == Range(<<>>) = {}
  BY DEF Range

LEMMA RangeSingleton == ASSUME NEW x PROVE Range(<<x>>) = {x}
  BY DEF Range

LEMMA RangeAppend ==
    ASSUME NEW S, NEW s \in Seq(S), NEW x \in S
    PROVE  Range(Append(s, x)) = Range(s) \cup {x}
<1>1. \A i \in 1 .. Len(s) : Append(s, x)[i] = s[i]
  OBVIOUS
<1>2. Append(s, x)[Len(s) + 1] = x /\ DOMAIN Append(s, x) = 1 .. Len(s) + 1
  OBVIOUS
<1>3. DOMAIN s = 1 .. Len(s) /\ Len(s) \in Nat
  OBVIOUS
<1>4. 1 .. Len(s) + 1 = (1 .. Len(s)) \cup {Len(s) + 1}
  BY <1>3
<1> DEFINE t == Append(s, x)
           n == Len(s)
<1>5. DOMAIN t = DOMAIN s \cup {n + 1} /\ t[n + 1] = x /\ \A i \in DOMAIN s : t[i] = s[i]
  BY <1>1, <1>2, <1>3, <1>4
<1> HIDE DEF t, n
<1>6. ASSUME NEW y \in Range(t) PROVE y \in Range(s) \cup {x}
  <2>1. PICK i \in DOMAIN t : y = t[i]
    BY DEF Range
  <2>2. CASE i \in DOMAIN s
    BY <1>5, <2>1, <2>2 DEF Range
  <2> QED BY <1>5, <2>1, <2>2
<1>7. ASSUME NEW y \in Range(s) PROVE y \in Range(t)
  <2>1. PICK i \in DOMAIN s : y = s[i]
    BY DEF Range
  <2> QED BY <1>5, <2>1 DEF Range
<1>8. x \in Range(t)
  BY <1>5 DEF Range
<1> QED BY <1>6, <1>7, <1>8 DEF t

LEMMA AppendElements ==
    ASSUME NEW S, NEW q \in Seq(S), NEW x \in S
    PROVE  /\ Len(q) \in Nat /\ Len(Append(q, x)) = Len(q) + 1
           /\ Append(q, x)[Len(q) + 1] = x
           /\ \A i \in 1 .. Len(q) : Append(q, x)[i] = q[i]
           /\ \A i \in 1 .. Len(q) + 1 : i \in 1 .. Len(q) \/ i = Len(q) + 1
  OBVIOUS

LEMMA AppendDistinct ==
    ASSUME NEW S, NEW q \in Seq(S), NEW x \in S, Distinct(q), x \notin Range(q)
    PROVE  Distinct(Append(q, x))
<1>1. /\ Len(q) \in Nat /\ DOMAIN q = 1 .. Len(q) /\ Len(Append(q, x)) = Len(q) + 1
      /\ Append(q, x)[Len(q) + 1] = x
      /\ \A i \in 1 .. Len(q) : Append(q, x)[i] = q[i] /\ q[i] # x
      /\ \A i \in 1 .. Len(q) + 1 : i \in 1 .. Len(q) \/ i = Len(q) + 1
  BY AppendElements DEF Range
<1>2. ASSUME NEW i \in 1 .. Len(q) + 1, NEW j \in 1 .. Len(q) + 1, Append(q, x)[i] = Append(q, x)[j]
      PROVE  i = j
  <2>1. CASE i \in 1 .. Len(q) /\ j \in 1 .. Len(q)
    <3>1. q[i] = q[j]
      BY <1>1, <1>2, <2>1
    <3> QED BY <1>1, <2>1, <3>1 DEF Distinct
  <2>2. CASE i = Len(q) + 1 /\ j \in 1 .. Len(q)
    BY <1>1, <1>2, <2>2
  <2>3. CASE j = Len(q) + 1 /\ i \in 1 .. Len(q)
    BY <1>1, <1>2, <2>3
  <2>4. CASE i = Len(q) + 1 /\ j = Len(q) + 1
    BY <2>4
  <2> QED BY <1>1, <2>1, <2>2, <2>3, <2>4
<1> QED BY <1>1, <1>2 DEF Distinct

\* q is s and then t.
Joins(S, q, s, t) ==
    /\ q \in Seq(S) /\ Len(q) = Len(s) + Len(t)
    /\ \A i \in 1 .. Len(s) : q[i] = s[i]
    /\ \A i \in 1 .. Len(t) : q[Len(s) + i] = t[i]

LEMMA ConcatElements ==
    ASSUME NEW S, NEW s \in Seq(S), NEW t \in Seq(S)
    PROVE  Joins(S, s \o t, s, t)
<1>1. /\ Len(s) \in Nat /\ Len(t) \in Nat
      /\ s \o t \in Seq(S) /\ Len(s \o t) = Len(s) + Len(t)
      /\ \A i \in 1 .. Len(s) + Len(t) : (s \o t)[i] = IF i <= Len(s) THEN s[i] ELSE t[i - Len(s)]
  BY ConcatProperties
<1>2. \A i \in 1 .. Len(s) : i \in 1 .. Len(s) + Len(t) /\ (s \o t)[i] = s[i]
  BY <1>1
<1>3. \A i \in 1 .. Len(t) : (s \o t)[Len(s) + i] = t[i]
  <2>1. \A i \in 1 .. Len(t) : /\ Len(s) + i \in 1 .. Len(s) + Len(t)
                               /\ ~(Len(s) + i <= Len(s)) /\ (Len(s) + i) - Len(s) = i
    BY <1>1
  <2> QED BY <1>1, <2>1
<1> QED BY <1>1, <1>2, <1>3 DEF Joins

LEMMA RangeConcat ==
    ASSUME NEW S, NEW s \in Seq(S), NEW t \in Seq(S)
    PROVE  Range(s \o t) = Range(s) \cup Range(t)
<1>1. /\ Len(s) \in Nat /\ Len(t) \in Nat
      /\ DOMAIN s = 1 .. Len(s) /\ DOMAIN t = 1 .. Len(t) /\ DOMAIN (s \o t) = 1 .. Len(s) + Len(t)
      /\ \A i \in 1 .. Len(s) + Len(t) : (s \o t)[i] = IF i <= Len(s) THEN s[i] ELSE t[i - Len(s)]
  BY ConcatProperties
<1>2. \A i \in 1 .. Len(s) : i \in 1 .. Len(s) + Len(t) /\ (s \o t)[i] = s[i]
  BY <1>1
<1>3. \A i \in 1 .. Len(t) : Len(s) + i \in 1 .. Len(s) + Len(t) /\ (s \o t)[Len(s) + i] = t[i]
  BY <1>1
<1>4. ASSUME NEW i \in 1 .. Len(s) + Len(t) PROVE (s \o t)[i] \in Range(s) \cup Range(t)
  <2>1. CASE i <= Len(s)
    BY <1>1, <2>1 DEF Range
  <2>2. CASE ~(i <= Len(s))
    <3>1. i - Len(s) \in 1 .. Len(t) /\ (s \o t)[i] = t[i - Len(s)]
      BY <1>1, <2>2
    <3> QED BY <1>1, <3>1 DEF Range
  <2> QED BY <2>1, <2>2
<1>5. ASSUME NEW x \in Range(s) \cup Range(t) PROVE x \in Range(s \o t)
  <2>1. CASE x \in Range(s)
    BY <1>1, <1>2, <2>1, Zenon DEF Range
  <2>2. CASE x \in Range(t)
    BY <1>1, <1>3, <2>2, Zenon DEF Range
  <2> QED BY <2>1, <2>2
<1>6. \A x \in Range(s \o t) : x \in Range(s) \cup Range(t)
  BY <1>1, <1>4, Zenon DEF Range
<1> QED BY <1>5, <1>6

\* A nonempty queue has its head and what the rest has.
LEMMA TakeElements ==
    ASSUME NEW S, NEW q \in Seq(S), q # <<>>
    PROVE  Range(q) = {Head(q)} \cup Range(Tail(q))
<1>1. /\ Len(q) \in Nat /\ Len(q) > 0 /\ DOMAIN q = 1 .. Len(q) /\ Head(q) = q[1]
      /\ Len(Tail(q)) = Len(q) - 1 /\ DOMAIN Tail(q) = 1 .. Len(q) - 1
      /\ \A i \in 1 .. Len(q) - 1 : Tail(q)[i] = q[i + 1]
  OBVIOUS
<1>2. ASSUME NEW i \in 1 .. Len(q) PROVE q[i] \in {Head(q)} \cup Range(Tail(q))
  <2>1. CASE i = 1
    BY <1>1, <2>1
  <2>2. CASE i # 1
    <3>1. i - 1 \in 1 .. Len(q) - 1 /\ Tail(q)[i - 1] = q[i]
      BY <1>1, <2>2
    <3> QED BY <1>1, <3>1 DEF Range
  <2> QED BY <2>1, <2>2
<1>3. ASSUME NEW i \in 1 .. Len(q) - 1 PROVE Tail(q)[i] \in Range(q)
  <2>1. i + 1 \in 1 .. Len(q)
    BY <1>1
  <2> QED BY <1>1, <2>1 DEF Range
<1>4. Head(q) \in Range(q)
  BY <1>1 DEF Range
<1> QED BY <1>1, <1>2, <1>3, <1>4 DEF Range

-----------------------------------------------------------------------------
(* Queues of increasing numbers.                                            *)

\* A nonempty queue is its head and, after it, the rest.
LEMMA TakeHead ==
    ASSUME NEW q \in Seq(Nat), q # <<>>, Increasing(q)
    PROVE  /\ Range(q) = {Head(q)} \cup Range(Tail(q))
           /\ Increasing(Tail(q))
           /\ Before({Head(q)}, Range(Tail(q)))
<1>1. /\ Len(q) \in Nat /\ Len(q) > 0 /\ DOMAIN q = 1 .. Len(q) /\ Head(q) = q[1]
      /\ Len(Tail(q)) = Len(q) - 1 /\ DOMAIN Tail(q) = 1 .. Len(q) - 1
      /\ \A i \in 1 .. Len(q) - 1 : Tail(q)[i] = q[i + 1]
  OBVIOUS
<1>2. Range(q) = {Head(q)} \cup Range(Tail(q))
  BY TakeElements
<1>3. Increasing(Tail(q))
  BY <1>1 DEF Increasing
<1>4. Before({Head(q)}, Range(Tail(q)))
  <2>1. ASSUME NEW i \in 1 .. Len(q) - 1 PROVE q[1] < Tail(q)[i]
    BY <1>1 DEF Increasing
  <2> QED BY <1>1, <2>1 DEF Before, Range
<1> QED BY <1>2, <1>3, <1>4

LEMMA AppendIncreasing ==
    ASSUME NEW q \in Seq(Nat), NEW x \in Nat, Increasing(q), Before(Range(q), {x})
    PROVE  Increasing(Append(q, x))
<1>1. /\ Len(q) \in Nat /\ DOMAIN q = 1 .. Len(q) /\ Len(Append(q, x)) = Len(q) + 1
      /\ Append(q, x)[Len(q) + 1] = x
      /\ \A i \in 1 .. Len(q) : Append(q, x)[i] = q[i]
  OBVIOUS
<1>2. \A i \in 1 .. Len(q) : q[i] < x
  BY <1>1 DEF Before, Range
<1> SUFFICES ASSUME NEW i \in 1 .. Len(q) + 1, NEW j \in 1 .. Len(q) + 1, i < j
             PROVE  Append(q, x)[i] < Append(q, x)[j]
  BY <1>1 DEF Increasing
<1>3. i \in 1 .. Len(q)
  BY <1>1
<1>4. CASE j \in 1 .. Len(q)
  BY <1>1, <1>3, <1>4 DEF Increasing
<1>5. CASE j = Len(q) + 1
  BY <1>1, <1>2, <1>3, <1>5
<1> QED BY <1>1, <1>4, <1>5

LEMMA ConcatIncreasing ==
    ASSUME NEW s \in Seq(Nat), NEW t \in Seq(Nat), Increasing(s), Increasing(t), Before(Range(s), Range(t))
    PROVE  Increasing(s \o t)
<1> DEFINE m == Len(s)
           n == Len(t)
           q == s \o t
<1>1. m \in Nat /\ n \in Nat /\ DOMAIN s = 1 .. m /\ DOMAIN t = 1 .. n
  OBVIOUS
<1>2. /\ Len(q) = m + n
      /\ \A i \in 1 .. m : q[i] = s[i]
      /\ \A i \in 1 .. n : q[m + i] = t[i]
  <2>1. Joins(Nat, q, s, t)
    BY ConcatElements
  <2> HIDE DEF q
  <2> QED BY <2>1 DEF Joins
<1>3. /\ \A i, j \in 1 .. m : i < j => s[i] < s[j]
      /\ \A i, j \in 1 .. n : i < j => t[i] < t[j]
  BY DEF Increasing
<1>4. \A i \in 1 .. m, j \in 1 .. n : s[i] < t[j]
  BY <1>1 DEF Before, Range
<1> HIDE DEF m, n, q
<1>5. ASSUME NEW i \in 1 .. m + n, NEW j \in 1 .. m + n, i < j PROVE q[i] < q[j]
  <2>1. CASE i \in 1 .. m /\ j \in 1 .. m
    BY <1>2, <1>3, <1>5, <2>1
  <2>2. CASE i \in 1 .. m /\ j \notin 1 .. m
    <3>1. j - m \in 1 .. n /\ m + (j - m) = j
      BY <1>1, <1>5, <2>2
    <3>2. q[i] = s[i] /\ q[j] = t[j - m]
      BY <1>2, <2>2, <3>1
    <3> QED BY <1>4, <2>2, <3>1, <3>2
  <2>3. CASE i \notin 1 .. m
    <3>1. i - m \in 1 .. n /\ m + (i - m) = i /\ j - m \in 1 .. n /\ m + (j - m) = j /\ i - m < j - m
      BY <1>1, <1>5, <2>3
    <3>2. q[i] = t[i - m] /\ q[j] = t[j - m]
      BY <1>2, <3>1
    <3> QED BY <1>3, <3>1, <3>2
  <2> QED BY <2>1, <2>2, <2>3
<1> QED BY <1>2, <1>5 DEF Increasing, q

\* A queue of increasing numbers has as many elements as places.
LEMMA IncreasingCardinality ==
    ASSUME NEW q \in Seq(Nat), Increasing(q)
    PROVE  IsFiniteSet(Range(q)) /\ Cardinality(Range(q)) = Len(q)
<1>1. Len(q) \in Nat /\ DOMAIN q = 1 .. Len(q) /\ q \in [1 .. Len(q) -> Nat]
  OBVIOUS
<1>2. IsFiniteSet(1 .. Len(q)) /\ Cardinality(1 .. Len(q)) = Len(q)
  <2>1. 1 \in Int /\ Len(q) \in Int /\ (1 > Len(q) => Len(q) = 0) /\ Len(q) - 1 + 1 = Len(q)
    BY <1>1
  <2> QED BY <2>1, FS_Interval
<1>3. ASSUME NEW i \in 1 .. Len(q), NEW j \in 1 .. Len(q), q[i] = q[j] PROVE i = j
  <2>1. q[i] \in Nat /\ ~(q[i] < q[j]) /\ ~(q[j] < q[i])
    BY <1>1, <1>3
  <2>2. ~(i < j) /\ ~(j < i)
    BY <2>1 DEF Increasing
  <2> QED BY <1>1, <2>2
<1>4. q \in [1 .. Len(q) -> Range(q)] /\ \A x \in Range(q) : \E i \in 1 .. Len(q) : q[i] = x
  BY <1>1, Zenon DEF Range
<1>5. ExistsBijection(1 .. Len(q), Range(q))
  BY <1>3, <1>4, <1>1 DEF ExistsBijection, Bijection, Injection, Surjection, IsInjective
<1> QED BY <1>2, <1>5, FS_Bijection

\* The rest of a queue of increasing numbers is the queue without its head.
LEMMA TailElements ==
    ASSUME NEW q \in Seq(Nat), q # <<>>, Increasing(q)
    PROVE  /\ Range(Tail(q)) = Range(q) \ {Head(q)}
           /\ Head(q) \in Range(q)
           /\ \A x \in Range(q) : Head(q) <= x
<1>1. Head(q) \in Nat /\ Range(Tail(q)) \subseteq Nat
  BY TailType, RangeType
<1> QED BY <1>1, TakeHead DEF Before

-----------------------------------------------------------------------------
(* What is queued behind what was taken.                                    *)

LEMMA TakenQueuedAppend ==
    ASSUME NEW t \in Seq(Nat), NEW q \in Seq(Nat), NEW x \in Nat
    PROVE  t \o Append(q, x) = Append(t \o q, x)
<1>1. <<x>> \in Seq(Nat) /\ t \o q \in Seq(Nat)
  BY SingletonType, ConcatProperties
<1> QED BY <1>1, AppendIsConcat, ConcatAssociative

LEMMA Regroup ==
    ASSUME NEW a \in Seq(Nat), NEW b \in Seq(Nat), NEW c \in Seq(Nat)
    PROVE  (a \o b) \o c = a \o (b \o c)
  BY ConcatAssociative

LEMMA TakenQueuedTake ==
    ASSUME NEW t \in Seq(Nat), NEW q \in Seq(Nat), q # <<>>
    PROVE  Append(t, Head(q)) \o Tail(q) = t \o q
<1>1. Head(q) \in Nat /\ Tail(q) \in Seq(Nat) /\ <<Head(q)>> \in Seq(Nat)
  BY TailType, SingletonType
<1>2. q = <<Head(q)>> \o Tail(q)
  <2>1. /\ Len(q) \in Nat \ {0} /\ Head(q) = q[1] /\ Len(Tail(q)) = Len(q) - 1
        /\ \A i \in 1 .. Len(q) - 1 : Tail(q)[i] = q[i + 1]
    OBVIOUS
  <2>2. /\ <<Head(q)>> \o Tail(q) \in Seq(Nat) /\ Len(<<Head(q)>> \o Tail(q)) = Len(q)
        /\ \A i \in 1 .. Len(q) : (<<Head(q)>> \o Tail(q))[i] =
                                       IF i <= 1 THEN Head(q) ELSE Tail(q)[i - 1]
    <3> DEFINE h == <<Head(q)>>
               both == h \o Tail(q)
    <3>1. h \in Seq(Nat) /\ Len(h) = 1 /\ h[1] = Head(q)
      BY <1>1
    <3> HIDE DEF h
    <3>2. Joins(Nat, both, h, Tail(q))
      BY <1>1, <3>1, ConcatElements
    <3> HIDE DEF both
    <3>3. both \in Seq(Nat) /\ Len(both) = Len(q) /\ both[1] = Head(q)
      BY <2>1, <3>1, <3>2 DEF Joins
    <3>4. ASSUME NEW i \in 1 .. Len(q), ~(i <= 1) PROVE both[i] = Tail(q)[i - 1]
      <4>1. i - 1 \in 1 .. Len(Tail(q)) /\ 1 + (i - 1) = i
        BY <2>1, <3>4
      <4> QED BY <3>1, <3>2, <4>1 DEF Joins
    <3>5. \A i \in 1 .. Len(q) : i <= 1 => i = 1
      BY <2>1
    <3> QED BY <3>3, <3>4, <3>5 DEF both, h
  <2>3. ASSUME NEW i \in 1 .. Len(q) PROVE q[i] = (<<Head(q)>> \o Tail(q))[i]
    <3>1. CASE i = 1
      BY <2>1, <2>2, <3>1
    <3>2. CASE i # 1
      <4>1. i - 1 \in 1 .. Len(q) - 1 /\ ~(i <= 1) /\ (i - 1) + 1 = i
        BY <2>1, <3>2
      <4> QED BY <2>1, <2>2, <4>1
    <3> QED BY <3>1, <3>2
  <2> QED BY <2>2, <2>3, SeqEqual
<1> DEFINE h == <<Head(q)>>
           r == Tail(q)
<1>3. Append(t, Head(q)) = t \o h
  BY <1>1, AppendIsConcat
<1>4. h \in Seq(Nat) /\ r \in Seq(Nat) /\ q = h \o r
  BY <1>1, <1>2
<1> HIDE DEF h, r
<1>5. (t \o h) \o r = t \o (h \o r)
  BY <1>4, Regroup
<1>6. Append(t, Head(q)) \o r = t \o q
  BY <1>3, <1>4, <1>5
<1> QED BY <1>6 DEF r

LEMMA PrefixElements ==
    ASSUME NEW t \in Seq(Nat), NEW q \in Seq(Nat)
    PROVE  \A i \in 1 .. Len(t) : i \in 1 .. Len(t \o q) /\ (t \o q)[i] = t[i]
<1>1. Len(t) \in Nat /\ Len(q) \in Nat
  OBVIOUS
<1>2. \A i \in 1 .. Len(t) : i \in 1 .. Len(t) + Len(q) /\ i <= Len(t)
  BY <1>1
<1> QED BY <1>2, ConcatProperties

LEMMA PrefixIncreasing ==
    ASSUME NEW t \in Seq(Nat), NEW q \in Seq(Nat), Increasing(t \o q)
    PROVE  Increasing(t) /\ Increasing(q)
<1>1. /\ Len(t) \in Nat /\ Len(q) \in Nat /\ Len(t \o q) = Len(t) + Len(q)
      /\ \A i \in 1 .. Len(t) : i \in 1 .. Len(t) + Len(q) /\ (t \o q)[i] = t[i]
      /\ \A i \in 1 .. Len(q) : /\ Len(t) + i \in 1 .. Len(t) + Len(q)
                               /\ (t \o q)[Len(t) + i] = q[i]
  BY ConcatProperties
<1>2. Increasing(t)
  BY <1>1 DEF Increasing
<1>3. ASSUME NEW i \in 1 .. Len(q), NEW j \in 1 .. Len(q), i < j PROVE q[i] < q[j]
  <2>1. \A k, l \in 1 .. Len(t) + Len(q) : k < l => (t \o q)[k] < (t \o q)[l]
    BY <1>1 DEF Increasing
  <2>2. /\ Len(t) + i \in 1 .. Len(t) + Len(q) /\ Len(t) + j \in 1 .. Len(t) + Len(q)
        /\ Len(t) + i < Len(t) + j
    BY <1>1, <1>3
  <2>3. (t \o q)[Len(t) + i] < (t \o q)[Len(t) + j]
    BY <2>1, <2>2, Zenon
  <2> QED BY <1>1, <2>3
<1> QED BY <1>2, <1>3 DEF Increasing

-----------------------------------------------------------------------------
(* Select.                                                                  *)

\* The first n elements of a sequence.
First(s, n) == {s[i] : i \in 1 .. n}

LEMMA FirstGrows ==
    ASSUME NEW s, NEW n \in Nat
    PROVE  First(s, 0) = {} /\ First(s, n + 1) = First(s, n) \cup {s[n + 1]}
<1>1. 1 .. 0 = {} /\ 1 .. n + 1 = (1 .. n) \cup {n + 1}
  OBVIOUS
<1> QED BY <1>1 DEF First

LEMMA FirstAll ==
    ASSUME NEW A, NEW s \in Seq(A)
    PROVE  First(s, Len(s)) = Range(s)
  BY DEF First, Range

\* kept[n] is what Select has kept of the first n elements.
Keeps(kept, s, S) ==
    /\ kept[0] = <<>>
    /\ \A n \in Nat : kept[n + 1] = IF s[n + 1] \in S THEN Append(kept[n], s[n + 1]) ELSE kept[n]

LEMMA SelectKeeps ==
    ASSUME NEW s, NEW S
    PROVE  \E kept : Keeps(kept, s, S) /\ Select(s, S) = kept[Len(s)]
<1> DEFINE B == {s[n] : n \in Nat}
           next == [n \in Nat |-> [q \in Seq(B) |-> IF s[n + 1] \in S THEN Append(q, s[n + 1]) ELSE q]]
<1>1. next \in [Nat -> [Seq(B) -> Seq(B)]]
  <2>1. ASSUME NEW n \in Nat, NEW q \in Seq(B)
        PROVE  (IF s[n + 1] \in S THEN Append(q, s[n + 1]) ELSE q) \in Seq(B)
    <3>1. s[n + 1] \in B
      OBVIOUS
    <3> HIDE DEF B
    <3> QED BY <3>1
  <2> QED BY <2>1
<1>2. <<>> \in Seq(B)
  OBVIOUS
<1>3. PICK h : Iterates(h, Seq(B), <<>>, next)
  <2> HIDE DEF next, B
  <2> QED BY <1>1, <1>2, Recursion
<1> DEFINE Eq(g) == g = [n \in Nat |-> IF n = 0 THEN <<>>
                                       ELSE IF s[n] \in S THEN Append(g[n - 1], s[n]) ELSE g[n - 1]]
<1>4. Eq(h)
  <2>1. h \in [Nat -> Seq(B)] /\ h[0] = <<>> /\ \A n \in Nat : h[n + 1] = next[n][h[n]]
    BY <1>3 DEF Iterates
  <2>2. ASSUME NEW n \in Nat, n # 0
        PROVE  h[n] = IF s[n] \in S THEN Append(h[n - 1], s[n]) ELSE h[n - 1]
    <3>1. n - 1 \in Nat /\ (n - 1) + 1 = n
      BY <2>2
    <3>2. h[n - 1] \in Seq(B) /\ h[n] = next[n - 1][h[n - 1]]
      BY <2>1, <3>1
    <3> HIDE DEF B
    <3> QED BY <3>1, <3>2
  <2> QED BY <2>1, <2>2
<1> DEFINE kept == CHOOSE g : Eq(g)
<1>5. Eq(kept)
  <2> HIDE DEF Eq
  <2> QED BY <1>4
<1>6. Select(s, S) = kept[Len(s)]
  BY DEF Select
<1> HIDE DEF kept
<1>7. Keeps(kept, s, S)
  <2>1. kept[0] = <<>> /\ \A n \in Nat \ {0} :
            kept[n] = IF s[n] \in S THEN Append(kept[n - 1], s[n]) ELSE kept[n - 1]
    BY <1>5
  <2> HIDE DEF Eq
  <2>2. ASSUME NEW n \in Nat
        PROVE  kept[n + 1] = IF s[n + 1] \in S THEN Append(kept[n], s[n + 1]) ELSE kept[n]
    <3>1. n + 1 \in Nat \ {0} /\ (n + 1) - 1 = n
      OBVIOUS
    <3> QED BY <2>1, <3>1
  <2> QED BY <2>1, <2>2 DEF Keeps
<1> QED BY <1>6, <1>7

LEMMA SelectType ==
    ASSUME NEW A, NEW s \in Seq(A), NEW S
    PROVE  Select(s, S) \in Seq(A) /\ Range(Select(s, S)) = Range(s) \cap S
<1>1. PICK kept : Keeps(kept, s, S) /\ Select(s, S) = kept[Len(s)]
  BY SelectKeeps
<1> DEFINE T == {n \in Nat : n <= Len(s) => kept[n] \in Seq(A) /\ Range(kept[n]) = First(s, n) \cap S}
<1>2. 0 \in T
  <2>1. kept[0] = <<>> /\ <<>> \in Seq(A)
    BY <1>1 DEF Keeps
  <2>2. Range(<<>>) = {} /\ First(s, 0) = {}
    BY RangeEmpty, FirstGrows
  <2> QED BY <2>1, <2>2
<1>3. ASSUME NEW n \in T PROVE n + 1 \in T
  <2>1. SUFFICES ASSUME n + 1 <= Len(s)
                 PROVE  kept[n + 1] \in Seq(A) /\ Range(kept[n + 1]) = First(s, n + 1) \cap S
    OBVIOUS
  <2>2. s[n + 1] \in A /\ kept[n] \in Seq(A) /\ Range(kept[n]) = First(s, n) \cap S
    BY <2>1
  <2>3. First(s, n + 1) = First(s, n) \cup {s[n + 1]}
    BY FirstGrows
  <2>4. CASE s[n + 1] \in S
    <3>1. kept[n + 1] = Append(kept[n], s[n + 1])
      BY <1>1, <2>4 DEF Keeps
    <3>2. Range(Append(kept[n], s[n + 1])) = Range(kept[n]) \cup {s[n + 1]}
      BY <2>2, RangeAppend
    <3>3. Append(kept[n], s[n + 1]) \in Seq(A)
      BY <2>2
    <3> QED BY <2>2, <2>3, <2>4, <3>1, <3>2, <3>3
  <2>5. CASE s[n + 1] \notin S
    BY <1>1, <2>2, <2>3, <2>5 DEF Keeps
  <2> QED BY <2>4, <2>5
<1>4. T = Nat
  <2> HIDE DEF T
  <2> QED BY <1>2, <1>3, Induction DEF T
<1>5. Len(s) \in Nat
  OBVIOUS
<1> QED BY <1>1, <1>4, <1>5, FirstAll

\* Increasing numbers stay so.
LEMMA SelectIncreasing ==
    ASSUME NEW s \in Seq(Nat), NEW S, Increasing(s)
    PROVE  Increasing(Select(s, S))
<1>1. PICK kept : Keeps(kept, s, S) /\ Select(s, S) = kept[Len(s)]
  BY SelectKeeps
<1> DEFINE T == {n \in Nat : n <= Len(s) => /\ kept[n] \in Seq(Nat) /\ Increasing(kept[n])
                                            /\ Range(kept[n]) \subseteq First(s, n)}
<1>2. 0 \in T
  <2>1. kept[0] = <<>> /\ <<>> \in Seq(Nat) /\ Len(<<>>) = 0
    BY <1>1 DEF Keeps
  <2>2. Range(<<>>) = {} /\ Increasing(<<>>)
    BY <2>1, RangeEmpty DEF Increasing
  <2> QED BY <2>1, <2>2
<1>3. ASSUME NEW n \in T PROVE n + 1 \in T
  <2>1. SUFFICES ASSUME n + 1 <= Len(s)
                 PROVE  /\ kept[n + 1] \in Seq(Nat) /\ Increasing(kept[n + 1])
                        /\ Range(kept[n + 1]) \subseteq First(s, n + 1)
    OBVIOUS
  <2>2. /\ s[n + 1] \in Nat /\ kept[n] \in Seq(Nat) /\ Increasing(kept[n])
        /\ Range(kept[n]) \subseteq First(s, n)
    BY <2>1
  <2>3. First(s, n + 1) = First(s, n) \cup {s[n + 1]}
    BY FirstGrows
  <2>4. CASE s[n + 1] \in S
    <3>1. kept[n + 1] = Append(kept[n], s[n + 1])
      BY <1>1, <2>4 DEF Keeps
    <3>2. Range(Append(kept[n], s[n + 1])) = Range(kept[n]) \cup {s[n + 1]}
      BY <2>2, RangeAppend
    <3>3. Before(First(s, n), {s[n + 1]})
      <4>1. \A i \in 1 .. n : i \in 1 .. Len(s) /\ i < n + 1 /\ n + 1 \in 1 .. Len(s)
        BY <2>1
      <4> QED BY <4>1 DEF First, Before, Increasing
    <3>4. Increasing(Append(kept[n], s[n + 1]))
      BY <2>2, <3>3, AppendIncreasing DEF Before
    <3>5. Append(kept[n], s[n + 1]) \in Seq(Nat)
      BY <2>2
    <3> QED BY <2>2, <2>3, <3>1, <3>2, <3>4, <3>5
  <2>5. CASE s[n + 1] \notin S
    BY <1>1, <2>2, <2>3, <2>5 DEF Keeps
  <2> QED BY <2>4, <2>5
<1>4. T = Nat
  <2> HIDE DEF T
  <2> QED BY <1>2, <1>3, Induction DEF T
<1>5. Len(s) \in Nat
  OBVIOUS
<1> QED BY <1>1, <1>4, <1>5

\* Of a queue without duplicates each element is kept, once, or counted among
\* those that are not.
LEMMA SelectCounts ==
    ASSUME NEW A, NEW s \in Seq(A), NEW S, Distinct(s)
    PROVE  /\ Distinct(Select(s, S)) /\ IsFiniteSet(Range(s) \ S)
           /\ Len(Select(s, S)) + Cardinality(Range(s) \ S) = Len(s)
<1>1. PICK kept : Keeps(kept, s, S) /\ Select(s, S) = kept[Len(s)]
  BY SelectKeeps
<1> DEFINE Counts(n) == /\ kept[n] \in Seq(A) /\ Distinct(kept[n]) /\ Range(kept[n]) \subseteq First(s, n)
                        /\ IsFiniteSet(First(s, n) \ S)
                        /\ Len(kept[n]) + Cardinality(First(s, n) \ S) = n
           T == {n \in Nat : n <= Len(s) => Counts(n)}
<1>2. 0 \in T
  <2>1. kept[0] = <<>> /\ <<>> \in Seq(A) /\ Len(<<>>) = 0 /\ DOMAIN <<>> = {}
    BY <1>1 DEF Keeps
  <2>2. Range(<<>>) = {} /\ Distinct(<<>>) /\ First(s, 0) \ S = {}
    BY <2>1, RangeEmpty, FirstGrows DEF Distinct
  <2>3. Counts(0)
    <3>1. IsFiniteSet({}) /\ Cardinality({}) = 0
      BY FS_EmptySet
    <3>2. IsFiniteSet(First(s, 0) \ S) /\ Cardinality(First(s, 0) \ S) = 0
      BY <2>2, <3>1, Zenon
    <3> QED BY <2>1, <2>2, <3>2
  <2> HIDE DEF Counts
  <2> QED BY <2>3
<1>3. ASSUME NEW n \in T PROVE n + 1 \in T
  <2> HIDE DEF Counts
  <2>1. SUFFICES ASSUME n + 1 <= Len(s) PROVE Counts(n + 1)
    OBVIOUS
  <2>2. Counts(n) /\ s[n + 1] \in A
    BY <2>1
  <2>3. kept[n] \in Seq(A) /\ Len(kept[n]) \in Nat /\ First(s, n + 1) = First(s, n) \cup {s[n + 1]}
    BY <2>2, FirstGrows DEF Counts
  <2>4. s[n + 1] \notin First(s, n)
    <3>1. \A i \in 1 .. n : i # n + 1 /\ i \in DOMAIN s /\ n + 1 \in DOMAIN s
      BY <2>1
    <3> QED BY <3>1 DEF First, Distinct
  <2>5. CASE s[n + 1] \in S
    <3>1. kept[n + 1] = Append(kept[n], s[n + 1]) /\ First(s, n + 1) \ S = First(s, n) \ S
      BY <1>1, <2>3, <2>5 DEF Keeps
    <3>2. Append(kept[n], s[n + 1]) \in Seq(A)
          /\ Range(Append(kept[n], s[n + 1])) = Range(kept[n]) \cup {s[n + 1]}
          /\ Len(Append(kept[n], s[n + 1])) = Len(kept[n]) + 1
      BY <2>2, <2>3, RangeAppend
    <3>3. Distinct(Append(kept[n], s[n + 1]))
      <4>1. s[n + 1] \notin Range(kept[n])
        BY <2>2, <2>4 DEF Counts
      <4>2. Distinct(kept[n])
        BY <2>2 DEF Counts
      <4> QED BY <2>2, <2>3, <4>1, <4>2, AppendDistinct
    <3>4. /\ Range(kept[n]) \subseteq First(s, n) /\ IsFiniteSet(First(s, n) \ S)
          /\ Len(kept[n]) + Cardinality(First(s, n) \ S) = n
      BY <2>2 DEF Counts
    <3>5. Range(kept[n + 1]) \subseteq First(s, n + 1)
      BY <2>3, <3>1, <3>2, <3>4
    <3>6. Cardinality(First(s, n) \ S) \in Nat
      BY <3>4, FS_CardinalityType
    <3>7. Len(kept[n + 1]) + Cardinality(First(s, n + 1) \ S) = n + 1
      <4>1. /\ Cardinality(First(s, n + 1) \ S) = Cardinality(First(s, n) \ S)
            /\ Len(kept[n + 1]) = Len(kept[n]) + 1
        BY <3>1, <3>2, Zenon
      <4> QED BY <2>3, <3>4, <3>6, <4>1
    <3> QED BY <3>1, <3>2, <3>3, <3>4, <3>5, <3>7 DEF Counts
  <2>6. CASE s[n + 1] \notin S
    <3>1. kept[n + 1] = kept[n] /\ First(s, n + 1) \ S = (First(s, n) \ S) \cup {s[n + 1]}
      BY <1>1, <2>3, <2>6 DEF Keeps
    <3>2. IsFiniteSet(First(s, n + 1) \ S)
          /\ Cardinality(First(s, n + 1) \ S) = Cardinality(First(s, n) \ S) + 1
          /\ Cardinality(First(s, n) \ S) \in Nat
      <4>1. IsFiniteSet(First(s, n) \ S) /\ s[n + 1] \notin First(s, n) \ S
        BY <2>2, <2>4 DEF Counts
      <4> DEFINE R == First(s, n) \ S
      <4>2. IsFiniteSet(R) /\ s[n + 1] \notin R
        BY <4>1
      <4> HIDE DEF R
      <4>3. IsFiniteSet(R \cup {s[n + 1]}) /\ Cardinality(R \cup {s[n + 1]}) = Cardinality(R) + 1
            /\ Cardinality(R) \in Nat
        BY <4>2, FS_AddElement, FS_CardinalityType
      <4>4. First(s, n + 1) \ S = R \cup {s[n + 1]}
        BY <3>1 DEF R
      <4> QED BY <4>3, <4>4, Zenon DEF R
    <3> QED BY <2>2, <2>3, <3>1, <3>2 DEF Counts
  <2> QED BY <2>5, <2>6
<1>4. T = Nat
  <2> HIDE DEF T
  <2> QED BY <1>2, <1>3, Induction DEF T
<1>5. Len(s) \in Nat
  OBVIOUS
<1>6. Counts(Len(s))
  <2> HIDE DEF Counts
  <2>1. Len(s) \in T /\ Len(s) <= Len(s)
    BY <1>4, <1>5
  <2> QED BY <2>1
<1> QED BY <1>1, <1>6, FirstAll

\* The places of the first n elements that are selected.
Picked(s, S, n) == {i \in 1 .. n : s[i] \in S}

LEMMA PickedGrows ==
    ASSUME NEW s, NEW S, NEW n \in Nat
    PROVE  /\ Picked(s, S, n + 1) = IF s[n + 1] \in S THEN Picked(s, S, n) \cup {n + 1} ELSE Picked(s, S, n)
           /\ n + 1 \notin Picked(s, S, n)
           /\ \A i \in Picked(s, S, n) : i \in 1 .. n
<1>1. 1 .. n + 1 = (1 .. n) \cup {n + 1} /\ n + 1 \notin 1 .. n
  OBVIOUS
<1> QED BY <1>1 DEF Picked

\* Of the elements that are selected each comes at its place among them.
LEMMA SelectPlaces ==
    ASSUME NEW A, NEW s \in Seq(A), NEW S
    PROVE  /\ Len(Select(s, S)) = Cardinality(Picked(s, S, Len(s)))
           /\ \A j \in Picked(s, S, Len(s)) :
                 /\ Cardinality(Picked(s, S, j)) \in 1 .. Len(Select(s, S))
                 /\ Select(s, S)[Cardinality(Picked(s, S, j))] = s[j]
<1>1. PICK kept : Keeps(kept, s, S) /\ Select(s, S) = kept[Len(s)]
  BY SelectKeeps
<1> DEFINE C(n) == Picked(s, S, n)
           Placed(n) == /\ kept[n] \in Seq(A) /\ IsFiniteSet(C(n)) /\ Len(kept[n]) = Cardinality(C(n))
                        /\ \A j \in C(n) : /\ Cardinality(C(j)) \in 1 .. Len(kept[n])
                                           /\ kept[n][Cardinality(C(j))] = s[j]
           T == {n \in Nat : n <= Len(s) => Placed(n)}
<1>2. 0 \in T
  <2>1. C(0) = {}
    BY DEF Picked
  <2>2. kept[0] = <<>> /\ <<>> \in Seq(A) /\ Len(<<>>) = 0
    BY <1>1 DEF Keeps
  <2> HIDE DEF C
  <2>3. IsFiniteSet(C(0)) /\ Cardinality(C(0)) = 0
    BY <2>1, FS_EmptySet
  <2>4. Placed(0)
    BY <2>1, <2>2, <2>3
  <2> HIDE DEF Placed
  <2> QED BY <2>4
<1>3. ASSUME NEW n \in T PROVE n + 1 \in T
  <2> HIDE DEF Placed
  <2>1. SUFFICES ASSUME n + 1 <= Len(s) PROVE Placed(n + 1)
    OBVIOUS
  <2>2. Placed(n) /\ n \in Nat
    BY <2>1
  <2>3. s[n + 1] \in A
    BY <2>1, <2>2
  <2>4. /\ C(n + 1) = IF s[n + 1] \in S THEN C(n) \cup {n + 1} ELSE C(n)
        /\ n + 1 \notin C(n)
    BY <2>2, PickedGrows
  <2> HIDE DEF C
  <2>5. /\ kept[n] \in Seq(A) /\ IsFiniteSet(C(n)) /\ Len(kept[n]) = Cardinality(C(n)) /\ Len(kept[n]) \in Nat
        /\ \A j \in C(n) : Cardinality(C(j)) \in 1 .. Len(kept[n]) /\ kept[n][Cardinality(C(j))] = s[j]
    BY <2>2 DEF Placed
  <2>6. CASE s[n + 1] \in S
    <3>1. kept[n + 1] = Append(kept[n], s[n + 1])
      BY <1>1, <2>2, <2>6 DEF Keeps
    <3> DEFINE k == kept[n]
               x == s[n + 1]
               l == Len(kept[n])
    <3>2. Append(k, x) \in Seq(A) /\ Len(Append(k, x)) = l + 1 /\ Append(k, x)[l + 1] = x
          /\ \A i \in 1 .. l : Append(k, x)[i] = k[i]
      BY <2>3, <2>5, AppendElements
    <3>3. IsFiniteSet(C(n + 1)) /\ Cardinality(C(n + 1)) = l + 1
      <4>1. C(n + 1) = C(n) \cup {n + 1} /\ n + 1 \notin C(n)
        BY <2>4, <2>6
      <4> QED BY <2>5, <4>1, FS_AddElement
    <3>4. ASSUME NEW j \in C(n + 1)
          PROVE  Cardinality(C(j)) \in 1 .. l + 1 /\ kept[n + 1][Cardinality(C(j))] = s[j]
      <4>1. CASE j = n + 1
        BY <2>5, <3>1, <3>2, <3>3, <4>1
      <4>2. CASE j \in C(n)
        <5>1. Cardinality(C(j)) \in 1 .. l /\ k[Cardinality(C(j))] = s[j]
          BY <2>5, <4>2
        <5> QED BY <2>5, <3>1, <3>2, <5>1
      <4> QED BY <2>4, <2>6, <4>1, <4>2
    <3> QED BY <3>1, <3>2, <3>3, <3>4 DEF Placed
  <2>7. CASE s[n + 1] \notin S
    <3>1. kept[n + 1] = kept[n] /\ C(n + 1) = C(n)
      BY <1>1, <2>2, <2>4, <2>7 DEF Keeps
    <3> QED BY <2>5, <3>1 DEF Placed
  <2> QED BY <2>6, <2>7
<1>4. T = Nat
  <2> HIDE DEF T
  <2> QED BY <1>2, <1>3, Induction DEF T
<1>5. Placed(Len(s))
  <2> HIDE DEF Placed
  <2>1. Len(s) \in T /\ Len(s) <= Len(s)
    BY <1>4
  <2> QED BY <2>1
<1> QED BY <1>1, <1>5

\* A new element comes last, if it is selected.
LEMMA SelectAppend ==
    ASSUME NEW A, NEW s \in Seq(A), NEW x \in A, NEW S
    PROVE  Select(Append(s, x), S) = IF x \in S THEN Append(Select(s, S), x) ELSE Select(s, S)
<1> DEFINE t == Append(s, x)
           n == Len(s)
<1>1. /\ n \in Nat /\ Len(t) = n + 1 /\ t[n + 1] = x
      /\ \A i \in 1 .. n : t[i] = s[i]
  BY AppendElements
<1>2. PICK kept : Keeps(kept, s, S) /\ Select(s, S) = kept[n]
  BY SelectKeeps
<1>3. PICK more : Keeps(more, t, S) /\ Select(t, S) = more[Len(t)]
  BY SelectKeeps
<1> HIDE DEF t, n
<1> DEFINE T == {i \in Nat : i <= n => more[i] = kept[i]}
<1>4. 0 \in T
  BY <1>2, <1>3 DEF Keeps
<1>5. ASSUME NEW i \in T PROVE i + 1 \in T
  <2>1. SUFFICES ASSUME i + 1 <= n PROVE more[i + 1] = kept[i + 1]
    OBVIOUS
  <2>2. more[i] = kept[i] /\ t[i + 1] = s[i + 1] /\ i \in Nat
    BY <1>1, <2>1
  <2> HIDE DEF T
  <2> QED BY <1>2, <1>3, <2>2 DEF Keeps
<1>6. T = Nat
  <2> HIDE DEF T
  <2> QED BY <1>4, <1>5, Induction DEF T
<1>7. more[n] = kept[n]
  <2>1. n \in T /\ n <= n
    BY <1>1, <1>6
  <2> QED BY <2>1
<1>8. more[n + 1] = IF t[n + 1] \in S THEN Append(more[n], t[n + 1]) ELSE more[n]
  BY <1>1, <1>3 DEF Keeps
<1> QED BY <1>1, <1>2, <1>3, <1>7, <1>8 DEF t
=============================================================================
