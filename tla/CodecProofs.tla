----------------------------- MODULE CodecProofs -----------------------------
(***************************************************************************)
(* Proofs about the conversions of Codecs: frames of any bytes survive their *)
(* encodings, check bytes tell a burst, lines come out of any parts, and     *)
(* places come to the dashboard as they were meant.                         *)
(***************************************************************************)
EXTENDS Codecs, SharedLemmas

\* Where the sender is in its frame.
SenderInv ==
    /\ frame \in Frames \cup {<<>>} /\ pos \in 0 .. Len(frame) + 1
    /\ half \in BOOLEAN /\ (half = TRUE => Escapes)
    /\ (frame = <<>> => pos = 0)
    /\ sent \in Nat /\ (frame # <<>> => sent > 0)

DecoderInv ==
    /\ mode \in {"SyncHunt", "Collecting", "Escaped"}
    /\ buffer \in Seq(Bytes)

\* On an undisturbed frame the decoder escapes when the encoder does, unless
\* it hunts.
InStep ==
    /\ clean \in 0 .. 2
    /\ clean > 0 =>
        /\ frame = <<>> => /\ buffer = <<>> /\ mode # "Escaped"
                           /\ sent > 0 => mode = "Collecting"
        /\ pos = 1 => mode = "Collecting"
        /\ pos > 1 => mode = "SyncHunt" \/ (mode = "Escaped" <=> half)

\* With two such frames it has exactly the bytes that were sent.
Follows ==
    (clean = 2 /\ frame # <<>>) =>
        IF pos = 0 THEN buffer = <<>> /\ mode # "Escaped"
        ELSE /\ buffer = SubSeq(frame, 1, pos - 1)
             /\ mode = IF half THEN "Escaped" ELSE "Collecting"

IInv == SenderInv /\ DecoderInv /\ InStep /\ Follows

LEMMA FrameFacts ==
    ASSUME NEW f \in Frames
    PROVE  /\ f \in Seq(Bytes) /\ f # <<>> /\ f[1] \in Plain /\ Len(f) <= MaxLen
           /\ Len(f) \in Nat /\ Len(f) > 0
  BY CodecAssumption

\* One more byte of a frame.
LEMMA NextPrefix ==
    ASSUME NEW f \in Seq(Bytes), NEW n \in 1 .. Len(f)
    PROVE  /\ SubSeq(f, 1, n) = Append(SubSeq(f, 1, n - 1), f[n])
           /\ SubSeq(f, 1, n) = SubSeq(f, 1, n - 1) \o <<f[n]>>
           /\ Len(SubSeq(f, 1, n - 1)) = n - 1
  OBVIOUS

LEMMA WholeFrame == ASSUME NEW f \in Seq(Bytes) PROVE SubSeq(f, 1, Len(f)) = f
  OBVIOUS

LEMMA BetweenFrames ==
    ASSUME frame = <<>>, pos = 0, half = FALSE, sent \in Nat
    PROVE  SenderInv
<1>1. pos \in 0 .. Len(frame) + 1
  <2>1. Len(<<>>) = 0
    OBVIOUS
  <2> QED BY <2>1
<1> QED BY <1>1 DEF SenderInv

LEMMA FeedTypes ==
    ASSUME DecoderInv, NEW b \in Bytes, Feed(b)
    PROVE  DecoderInv'
<1>1. <<>> \in Seq(Bytes) /\ Append(buffer, b) \in Seq(Bytes)
  BY DEF DecoderInv
<1>2. buffer \o Unescaped(b) \in Seq(Bytes)
  <2>1. <<"FEND">> \in Seq(Bytes) /\ <<"FESC">> \in Seq(Bytes) /\ <<>> \in Seq(Bytes)
    BY DEF Bytes, Special
  <2>2. CASE b = "TFEND"
    BY <2>1, <2>2 DEF Unescaped, DecoderInv
  <2>3. CASE b = "TFESC"
    BY <2>1, <2>3 DEF Unescaped, DecoderInv
  <2>4. CASE b \notin {"TFEND", "TFESC"}
    BY <2>1, <2>4 DEF Unescaped, DecoderInv
  <2> QED BY <2>2, <2>3, <2>4
<1>3. CASE Hunt(b)       BY <1>1, <1>3 DEF Hunt, DecoderInv
<1>4. CASE Collect(b)    BY <1>1, <1>4 DEF Collect, Emit, DecoderInv
<1>5. CASE Unescape(b)   BY <1>2, <1>5 DEF Unescape, DecoderInv
<1> QED BY <1>3, <1>4, <1>5 DEF Feed

LEMMA AdvanceSender ==
    ASSUME SenderInv, Advance
    PROVE  SenderInv' /\ NextByte \in Bytes /\ frame # <<>> /\ frame \in Seq(Bytes)
<1>1. frame # <<>> /\ frame \in Frames /\ frame \in Seq(Bytes) /\ Len(frame) \in Nat /\ frame[1] \in Plain
  BY FrameFacts DEF Advance, SenderInv
<1>2. NextByte \in Bytes
  BY <1>1 DEF NextByte, AtEnd, Escapes, SenderInv, Bytes, Special
<1>3. CASE Escapes /\ ~half
  <2>1. frame' = frame /\ pos' = pos /\ half' = TRUE /\ sent' = sent
    BY <1>3 DEF Advance
  <2>2. Escapes'
    BY <1>3, <2>1 DEF Escapes
  <2> QED BY <1>1, <1>2, <2>1, <2>2 DEF SenderInv
<1>4. CASE ~(Escapes /\ ~half) /\ AtEnd
  <2>1. frame' = <<>> /\ pos' = 0 /\ half' = FALSE /\ sent' = sent
    BY <1>4 DEF Advance
  <2>2. 0 \in 0 .. Len(<<>>) + 1
    OBVIOUS
  <2> QED BY <1>1, <1>2, <2>1, <2>2 DEF SenderInv
<1>5. CASE ~(Escapes /\ ~half) /\ ~AtEnd
  <2>1. frame' = frame /\ pos' = pos + 1 /\ half' = FALSE /\ sent' = sent
    BY <1>5 DEF Advance
  <2>2. pos + 1 \in 0 .. Len(frame) + 1
    BY <1>1, <1>5 DEF SenderInv, AtEnd
  <2> QED BY <1>1, <1>2, <2>1, <2>2 DEF SenderInv
<1> QED BY <1>1, <1>2, <1>3, <1>4, <1>5

\* A byte sent without disturbance keeps the decoder in step, and what the
\* decoder has is what was sent.
LEMMA TransferStep ==
    ASSUME IInv, Transfer
    PROVE  IInv' /\ (clean' = 2 /\ frame' = <<>> => decoded' = frame)
<1> USE DEF IInv
<1>1. /\ SenderInv' /\ NextByte \in Bytes /\ frame # <<>> /\ frame \in Frames
      /\ frame \in Seq(Bytes) /\ Len(frame) \in Nat /\ Len(frame) > 0
      /\ frame[1] \in Plain /\ Len(frame) <= MaxLen
  BY AdvanceSender, FrameFacts DEF Transfer, SenderInv
<1>2. DecoderInv'
  BY <1>1, FeedTypes DEF Transfer
<1>3. Plain \cap Special = {} /\ MaxLen \in Nat
  BY CodecAssumption
<1>4. clean' = clean /\ Advance /\ Feed(NextByte)
  BY DEF Transfer
<1>5. CASE pos = 0
  <2>1. /\ NextByte = "FEND" /\ frame' = frame /\ pos' = 1 /\ half' = FALSE /\ ~half
    BY <1>1, <1>4, <1>5 DEF NextByte, Advance, AtEnd, Escapes, SenderInv
  <2>2. clean > 0 => mode' = "Collecting"
    BY <1>4, <1>5, <2>1 DEF Feed, Hunt, Collect, Unescape, DecoderInv
  <2>3. clean = 2 => buffer' = <<>> /\ mode' = "Collecting"
    BY <1>1, <1>4, <1>5, <2>1 DEF Feed, Hunt, Collect, Emit, Unescape, Follows, DecoderInv
  <2>4. SubSeq(frame, 1, 0) = <<>>
    BY <1>1
  <2>5. InStep'
    BY <1>1, <1>4, <2>1, <2>2 DEF InStep
  <2>6. Follows'
    BY <1>4, <2>1, <2>3, <2>4 DEF Follows
  <2> QED BY <1>1, <1>2, <2>1, <2>5, <2>6
<1>6. CASE AtEnd
  <2>1. NextByte = "FEND" /\ frame' = <<>> /\ pos' = 0 /\ half' = FALSE /\ ~half
    BY <1>1, <1>4, <1>6 DEF NextByte, Advance, AtEnd, Escapes, SenderInv
  <2>2. pos > 0 /\ pos - 1 = Len(frame) /\ (Len(frame) > 0)
    BY <1>1, <1>6 DEF AtEnd
  <2>3. clean > 0 => mode' = "Collecting" /\ buffer' = <<>>
    <3>1. clean > 0 => mode # "Escaped"
      BY <1>1, <2>1, <2>2 DEF InStep, DecoderInv, SenderInv
    <3> QED BY <1>4, <2>1, <3>1 DEF Feed, Hunt, Collect, Emit, Unescape, DecoderInv
  <2>4. clean = 2 => mode = "Collecting" /\ buffer = frame
    BY <1>1, <2>1, <2>2, WholeFrame DEF Follows
  <2>5. clean = 2 => decoded' = frame
    BY <1>1, <1>4, <2>1, <2>4 DEF Feed, Hunt, Collect, Emit, Unescape
  <2> QED BY <1>1, <1>2, <1>4, <2>1, <2>3, <2>5 DEF InStep, Follows
<1>7. CASE pos \in 1 .. Len(frame) /\ Escapes /\ ~half
  <2>1. NextByte = "FESC" /\ frame' = frame /\ pos' = pos /\ half' = TRUE /\ pos > 1
    BY <1>1, <1>4, <1>7 DEF NextByte, Advance, AtEnd, Escapes
  <2>2. clean > 0 => mode' = "SyncHunt" \/ mode' = "Escaped"
    BY <1>4, <1>7, <2>1 DEF Feed, Hunt, Collect, Unescape, InStep, DecoderInv
  <2>3. clean = 2 => buffer' = buffer /\ mode' = "Escaped"
    BY <1>1, <1>4, <1>7, <2>1 DEF Feed, Hunt, Collect, Unescape, Follows
  <2> QED BY <1>1, <1>2, <1>4, <2>1, <2>2, <2>3 DEF InStep, Follows, SenderInv
<1>8. CASE pos \in 1 .. Len(frame) /\ Escapes /\ half
  <2>1. /\ NextByte = (IF frame[pos] = "FEND" THEN "TFEND" ELSE "TFESC")
        /\ frame' = frame /\ pos' = pos + 1 /\ half' = FALSE /\ pos > 1
        /\ frame[pos] \in {"FEND", "FESC"}
    BY <1>1, <1>4, <1>8 DEF NextByte, Advance, AtEnd, Escapes
  <2>2. clean > 0 => mode' = "SyncHunt" \/ mode' = "Collecting"
    BY <1>4, <1>8, <2>1 DEF Feed, Hunt, Collect, Unescape, InStep, DecoderInv
  <2>3. Unescaped(NextByte) = <<frame[pos]>>
    BY <2>1 DEF Unescaped
  <2>4. clean = 2 => buffer' = SubSeq(frame, 1, pos) /\ mode' = "Collecting"
    <3> SUFFICES ASSUME clean = 2 PROVE buffer' = SubSeq(frame, 1, pos) /\ mode' = "Collecting"
      OBVIOUS
    <3>1. mode = "Escaped" /\ buffer = SubSeq(frame, 1, pos - 1)
      BY <1>1, <1>8 DEF Follows
    <3>2. buffer' = buffer \o <<frame[pos]>> /\ mode' = "Collecting"
      BY <1>4, <2>3, <3>1 DEF Feed, Hunt, Collect, Unescape
    <3> QED BY <1>1, <1>8, <3>1, <3>2, NextPrefix
  <2> QED BY <1>1, <1>2, <1>4, <2>1, <2>2, <2>4 DEF InStep, Follows, SenderInv
<1>9. CASE pos \in 1 .. Len(frame) /\ ~Escapes
  <2>1. NextByte = frame[pos] /\ frame' = frame /\ pos' = pos + 1 /\ half' = FALSE /\ ~half
    BY <1>1, <1>4, <1>9 DEF NextByte, Advance, AtEnd, Escapes, SenderInv
  <2>2. frame[pos] \notin {"FEND", "FESC"}
    BY <1>1, <1>3, <1>9 DEF Escapes, Special
  <2>3. clean > 0 => mode' = "SyncHunt" \/ mode' = "Collecting"
    BY <1>4, <1>9, <2>1, <2>2 DEF Feed, Hunt, Collect, Unescape, InStep, DecoderInv
  <2>4. clean = 2 => buffer' = SubSeq(frame, 1, pos) /\ mode' = "Collecting"
    <3> SUFFICES ASSUME clean = 2 PROVE buffer' = SubSeq(frame, 1, pos) /\ mode' = "Collecting"
      OBVIOUS
    <3>1. mode = "Collecting" /\ buffer = SubSeq(frame, 1, pos - 1)
      BY <1>1, <1>9, <2>1 DEF Follows
    <3>2. Len(buffer) < MaxLen
      BY <1>1, <1>3, <1>9, <3>1, NextPrefix
    <3>3. buffer' = Append(buffer, frame[pos]) /\ mode' = "Collecting"
      BY <1>4, <2>1, <2>2, <3>1, <3>2 DEF Feed, Hunt, Collect, Unescape
    <3> QED BY <1>1, <1>9, <3>1, <3>3, NextPrefix
  <2>5. InStep'
    BY <1>1, <1>4, <1>9, <2>1, <2>3 DEF InStep
  <2>6. Follows'
    BY <1>4, <1>9, <2>1, <2>4 DEF Follows
  <2> QED BY <1>1, <1>2, <2>1, <2>5, <2>6
<1>10. pos = 0 \/ AtEnd \/ pos \in 1 .. Len(frame)
  BY <1>1 DEF SenderInv, AtEnd
<1> QED BY <1>1, <1>5, <1>6, <1>7, <1>8, <1>9, <1>10 DEF AtEnd, SenderInv

LEMMA BeginStep ==
    ASSUME IInv, NEW f \in Frames, Begin(f)
    PROVE  IInv'
<1>1. f # <<>> /\ Len(f) \in Nat
  BY FrameFacts
<1>2. ~half /\ pos = 0 /\ sent \in Nat
  BY DEF IInv, SenderInv, Begin, Escapes
<1>3. SenderInv'
  <2>1. frame' = f /\ pos' = 0 /\ half' = FALSE /\ sent' = sent + 1
    BY <1>2 DEF Begin, IInv, SenderInv
  <2>2. pos' \in 0 .. Len(f) + 1 /\ sent' \in Nat /\ sent' > 0
    BY <1>1, <1>2, <2>1
  <2> QED BY <2>1, <2>2 DEF SenderInv
<1>4. DecoderInv'
  BY DEF IInv, Begin, DecoderInv
<1>5. InStep'
  BY <1>1 DEF IInv, Begin, InStep
<1>6. Follows'
  BY <1>1 DEF IInv, Begin, InStep, Follows
<1> QED BY <1>3, <1>4, <1>5, <1>6 DEF IInv

LEMMA DisturbedStep ==
    ASSUME IInv, Lose \/ \E b \in Bytes : Garble(b) \/ Add(b)
    PROVE  IInv' /\ clean' # 2
<1>1. clean' = 0
  BY DEF Lose, Garble, Add, Disturb
<1>2. SenderInv'
  BY AdvanceSender DEF IInv, Lose, Garble, Add, SenderInv, sender, Escapes
<1>3. DecoderInv'
  BY FeedTypes DEF IInv, Lose, Garble, Add, DecoderInv, decoder
<1> QED BY <1>1, <1>2, <1>3 DEF IInv, InStep, Follows

LEMMA Initially == Init => IInv
<1> SUFFICES ASSUME Init PROVE IInv
  OBVIOUS
<1>1. <<>> \in Seq(Bytes)
  OBVIOUS
<1>2. SenderInv
  BY BetweenFrames DEF Init
<1>3. DecoderInv /\ InStep
  BY <1>1 DEF Init, DecoderInv, InStep
<1> QED BY <1>2, <1>3 DEF Init, IInv, Follows

LEMMA Inductive == ASSUME IInv, [Next]_vars PROVE IInv'
<1>1. CASE UNCHANGED vars
  BY <1>1 DEF vars, sender, decoder, IInv, SenderInv, DecoderInv, InStep, Follows, Escapes
<1> QED BY <1>1, BeginStep, TransferStep, DisturbedStep DEF Next

LEMMA Invariant == Spec => []IInv
  BY Initially, Inductive, PTL DEF Spec

\* Every frame that is sent undisturbed after another one is decoded to what
\* was encoded, for any set of frames that fit in MaxLen, any bytes in them and
\* any number of disturbances before.
THEOREM RecoveryCorrect == Spec => Recovers
<1>1. ASSUME IInv, [Next]_vars, frame # <<>> /\ frame' = <<>> /\ clean' = 2
      PROVE  decoded' = frame
  <2>1. ASSUME NEW f \in Frames, Begin(f) PROVE FALSE
    BY <1>1, <2>1 DEF Begin
  <2> QED BY <1>1, <2>1, TransferStep, DisturbedStep DEF Next, vars, sender
<1>2. IInv /\ [Next]_vars => [(frame # <<>> /\ frame' = <<>> /\ clean' = 2) => decoded' = frame]_vars
  BY <1>1
<1> QED BY <1>2, Invariant, PTL DEF Spec, Recovers

-----------------------------------------------------------------------------
(* The sums.  A step of a sum is linear: what a garbled byte changes in it    *)
(* goes its own way, whatever the bytes are.                                 *)

Sixteen == SUBSET (0 .. 15)

\* Elementwise.
LEMMA DiffIn ==
    ASSUME NEW a, NEW b
    PROVE  \A i : i \in Sum!SymDiff(a, b) <=> ~(i \in a <=> i \in b)
  BY DEF Sum!SymDiff

LEMMA ShrIn ==
    ASSUME NEW c \in Sixteen, NEW n \in Nat
    PROVE  /\ Sum!Shr(c, n) \in Sixteen
           /\ \A i \in Nat : i \in Sum!Shr(c, n) <=> i + n \in c
<1>1. c \subseteq 0 .. 15
  BY DEF Sixteen
<1>2. ASSUME NEW i \in Nat PROVE i \in Sum!Shr(c, n) <=> i + n \in c
  <2>1. ASSUME i + n \in c PROVE i \in Sum!Shr(c, n)
    <3>1. i + n >= n /\ (i + n) - n = i
      OBVIOUS
    <3> QED BY <2>1, <3>1 DEF Sum!Shr
  <2>2. ASSUME i \in Sum!Shr(c, n) PROVE i + n \in c
    <3>1. PICK j \in c : j >= n /\ i = j - n
      BY <2>2 DEF Sum!Shr
    <3>2. j \in Nat
      BY <1>1
    <3>3. i + n = j
      BY <3>1, <3>2
    <3> QED BY <3>1, <3>3
  <2> QED BY <2>1, <2>2
<1>3. ASSUME NEW i \in Sum!Shr(c, n) PROVE i \in 0 .. 15
  <2>1. PICK j \in c : j >= n /\ i = j - n
    BY DEF Sum!Shr
  <2>2. j \in 0 .. 15
    BY <1>1
  <2> QED BY <2>1, <2>2
<1> QED BY <1>2, <1>3 DEF Sixteen

LEMMA ShlIn ==
    ASSUME NEW c \in Sixteen
    PROVE  /\ Sum!Shl(c) \in Sixteen
           /\ \A i \in 0 .. 15 : i \in Sum!Shl(c) <=> (i >= 8 /\ i - 8 \in c)
<1>1. c \subseteq 0 .. 15
  BY DEF Sixteen
<1>2. ASSUME NEW i \in 0 .. 15 PROVE i \in Sum!Shl(c) <=> (i >= 8 /\ i - 8 \in c)
  <2>1. ASSUME i >= 8, i - 8 \in c PROVE i \in Sum!Shl(c)
    <3>1. i - 8 \in 0 .. 7 /\ (i - 8) + 8 = i
      BY <2>1
    <3> QED BY <2>1, <3>1 DEF Sum!Shl, Sum!Low
  <2>2. ASSUME i \in Sum!Shl(c) PROVE i >= 8 /\ i - 8 \in c
    <3>1. PICK j \in c \cap 0 .. 7 : i = j + 8
      BY <2>2 DEF Sum!Shl, Sum!Low
    <3>2. i - 8 = j /\ i >= 8
      BY <3>1
    <3> QED BY <3>1, <3>2
  <2> QED BY <2>1, <2>2
<1>3. ASSUME NEW i \in Sum!Shl(c) PROVE i \in 0 .. 15
  <2>1. PICK j \in c \cap 0 .. 7 : i = j + 8
    BY DEF Sum!Shl, Sum!Low
  <2> QED BY <2>1
<1> QED BY <1>2, <1>3 DEF Sixteen

\* The exclusive or of numbers, and where it cancels.
LEMMA DiffType ==
    ASSUME NEW a, NEW b
    PROVE  /\ a \in Sixteen /\ b \in Sixteen => Sum!SymDiff(a, b) \in Sixteen
           /\ a \in Sum!Byte /\ b \in Sum!Byte => Sum!SymDiff(a, b) \in Sum!Byte
  BY DEF Sum!SymDiff, Sixteen, Sum!Byte

LEMMA DiffCancels ==
    ASSUME NEW a, NEW b
    PROVE  /\ Sum!SymDiff(a, {}) = a /\ Sum!SymDiff({}, a) = a /\ Sum!SymDiff(a, a) = {}
           /\ Sum!SymDiff(a, b) = {} => a = b
  BY DEF Sum!SymDiff

LEMMA DiffSwap ==
    ASSUME NEW a, NEW b, NEW c, NEW d
    PROVE  Sum!SymDiff(Sum!SymDiff(a, b), Sum!SymDiff(c, d)) = Sum!SymDiff(Sum!SymDiff(a, c), Sum!SymDiff(b, d))
  BY DEF Sum!SymDiff

\* The parts of numbers are linear.
LEMMA PartType ==
    ASSUME NEW c \in Sixteen
    PROVE  /\ Sum!Shl(c) \in Sixteen /\ Sum!Shr(c, 1) \in Sixteen
           /\ Sum!Low(c) \in Sum!Byte /\ Sum!High(c) \in Sum!Byte
<1>1. ASSUME NEW i \in Sum!Shr(c, 8) PROVE i \in 0 .. 7
  <2>1. PICK j \in c : j >= 8 /\ i = j - 8
    BY DEF Sum!Shr
  <2>2. j \in 0 .. 15
    BY DEF Sixteen
  <2> QED BY <2>1, <2>2
<1> QED BY <1>1, ShlIn, ShrIn DEF Sum!Low, Sum!High, Sum!Byte

LEMMA ByteSixteen == ASSUME NEW c \in Sum!Byte PROVE c \in Sixteen /\ Sum!Low(c) = c /\ Sum!High(c) = {}
<1>1. c \in Sixteen /\ Sum!Low(c) = c
  <2>1. 0 .. 7 \subseteq 0 .. 15
    OBVIOUS
  <2> QED BY <2>1 DEF Sum!Byte, Sixteen, Sum!Low
<1>2. \A j \in c : ~(j >= 8)
  BY DEF Sum!Byte
<1> QED BY <1>1, <1>2 DEF Sum!High, Sum!Shr

LEMMA PartDiff ==
    ASSUME NEW a \in Sixteen, NEW b \in Sixteen
    PROVE  /\ \A n \in Nat : Sum!Shr(Sum!SymDiff(a, b), n) = Sum!SymDiff(Sum!Shr(a, n), Sum!Shr(b, n))
           /\ Sum!Shl(Sum!SymDiff(a, b)) = Sum!SymDiff(Sum!Shl(a), Sum!Shl(b))
           /\ Sum!Low(Sum!SymDiff(a, b)) = Sum!SymDiff(Sum!Low(a), Sum!Low(b))
<1> DEFINE c == Sum!SymDiff(a, b)
<1>1. c \in Sixteen
  BY DiffType
<1>2. ASSUME NEW n \in Nat PROVE Sum!Shr(c, n) = Sum!SymDiff(Sum!Shr(a, n), Sum!Shr(b, n))
  <2>1. /\ Sum!Shr(c, n) \subseteq Nat
        /\ Sum!SymDiff(Sum!Shr(a, n), Sum!Shr(b, n)) \subseteq Nat
    <3>1. 0 .. 15 \subseteq Nat
      OBVIOUS
    <3>2. Sum!SymDiff(Sum!Shr(a, n), Sum!Shr(b, n)) \in Sixteen /\ Sum!Shr(c, n) \in Sixteen
      BY <1>1, ShrIn, DiffType
    <3> QED BY <3>1, <3>2 DEF Sixteen
  <2>2. ASSUME NEW i \in Nat
        PROVE  i \in Sum!Shr(c, n) <=> i \in Sum!SymDiff(Sum!Shr(a, n), Sum!Shr(b, n))
    <3>1. /\ i \in Sum!Shr(c, n) <=> i + n \in c
          /\ i \in Sum!Shr(a, n) <=> i + n \in a
          /\ i \in Sum!Shr(b, n) <=> i + n \in b
      BY <1>1, ShrIn
    <3> QED BY <3>1, DiffIn
  <2> HIDE DEF c
  <2> QED BY <2>1, <2>2
<1>3. Sum!Shl(c) = Sum!SymDiff(Sum!Shl(a), Sum!Shl(b))
  <2>1. Sum!Shl(c) \subseteq 0 .. 15 /\ Sum!SymDiff(Sum!Shl(a), Sum!Shl(b)) \subseteq 0 .. 15
    BY <1>1, ShlIn, DiffType DEF Sixteen
  <2>2. ASSUME NEW i \in 0 .. 15
        PROVE  i \in Sum!Shl(c) <=> i \in Sum!SymDiff(Sum!Shl(a), Sum!Shl(b))
    <3>1. /\ i \in Sum!Shl(c) <=> (i >= 8 /\ i - 8 \in c)
          /\ i \in Sum!Shl(a) <=> (i >= 8 /\ i - 8 \in a)
          /\ i \in Sum!Shl(b) <=> (i >= 8 /\ i - 8 \in b)
      BY <1>1, ShlIn
    <3> QED BY <3>1, DiffIn
  <2> HIDE DEF c
  <2> QED BY <2>1, <2>2
<1>4. Sum!Low(c) = Sum!SymDiff(Sum!Low(a), Sum!Low(b))
  BY DEF Sum!Low, Sum!SymDiff
<1> QED BY <1>2, <1>3, <1>4

-----------------------------------------------------------------------------
\* Bit by bit, and so are the tables.
LEMMA ShiftLinear ==
    ASSUME NEW a \in Sixteen, NEW b \in Sixteen, NEW p \in Sixteen
    PROVE  /\ Sum!Shift(a, p) \in Sixteen
           /\ Sum!Shift(Sum!SymDiff(a, b), p) = Sum!SymDiff(Sum!Shift(a, p), Sum!Shift(b, p))
<1>1. Sum!Shift(a, p) \in Sixteen
  BY PartType, DiffType DEF Sum!Shift
<1>2. Sum!Shr(Sum!SymDiff(a, b), 1) = Sum!SymDiff(Sum!Shr(a, 1), Sum!Shr(b, 1))
  BY PartDiff
<1>3. 0 \in Sum!SymDiff(a, b) <=> ~(0 \in a <=> 0 \in b)
  BY DiffIn
<1> DEFINE u == Sum!Shr(a, 1)
           v == Sum!Shr(b, 1)
<1>4. Sum!Shift(Sum!SymDiff(a, b), p) = IF 0 \in a <=> 0 \in b THEN Sum!SymDiff(u, v)
                                        ELSE Sum!SymDiff(Sum!SymDiff(u, v), p)
  BY <1>2, <1>3 DEF Sum!Shift
<1>5. /\ Sum!Shift(a, p) = IF 0 \in a THEN Sum!SymDiff(u, p) ELSE u
      /\ Sum!Shift(b, p) = IF 0 \in b THEN Sum!SymDiff(v, p) ELSE v
  BY DEF Sum!Shift
<1> HIDE DEF u, v
<1>6. /\ Sum!SymDiff(Sum!SymDiff(u, p), Sum!SymDiff(v, p)) = Sum!SymDiff(u, v)
      /\ Sum!SymDiff(Sum!SymDiff(u, p), v) = Sum!SymDiff(Sum!SymDiff(u, v), p)
      /\ Sum!SymDiff(u, Sum!SymDiff(v, p)) = Sum!SymDiff(Sum!SymDiff(u, v), p)
  BY DEF Sum!SymDiff
<1> QED BY <1>1, <1>4, <1>5, <1>6

LEMMA ShiftEightLinear ==
    ASSUME NEW a \in Sixteen, NEW b \in Sixteen, NEW p \in Sixteen
    PROVE  /\ Sum!ShiftFour(Sum!ShiftFour(a, p), p) \in Sixteen
           /\ Sum!ShiftFour(Sum!ShiftFour(Sum!SymDiff(a, b), p), p) =
                  Sum!SymDiff(Sum!ShiftFour(Sum!ShiftFour(a, p), p), Sum!ShiftFour(Sum!ShiftFour(b, p), p))
<1>1. \A c, d \in Sixteen :
        /\ Sum!ShiftTwo(c, p) \in Sixteen
        /\ Sum!ShiftTwo(Sum!SymDiff(c, d), p) = Sum!SymDiff(Sum!ShiftTwo(c, p), Sum!ShiftTwo(d, p))
  BY ShiftLinear DEF Sum!ShiftTwo
<1>2. \A c, d \in Sixteen :
        /\ Sum!ShiftFour(c, p) \in Sixteen
        /\ Sum!ShiftFour(Sum!SymDiff(c, d), p) = Sum!SymDiff(Sum!ShiftFour(c, p), Sum!ShiftFour(d, p))
  BY <1>1 DEF Sum!ShiftFour
<1> QED BY <1>2

\* A table is linear, with nothing at 0.
Linear(t) ==
    /\ t \in [Sum!Byte -> Sixteen] /\ t[{}] = {}
    /\ \A i, j \in Sum!Byte : t[Sum!SymDiff(i, j)] = Sum!SymDiff(t[i], t[j])

LEMMA ReflectedLinear == ASSUME NEW p \in Sixteen PROVE Linear(Sum!Reflected(p))
<1> DEFINE t == Sum!Reflected(p)
           s(i) == Sum!ShiftFour(Sum!ShiftFour(i, p), p)
<1>1. \A i, j \in Sum!Byte : /\ s(i) \in Sixteen /\ Sum!SymDiff(i, j) \in Sum!Byte
                             /\ s(Sum!SymDiff(i, j)) = Sum!SymDiff(s(i), s(j))
  BY ShiftEightLinear, ByteSixteen, DiffType
<1>2. t = [i \in Sum!Byte |-> s(i)]
  BY DEF Sum!Reflected
<1> HIDE DEF s, t
<1>3. t \in [Sum!Byte -> Sixteen] /\ \A i, j \in Sum!Byte : t[Sum!SymDiff(i, j)] = Sum!SymDiff(t[i], t[j])
  BY <1>1, <1>2
<1>4. {} \in Sum!Byte
  BY DEF Sum!Byte
<1>5. t[{}] = {}
  <2>1. Sum!SymDiff({}, {}) = {} /\ Sum!SymDiff(t[{}], t[{}]) = {}
    BY DiffCancels
  <2> QED BY <1>3, <1>4, <2>1
<1> QED BY <1>3, <1>5 DEF Linear, t

-----------------------------------------------------------------------------
(* Where an entry leaves its mark: only that of 0 has no bit in the upper     *)
(* byte, and, for 0x8408, none in the lower one.                             *)

\* The bits below n and those from n + 8 on are not set.
Gap(c, n) == c \in Sixteen /\ \A i \in c : i >= n /\ i < n + 8

\* Shifted backwards such a number is doubled: with a bit shifted out there
\* would be the bit 15 of the polynomial.
LEMMA GapBack ==
    ASSUME NEW c \in Sixteen, NEW p \in Sixteen, 15 \in p, NEW n \in 0 .. 7, Gap(Sum!Shift(c, p), n)
    PROVE  Gap(c, n + 1)
<1>1. c \subseteq 0 .. 15
  BY DEF Sixteen
<1>2. 15 \notin Sum!Shift(c, p)
  <2>1. ~(15 < n + 8)
    OBVIOUS
  <2> QED BY <2>1 DEF Gap
<1>3. 15 \notin Sum!Shr(c, 1)
  <2>1. 15 + 1 \notin c
    BY <1>1
  <2> QED BY <2>1, ShrIn
<1>4. 0 \notin c
  BY <1>2, <1>3, DiffIn DEF Sum!Shift
<1>5. Sum!Shift(c, p) = Sum!Shr(c, 1)
  BY <1>4 DEF Sum!Shift
<1>6. ASSUME NEW i \in c PROVE i >= n + 1 /\ i < (n + 1) + 8
  <2>1. i - 1 \in Nat /\ (i - 1) + 1 = i /\ i \in Nat
    BY <1>1, <1>4
  <2>2. i - 1 \in Sum!Shift(c, p)
    BY <1>5, <2>1, ShrIn
  <2>3. i - 1 >= n /\ i - 1 < n + 8
    BY <2>2 DEF Gap
  <2> QED BY <2>1, <2>3
<1> QED BY <1>6 DEF Gap

LEMMA UpperMark ==
    ASSUME NEW p \in Sixteen, 15 \in p, NEW i \in Sum!Byte, Sum!High(Sum!Reflected(p)[i]) = {}
    PROVE  i = {}
<1>1. \A c \in Sixteen : Sum!Shift(c, p) \in Sixteen
  BY ShiftLinear
<1>2. \A c \in Sixteen : Sum!ShiftTwo(c, p) \in Sixteen
  BY <1>1 DEF Sum!ShiftTwo
<1>3. \A c \in Sixteen : Sum!ShiftFour(c, p) \in Sixteen
  BY <1>2 DEF Sum!ShiftFour
<1>4. ASSUME NEW c \in Sixteen, NEW n \in 0 .. 6, Gap(Sum!ShiftTwo(c, p), n)
      PROVE  Gap(c, n + 2)
  <2>1. Gap(Sum!Shift(c, p), n + 1)
    BY <1>1, <1>4, GapBack DEF Sum!ShiftTwo
  <2>2. n + 1 \in 0 .. 7 /\ (n + 1) + 1 = n + 2
    OBVIOUS
  <2>3. Gap(c, (n + 1) + 1)
    BY <2>1, <2>2, GapBack
  <2> QED BY <2>2, <2>3
<1>5. ASSUME NEW c \in Sixteen, NEW n \in 0 .. 4, Gap(Sum!ShiftFour(c, p), n)
      PROVE  Gap(c, n + 4)
  <2>1. n \in 0 .. 6 /\ n + 2 \in 0 .. 6 /\ (n + 2) + 2 = n + 4
    OBVIOUS
  <2>2. Gap(Sum!ShiftTwo(c, p), n + 2)
    BY <1>2, <1>4, <1>5, <2>1 DEF Sum!ShiftFour
  <2>3. Gap(c, (n + 2) + 2)
    BY <1>4, <2>1, <2>2
  <2> QED BY <2>1, <2>3
<1> DEFINE e == Sum!ShiftFour(Sum!ShiftFour(i, p), p)
<1>6. e \in Sixteen /\ i \in Sixteen /\ Sum!ShiftFour(i, p) \in Sixteen /\ e = Sum!Reflected(p)[i]
  BY <1>3, ByteSixteen DEF Sum!Reflected
<1>7. Gap(e, 0)
  <2>1. ASSUME NEW j \in e PROVE j >= 0 /\ j < 0 + 8
    <3>1. j \in 0 .. 15
      BY <1>6, <2>1 DEF Sixteen
    <3>2. ASSUME j >= 8 PROVE FALSE
      <4>1. j - 8 \in Nat /\ (j - 8) + 8 = j
        BY <3>1, <3>2
      <4>2. \A k \in Nat : k \in Sum!Shr(e, 8) <=> k + 8 \in e
        <5>1. e \in Sixteen
          BY <1>6
        <5> HIDE DEF e
        <5> QED BY <5>1, ShrIn
      <4>3. j - 8 \in Sum!Shr(e, 8)
        BY <2>1, <4>1, <4>2
      <4> QED BY <1>6, <4>3 DEF Sum!High
    <3> QED BY <3>1, <3>2
  <2> QED BY <1>6, <2>1 DEF Gap
<1> HIDE DEF e
<1>8. Gap(Sum!ShiftFour(i, p), 0 + 4)
  BY <1>5, <1>6, <1>7 DEF e
<1>9. Gap(i, 8)
  <2>1. 0 + 4 = 4 /\ 4 \in 0 .. 4 /\ 4 + 4 = 8
    OBVIOUS
  <2>2. Gap(i, 4 + 4)
    BY <1>5, <1>6, <1>8, <2>1
  <2> QED BY <2>1, <2>2
<1>10. \A j \in 0 .. 7 : ~(j >= 8)
  OBVIOUS
<1> QED BY <1>9, <1>10 DEF Gap, Sum!Byte

\* One bit shifted out, for 0x8408, bit by bit.
P8408 == {15, 10, 3}
Bits(c, d) ==
    /\ (15 \in d <=> 0 \in c)  /\ (14 \in d <=> 15 \in c) /\ (13 \in d <=> 14 \in c) /\ (12 \in d <=> 13 \in c)
    /\ (11 \in d <=> 12 \in c) /\ (10 \in d <=> ~(11 \in c <=> 0 \in c))
    /\ (9 \in d <=> 10 \in c)  /\ (8 \in d <=> 9 \in c)   /\ (7 \in d <=> 8 \in c)
    /\ (6 \in d <=> 7 \in c)   /\ (5 \in d <=> 6 \in c)   /\ (4 \in d <=> 5 \in c)
    /\ (3 \in d <=> ~(4 \in c <=> 0 \in c))
    /\ (2 \in d <=> 3 \in c)   /\ (1 \in d <=> 2 \in c)   /\ (0 \in d <=> 1 \in c)

LEMMA ShiftBits ==
    ASSUME NEW c \in Sixteen
    PROVE  Sum!Shift(c, P8408) \in Sixteen /\ Bits(c, Sum!Shift(c, P8408))
<1> DEFINE d == Sum!Shift(c, P8408)
<1>1. P8408 \in Sixteen
  BY DEF P8408, Sixteen
<1>2. ASSUME NEW i \in Nat PROVE i \in d <=> (i + 1 \in c <=> ~(0 \in c /\ i \in P8408))
  <2>1. i \in Sum!Shr(c, 1) <=> i + 1 \in c
    BY ShrIn
  <2> QED BY <2>1, DiffIn DEF Sum!Shift
<1>3. 16 \notin c
  BY DEF Sixteen
<1> HIDE DEF d
<1>4. Bits(c, d)
  <2>1. \A i \in {15, 10, 3} : i \in d <=> (i + 1 \in c <=> ~(0 \in c))
    BY <1>2 DEF P8408
  <2>2. \A i \in (0 .. 15) \ {15, 10, 3} : i \in d <=> i + 1 \in c
    BY <1>2 DEF P8408
  <2>3. /\ (15 \in d <=> (16 \in c <=> ~(0 \in c))) /\ (10 \in d <=> (11 \in c <=> ~(0 \in c)))
        /\ (3 \in d <=> (4 \in c <=> ~(0 \in c)))
    BY <2>1
  <2>4. /\ (14 \in d <=> 15 \in c) /\ (13 \in d <=> 14 \in c) /\ (12 \in d <=> 13 \in c)
        /\ (11 \in d <=> 12 \in c) /\ (9 \in d <=> 10 \in c)  /\ (8 \in d <=> 9 \in c)
        /\ (7 \in d <=> 8 \in c)   /\ (6 \in d <=> 7 \in c)   /\ (5 \in d <=> 6 \in c)
        /\ (4 \in d <=> 5 \in c)   /\ (2 \in d <=> 3 \in c)   /\ (1 \in d <=> 2 \in c)
        /\ (0 \in d <=> 1 \in c)
    BY <2>2
  <2> QED BY <1>3, <2>3, <2>4 DEF Bits
<1> QED BY <1>1, <1>4, ShiftLinear DEF d

\* Eight bits shifted out.
LEMMA EightBits ==
    ASSUME NEW i \in Sum!Byte
    PROVE  \E s : /\ s \in [0 .. 8 -> Sixteen] /\ s[0] = i /\ s[8] = Sum!CRC_CCITT_TABLE[i]
                  /\ Bits(s[0], s[1]) /\ Bits(s[1], s[2]) /\ Bits(s[2], s[3]) /\ Bits(s[3], s[4])
                  /\ Bits(s[4], s[5]) /\ Bits(s[5], s[6]) /\ Bits(s[6], s[7]) /\ Bits(s[7], s[8])
<1> DEFINE p == P8408
           a == Sum!Shift(i, p)
           b == Sum!Shift(a, p)
           c == Sum!Shift(b, p)
           d == Sum!Shift(c, p)
           e == Sum!Shift(d, p)
           f == Sum!Shift(e, p)
           g == Sum!Shift(f, p)
           h == Sum!Shift(g, p)
<1>1. h = Sum!CRC_CCITT_TABLE[i]
  BY DEF Sum!CRC_CCITT_TABLE, Sum!Reflected, Sum!ShiftFour, Sum!ShiftTwo, P8408
<1>2. i \in Sixteen
  BY ByteSixteen
<1>3. a \in Sixteen /\ Bits(i, a)
  BY <1>2, ShiftBits
<1> HIDE DEF a
<1>4. b \in Sixteen /\ Bits(a, b)
  BY <1>3, ShiftBits
<1> HIDE DEF b
<1>5. c \in Sixteen /\ Bits(b, c)
  BY <1>4, ShiftBits
<1> HIDE DEF c
<1>6. d \in Sixteen /\ Bits(c, d)
  BY <1>5, ShiftBits
<1> HIDE DEF d
<1>7. e \in Sixteen /\ Bits(d, e)
  BY <1>6, ShiftBits
<1> HIDE DEF e
<1>8. f \in Sixteen /\ Bits(e, f)
  BY <1>7, ShiftBits
<1> HIDE DEF f
<1>9. g \in Sixteen /\ Bits(f, g)
  BY <1>8, ShiftBits
<1> HIDE DEF g
<1>10. h \in Sixteen /\ Bits(g, h)
  BY <1>9, ShiftBits
<1> HIDE DEF h
<1> DEFINE s == [k \in 0 .. 8 |-> CASE k = 0 -> i [] k = 1 -> a [] k = 2 -> b [] k = 3 -> c [] k = 4 -> d
                                    [] k = 5 -> e [] k = 6 -> f [] k = 7 -> g [] k = 8 -> h]
<1>11. /\ s[0] = i /\ s[1] = a /\ s[2] = b /\ s[3] = c /\ s[4] = d
       /\ s[5] = e /\ s[6] = f /\ s[7] = g /\ s[8] = h
  OBVIOUS
<1>12. s \in [0 .. 8 -> Sixteen]
  BY <1>2, <1>3, <1>4, <1>5, <1>6, <1>7, <1>8, <1>9, <1>10
<1> HIDE DEF s
<1> QED BY <1>1, <1>3, <1>4, <1>5, <1>6, <1>7, <1>8, <1>9, <1>10, <1>11, <1>12

\* The differences that a FlexNet sum forgets, after one to three more bytes:
\* there are seven, and 0 itself.
Fades(d) ==
    /\ 4 \notin d /\ 9 \notin d /\ 10 \notin d
    /\ (3 \in d <=> 5 \in d) /\ (3 \in d <=> 11 \in d) /\ (3 \in d <=> 13 \in d)
    /\ (0 \in d <=> 12 \in d) /\ (1 \in d <=> 14 \in d) /\ (2 \in d <=> 8 \in d)
    /\ (15 \in d <=> ~(12 \in d <=> 14 \in d)) /\ (7 \in d <=> ~(3 \in d <=> 12 \in d))
    /\ (6 \in d <=> ~(3 \in d <=> 14 \in d))   /\ (8 \in d <=> ~(3 \in d <=> 15 \in d))

\* One garbled byte makes none of them.
LEMMA ByteStays ==
    ASSUME NEW i \in Sum!Byte, Fades(Sum!CRC_CCITT_TABLE[i])
    PROVE  i = {}
<1>1. PICK s : /\ s \in [0 .. 8 -> Sixteen] /\ s[0] = i /\ s[8] = Sum!CRC_CCITT_TABLE[i]
               /\ Bits(s[0], s[1]) /\ Bits(s[1], s[2]) /\ Bits(s[2], s[3]) /\ Bits(s[3], s[4])
               /\ Bits(s[4], s[5]) /\ Bits(s[5], s[6]) /\ Bits(s[6], s[7]) /\ Bits(s[7], s[8])
  BY EightBits
<1>2. \A k \in 8 .. 15 : k \notin s[0]
  BY <1>1 DEF Sum!Byte
<1>3. /\ 0 \notin s[0] /\ 1 \notin s[0] /\ 2 \notin s[0] /\ 3 \notin s[0]
      /\ 4 \notin s[0] /\ 5 \notin s[0] /\ 6 \notin s[0] /\ 7 \notin s[0]
  <2>1. /\ 8 \notin s[0] /\ 9 \notin s[0] /\ 10 \notin s[0] /\ 11 \notin s[0]
        /\ 12 \notin s[0] /\ 13 \notin s[0] /\ 14 \notin s[0] /\ 15 \notin s[0]
    BY <1>2
  <2> QED BY <1>1, <2>1 DEF Bits, Fades
<1> QED BY <1>1, <1>3 DEF Sum!Byte

\* And none of the others becomes one of them.
LEMMA FadesBack ==
    ASSUME NEW d \in Sixteen, Fades(Sum!SymDiff(Sum!Shl(d), Sum!CRC_CCITT_TABLE[Sum!High(d)]))
    PROVE  Fades(d)
<1> DEFINE i == Sum!High(d)
           t == Sum!CRC_CCITT_TABLE[i]
           u == Sum!SymDiff(Sum!Shl(d), t)
<1>1. i \in Sum!Byte
  BY PartType
<1>2. PICK s : /\ s \in [0 .. 8 -> Sixteen] /\ s[0] = i /\ s[8] = t
               /\ Bits(s[0], s[1]) /\ Bits(s[1], s[2]) /\ Bits(s[2], s[3]) /\ Bits(s[3], s[4])
               /\ Bits(s[4], s[5]) /\ Bits(s[5], s[6]) /\ Bits(s[6], s[7]) /\ Bits(s[7], s[8])
  BY <1>1, EightBits
<1>3. /\ 8 \notin i /\ 9 \notin i /\ 10 \notin i /\ 11 \notin i
      /\ 12 \notin i /\ 13 \notin i /\ 14 \notin i /\ 15 \notin i
  BY <1>1 DEF Sum!Byte
<1>4. /\ (0 \in i <=> 8 \in d)  /\ (1 \in i <=> 9 \in d)  /\ (2 \in i <=> 10 \in d) /\ (3 \in i <=> 11 \in d)
      /\ (4 \in i <=> 12 \in d) /\ (5 \in i <=> 13 \in d) /\ (6 \in i <=> 14 \in d) /\ (7 \in i <=> 15 \in d)
  <2>1. \A k \in Nat : k \in i <=> k + 8 \in d
    BY ShrIn DEF Sum!High
  <2> HIDE DEF i
  <2> QED BY <2>1
<1>5. /\ \A k \in 0 .. 7 : k \in u <=> k \in t
      /\ \A k \in 8 .. 15 : k \in u <=> ~(k - 8 \in d <=> k \in t)
  <2>1. \A k \in 0 .. 15 : k \in Sum!Shl(d) <=> (k >= 8 /\ k - 8 \in d)
    BY ShlIn
  <2> HIDE DEF t
  <2>2. \A k \in 0 .. 15 : k \in u <=> ~((k >= 8 /\ k - 8 \in d) <=> k \in t)
    BY <2>1, DiffIn
  <2> QED BY <2>2
<1> HIDE DEF i, t, u
<1>6. /\ (0 \in u <=> 0 \in t) /\ (1 \in u <=> 1 \in t) /\ (2 \in u <=> 2 \in t) /\ (3 \in u <=> 3 \in t)
      /\ (4 \in u <=> 4 \in t) /\ (5 \in u <=> 5 \in t) /\ (6 \in u <=> 6 \in t) /\ (7 \in u <=> 7 \in t)
  BY <1>5
<1>7. /\ (8 \in u <=> ~(0 \in d <=> 8 \in t))   /\ (9 \in u <=> ~(1 \in d <=> 9 \in t))
      /\ (10 \in u <=> ~(2 \in d <=> 10 \in t)) /\ (11 \in u <=> ~(3 \in d <=> 11 \in t))
      /\ (12 \in u <=> ~(4 \in d <=> 12 \in t)) /\ (13 \in u <=> ~(5 \in d <=> 13 \in t))
      /\ (14 \in u <=> ~(6 \in d <=> 14 \in t)) /\ (15 \in u <=> ~(7 \in d <=> 15 \in t))
  BY <1>5
<1>8. Fades(u)
  BY DEF u, t, i
<1> QED BY <1>2, <1>3, <1>4, <1>6, <1>7, <1>8 DEF Bits, Fades

\* The sum that is left of an intact frame in FlexNet.
LEMMA FlexMark ==
    /\ 0 .. 3 \in Sum!Byte
    /\ Sum!SymDiff(Sum!Shl(7 .. 11 \cup 0 .. 2), Sum!CRC_FLEX_TABLE[0 .. 3]) = 12 .. 14 \cup 4 .. 6
<1> DEFINE t == Sum!CRC_CCITT_TABLE[0 .. 3]
<1>1. 0 .. 3 \in Sum!Byte
  BY DEF Sum!Byte
<1>2. PICK s : /\ s \in [0 .. 8 -> Sixteen] /\ s[0] = 0 .. 3 /\ s[8] = t
               /\ Bits(s[0], s[1]) /\ Bits(s[1], s[2]) /\ Bits(s[2], s[3]) /\ Bits(s[3], s[4])
               /\ Bits(s[4], s[5]) /\ Bits(s[5], s[6]) /\ Bits(s[6], s[7]) /\ Bits(s[7], s[8])
  BY <1>1, EightBits
<1> HIDE DEF t
\* 0xF8F7.
<1>3. /\ 0 \in t /\ 1 \in t /\ 2 \in t /\ 3 \notin t /\ 4 \in t /\ 5 \in t /\ 6 \in t /\ 7 \in t
      /\ 8 \notin t /\ 9 \notin t /\ 10 \notin t /\ 11 \in t /\ 12 \in t /\ 13 \in t /\ 14 \in t /\ 15 \in t
  <2>1. /\ 0 \in s[0] /\ 1 \in s[0] /\ 2 \in s[0] /\ 3 \in s[0]
        /\ 4 \notin s[0] /\ 5 \notin s[0] /\ 6 \notin s[0] /\ 7 \notin s[0]
        /\ 8 \notin s[0] /\ 9 \notin s[0] /\ 10 \notin s[0] /\ 11 \notin s[0]
        /\ 12 \notin s[0] /\ 13 \notin s[0] /\ 14 \notin s[0] /\ 15 \notin s[0]
    BY <1>2
  <2> QED BY <1>2, <2>1 DEF Bits
<1> DEFINE f == 7 .. 11 \cup 0 .. 2
           w == Sum!SymDiff(Sum!Shl(f), Sum!SymDiff(t, f))
<1>4. f \in Sixteen /\ t \in Sixteen
  BY <1>2 DEF Sixteen
<1>5. ASSUME NEW k \in 0 .. 15 PROVE k \in w <=> k \in 12 .. 14 \cup 4 .. 6
  <2>1. k \in Sum!Shl(f) <=> (k >= 8 /\ k - 8 \in f)
    BY <1>4, ShlIn
  <2>2. k \in w <=> ~((k >= 8 /\ k - 8 \in f) <=> ~(k \in t <=> k \in f))
    BY <2>1, DiffIn
  <2> HIDE DEF w
  <2>3. k \in f <=> (k >= 7 /\ k <= 11) \/ k <= 2
    OBVIOUS
  <2>4. (k >= 8 /\ k - 8 \in f) <=> k = 15 \/ k \in 8 .. 10
    OBVIOUS
  <2>5. k \in t <=> k \in {0, 1, 2, 4, 5, 6, 7, 11, 12, 13, 14, 15}
    BY <1>3
  <2> HIDE DEF f
  <2> QED BY <2>2, <2>3, <2>4, <2>5
<1>6. w \in Sixteen /\ 12 .. 14 \cup 4 .. 6 \in Sixteen
  <2>1. w \in Sixteen
    BY <1>4, ShlIn, DiffType
  <2> QED BY <2>1 DEF Sixteen
<1>7. w = 12 .. 14 \cup 4 .. 6
  <2> HIDE DEF w
  <2> QED BY <1>5, <1>6 DEF Sixteen
<1>8. Sum!CRC_FLEX_TABLE[0 .. 3] = Sum!SymDiff(t, f)
  BY <1>1 DEF Sum!CRC_FLEX_TABLE, t
<1> QED BY <1>1, <1>7, <1>8

-----------------------------------------------------------------------------
(* What the line does to a sum.                                             *)

SumKinds == {"Smack", "FlexNet", "BpqCrc"}
Sums(v)  == IF v = "BpqCrc" THEN Sum!Byte ELSE Sixteen

\* A step for the difference of two sums.
Lin(v, d, e) ==
    CASE v = "Smack"   -> Sum!SymDiff(Sum!High(d), Sum!CRC16_TABLE[Sum!SymDiff(Sum!Low(d), e)])
      [] v = "FlexNet" -> Sum!SymDiff(Sum!Shl(d), Sum!CRC_CCITT_TABLE[Sum!SymDiff(Sum!High(d), e)])
      [] v = "BpqCrc"  -> Sum!SymDiff(d, e)

LEMMA TablesLinear == Linear(Sum!CRC16_TABLE) /\ Linear(Sum!CRC_CCITT_TABLE)
<1>1. {15, 13, 0} \in Sixteen /\ {15, 10, 3} \in Sixteen
  BY DEF Sixteen
<1> QED BY <1>1, ReflectedLinear DEF Sum!CRC16_TABLE, Sum!CRC_CCITT_TABLE

LEMMA FlexTable ==
    ASSUME NEW i \in Sum!Byte
    PROVE  /\ Sum!CRC_FLEX_TABLE[i] = Sum!SymDiff(Sum!CRC_CCITT_TABLE[i], 7 .. 11 \cup 0 .. 2)
           /\ Sum!CRC_FLEX_TABLE[i] \in Sixteen
<1>1. 7 .. 11 \cup 0 .. 2 \in Sixteen
  BY DEF Sixteen
<1>2. Sum!CRC_CCITT_TABLE[i] \in Sixteen
  BY TablesLinear DEF Linear
<1> QED BY <1>1, <1>2, DiffType DEF Sum!CRC_FLEX_TABLE

LEMMA StepLinear ==
    ASSUME NEW v \in SumKinds, NEW c \in Sums(v), NEW d \in Sums(v), NEW b \in Sum!Byte, NEW e \in Sum!Byte
    PROVE  /\ Sum!Step(v, c, b) \in Sums(v) /\ Lin(v, d, e) \in Sums(v)
           /\ Sum!Step(v, Sum!SymDiff(c, d), Sum!SymDiff(b, e)) = Sum!SymDiff(Sum!Step(v, c, b), Lin(v, d, e))
<1>1. c \in Sixteen /\ d \in Sixteen
  BY ByteSixteen DEF Sums
<1>2. CASE v = "Smack"
  <2> DEFINE t == Sum!CRC16_TABLE
             i == Sum!SymDiff(Sum!Low(c), b)
             j == Sum!SymDiff(Sum!Low(d), e)
  <2>1. /\ i \in Sum!Byte /\ j \in Sum!Byte
        /\ Sum!High(c) \in Sixteen /\ Sum!High(d) \in Sixteen
    BY <1>1, PartType, DiffType, ByteSixteen
  <2>2. /\ Sum!High(Sum!SymDiff(c, d)) = Sum!SymDiff(Sum!High(c), Sum!High(d))
        /\ Sum!Low(Sum!SymDiff(c, d)) = Sum!SymDiff(Sum!Low(c), Sum!Low(d))
    <3>1. 8 \in Nat
      OBVIOUS
    <3> QED BY <1>1, <3>1, PartDiff DEF Sum!High
  <2>3. Sum!SymDiff(Sum!Low(Sum!SymDiff(c, d)), Sum!SymDiff(b, e)) = Sum!SymDiff(i, j)
    BY <2>2, DiffSwap
  <2>4. t[Sum!SymDiff(i, j)] = Sum!SymDiff(t[i], t[j]) /\ t[i] \in Sixteen /\ t[j] \in Sixteen
    BY <2>1, TablesLinear DEF Linear
  <2>5. /\ Sum!Step(v, c, b) = Sum!SymDiff(Sum!High(c), t[i])
        /\ Lin(v, d, e) = Sum!SymDiff(Sum!High(d), t[j])
        /\ Sum!Step(v, Sum!SymDiff(c, d), Sum!SymDiff(b, e)) =
               Sum!SymDiff(Sum!SymDiff(Sum!High(c), Sum!High(d)), Sum!SymDiff(t[i], t[j]))
    BY <1>2, <2>2, <2>3, <2>4 DEF Sum!Step, Sum!crc16, Lin
  <2> HIDE DEF t, i, j
  <2>6. Sum!Step(v, c, b) \in Sixteen /\ Lin(v, d, e) \in Sixteen
    BY <2>1, <2>4, <2>5, DiffType
  <2> QED BY <1>2, <2>5, <2>6, DiffSwap DEF Sums
<1>3. CASE v = "FlexNet"
  <2> DEFINE t == Sum!CRC_CCITT_TABLE
             f == 7 .. 11 \cup 0 .. 2
             i == Sum!SymDiff(Sum!High(c), b)
             j == Sum!SymDiff(Sum!High(d), e)
  <2>1. /\ i \in Sum!Byte /\ j \in Sum!Byte
        /\ Sum!Shl(c) \in Sixteen /\ Sum!Shl(d) \in Sixteen
    BY <1>1, PartType, DiffType
  <2>2. /\ Sum!High(Sum!SymDiff(c, d)) = Sum!SymDiff(Sum!High(c), Sum!High(d))
        /\ Sum!Shl(Sum!SymDiff(c, d)) = Sum!SymDiff(Sum!Shl(c), Sum!Shl(d))
    <3>1. 8 \in Nat
      OBVIOUS
    <3> QED BY <1>1, <3>1, PartDiff DEF Sum!High
  <2>3. Sum!SymDiff(Sum!High(Sum!SymDiff(c, d)), Sum!SymDiff(b, e)) = Sum!SymDiff(i, j)
    BY <2>2, DiffSwap
  <2>4. /\ t[Sum!SymDiff(i, j)] = Sum!SymDiff(t[i], t[j]) /\ t[i] \in Sixteen /\ t[j] \in Sixteen
        /\ Sum!SymDiff(i, j) \in Sum!Byte
    BY <2>1, TablesLinear, DiffType DEF Linear
  <2>5. /\ Sum!CRC_FLEX_TABLE[i] = Sum!SymDiff(t[i], f) /\ Sum!CRC_FLEX_TABLE[i] \in Sixteen
        /\ Sum!CRC_FLEX_TABLE[Sum!SymDiff(i, j)] = Sum!SymDiff(Sum!SymDiff(t[i], t[j]), f)
    BY <2>1, <2>4, FlexTable
  <2>6. /\ Sum!Step(v, c, b) = Sum!SymDiff(Sum!Shl(c), Sum!CRC_FLEX_TABLE[i])
        /\ Lin(v, d, e) = Sum!SymDiff(Sum!Shl(d), t[j])
        /\ Sum!Step(v, Sum!SymDiff(c, d), Sum!SymDiff(b, e)) =
               Sum!SymDiff(Sum!SymDiff(Sum!Shl(c), Sum!Shl(d)), Sum!SymDiff(Sum!SymDiff(t[i], t[j]), f))
    BY <1>3, <2>2, <2>3, <2>5 DEF Sum!Step, Sum!crc_flex, Lin
  <2> HIDE DEF t, i, j, f
  <2>7. Sum!SymDiff(Sum!SymDiff(t[i], t[j]), f) = Sum!SymDiff(Sum!SymDiff(t[i], f), t[j])
    BY DEF Sum!SymDiff
  <2>8. Sum!Step(v, c, b) \in Sixteen /\ Lin(v, d, e) \in Sixteen
    BY <2>1, <2>4, <2>5, <2>6, DiffType
  <2> QED BY <1>3, <2>5, <2>6, <2>7, <2>8, DiffSwap DEF Sums
<1>4. CASE v = "BpqCrc"
  BY <1>4, DiffSwap, DiffType DEF Sums, Sum!Step, Lin
<1> QED BY <1>2, <1>3, <1>4 DEF SumKinds

\* The check bytes bring every sum to the same end.
LEMMA TrailerSum ==
    ASSUME NEW v \in SumKinds, NEW c \in Sums(v)
    PROVE  LET t == Sum!Trailer(v, c)
           IN  /\ t[1] \in Sum!Byte
               /\ IF v = "BpqCrc" THEN t = <<t[1]>> /\ Sum!Step(v, c, t[1]) = Sum!Residue(v)
                  ELSE /\ t = <<t[1], t[2]>> /\ t[2] \in Sum!Byte
                       /\ Sum!Step(v, Sum!Step(v, c, t[1]), t[2]) = Sum!Residue(v)
<1> DEFINE l == Sum!Low(c)
           h == Sum!High(c)
<1>1. v # "BpqCrc" => c \in Sixteen
  BY DEF Sums
<1>2. CASE v = "Smack"
  <2>1. l \in Sum!Byte /\ h \in Sum!Byte /\ Sum!Low(h) = h /\ Sum!High(h) = {}
    BY <1>1, <1>2, PartType, ByteSixteen
  <2>2. Sum!CRC16_TABLE[{}] = {}
    BY TablesLinear DEF Linear
  <2>3. Sum!Step(v, c, l) = h
    BY <1>2, <2>2, DiffCancels DEF Sum!Step, Sum!crc16
  <2>4. Sum!Step(v, h, h) = {}
    <3> HIDE DEF h
    <3> QED BY <1>2, <2>1, <2>2, DiffCancels DEF Sum!Step, Sum!crc16
  <2>5. Sum!Trailer(v, c) = <<l, h>>
    BY <1>2 DEF Sum!Trailer
  <2> HIDE DEF l, h
  <2> QED BY <1>2, <2>1, <2>3, <2>4, <2>5 DEF Sum!Residue
<1>3. CASE v = "FlexNet"
  <2> DEFINE f == 7 .. 11 \cup 0 .. 2
             w == Sum!SymDiff(Sum!Shl(c), f)
  <2>1. l \in Sum!Byte /\ h \in Sum!Byte
    BY <1>1, <1>3, PartType
  <2>2. {} \in Sum!Byte /\ Sum!CRC_CCITT_TABLE[{}] = {}
    BY TablesLinear DEF Linear, Sum!Byte
  <2>3. Sum!CRC_FLEX_TABLE[{}] = f
    BY <2>2, FlexTable, DiffCancels
  <2>4. Sum!Step(v, c, h) = w
    BY <1>3, <2>3, DiffCancels DEF Sum!Step, Sum!crc_flex
  <2>5. f \in Sixteen /\ w \in Sixteen /\ c \in Sixteen
    <3>1. f \in Sixteen
      BY DEF Sixteen
    <3> QED BY <1>1, <1>3, <3>1, PartType, DiffType
  <2>6. Sum!High(w) = Sum!SymDiff(l, 0 .. 3)
    <3>1. \A i \in Nat : i \in Sum!High(w) <=> i + 8 \in w
      BY <2>5, ShrIn DEF Sum!High
    <3>2. \A i \in 0 .. 7 : i + 8 \in w <=> ~(i \in c <=> i + 8 \in f)
      <4>1. ASSUME NEW i \in 0 .. 7 PROVE i + 8 \in Sum!Shl(c) <=> i \in c
        <5>1. i + 8 \in 0 .. 15 /\ i + 8 >= 8 /\ (i + 8) - 8 = i
          OBVIOUS
        <5> QED BY <2>5, <5>1, ShlIn
      <4> QED BY <4>1, DiffIn
    <3>3. \A i \in 0 .. 7 : i + 8 \in f <=> i \in 0 .. 3
      OBVIOUS
    <3>4. Sum!High(w) \subseteq 0 .. 7
      BY <2>5, PartType DEF Sum!Byte
    <3>5. Sum!SymDiff(l, 0 .. 3) \subseteq 0 .. 7
      BY DEF Sum!SymDiff, Sum!Low
    <3>6. \A i \in 0 .. 7 : i \in Sum!SymDiff(l, 0 .. 3) <=> ~(i \in c <=> i \in 0 .. 3)
      BY DiffIn DEF Sum!Low
    <3> HIDE DEF w, f, l
    <3>7. \A i \in 0 .. 7 : i \in Sum!High(w) <=> i \in Sum!SymDiff(l, 0 .. 3)
      BY <3>1, <3>2, <3>3, <3>6
    <3> QED BY <3>4, <3>5, <3>7
  <2>7. Sum!Shl(w) = Sum!Shl(f)
    <3>1. \A i \in 0 .. 7 : i \notin Sum!Shl(c)
      BY <2>5, ShlIn
    <3>2. Sum!Low(w) = Sum!Low(f)
      <4>1. \A i \in 0 .. 7 : i \in w <=> i \in f
        BY <3>1, DiffIn
      <4> HIDE DEF w, f
      <4> QED BY <4>1 DEF Sum!Low
    <3> HIDE DEF w, f
    <3> QED BY <3>2 DEF Sum!Shl
  <2>8. Sum!SymDiff(Sum!SymDiff(l, 0 .. 3), l) = 0 .. 3
    BY DEF Sum!SymDiff
  <2>9. Sum!Step(v, w, l) = 12 .. 14 \cup 4 .. 6
    <3> HIDE DEF w, l
    <3> QED BY <1>3, <2>6, <2>7, <2>8, FlexMark DEF Sum!Step, Sum!crc_flex
  <2>10. Sum!Trailer(v, c) = <<h, l>>
    BY <1>3 DEF Sum!Trailer
  <2> HIDE DEF l, h, w
  <2> QED BY <1>3, <2>1, <2>4, <2>9, <2>10 DEF Sum!Residue
<1>4. CASE v = "BpqCrc"
  <2>1. c \in Sum!Byte /\ Sum!Trailer(v, c) = <<c>> /\ Sum!Step(v, c, c) = Sum!SymDiff(c, c)
    BY <1>4 DEF Sums, Sum!Trailer, Sum!Step
  <2> QED BY <1>4, <2>1, DiffCancels DEF Sum!Residue
<1> QED BY <1>2, <1>3, <1>4 DEF SumKinds

\* What n garbled bytes, of which the last was the byte before if w, have made
\* of the difference between the receiver's sum and the right one.
Differs(v, n, w, d) ==
    /\ n = 0 <=> d = {}
    /\ v # "Smack" => n <= 1
    /\ (v = "Smack" /\ n = 1 /\ w) => Sum!High(d) # {}
    /\ (v = "FlexNet" /\ n > 0) => ~Fades(d)

LEMMA SmackStays ==
    ASSUME NEW d \in Sixteen, NEW e \in Sum!Byte, Lin("Smack", d, e) = {}
    PROVE  Sum!High(d) = {} /\ Sum!Low(d) = e
<1> DEFINE i == Sum!SymDiff(Sum!Low(d), e)
           t == Sum!CRC16_TABLE
<1>1. Sum!High(d) \in Sum!Byte /\ i \in Sum!Byte
  BY PartType, DiffType
<1>2. Sum!High(d) = t[i]
  BY DiffCancels DEF Lin
<1>3. Sum!High(t[i]) = {}
  BY <1>1, <1>2, ByteSixteen
<1>4. i = {}
  <2>1. {15, 13, 0} \in Sixteen /\ 15 \in {15, 13, 0}
    BY DEF Sixteen
  <2> HIDE DEF i
  <2> QED BY <1>1, <1>3, <2>1, UpperMark DEF Sum!CRC16_TABLE
<1>5. t[{}] = {}
  BY TablesLinear DEF Linear
<1> QED BY <1>2, <1>4, <1>5, DiffCancels

LEMMA NoBits == ASSUME NEW d \in Sixteen, Sum!High(d) = {}, Sum!Low(d) = {} PROVE d = {}
<1>1. \A i \in 0 .. 7 : i \notin d
  BY DEF Sum!Low
<1>2. ASSUME NEW i \in d PROVE FALSE
  <2>1. i \in 0 .. 15
    BY DEF Sixteen
  <2>2. i - 8 \in Nat /\ (i - 8) + 8 = i
    BY <1>1, <2>1
  <2>3. \A k \in Nat : k \in Sum!High(d) <=> k + 8 \in d
    BY ShrIn DEF Sum!High
  <2> QED BY <2>2, <2>3
<1> QED BY <1>2

LEMMA LineDiffers ==
    ASSUME NEW v \in SumKinds, NEW n \in 0 .. 2, NEW w \in BOOLEAN, NEW d \in Sums(v), NEW e \in Sum!Byte,
           Differs(v, n, w, d), e # {} => n = 0 \/ (w /\ n = 1 /\ v = "Smack")
    PROVE  Differs(v, IF e # {} THEN n + 1 ELSE n, e # {}, Lin(v, d, e))
<1> DEFINE l == Lin(v, d, e)
<1>1. CASE v = "Smack"
  <2>1. d \in Sixteen
    BY <1>1 DEF Sums
  <2>2. l = {} => Sum!High(d) = {} /\ Sum!Low(d) = e
    BY <1>1, <2>1, SmackStays
  <2>3. Sum!High({}) = {} /\ Sum!Low({}) = {} /\ {} \in Sixteen
    BY DEF Sum!High, Sum!Shr, Sum!Low, Sixteen
  <2>4. d = {} => l = Sum!CRC16_TABLE[e]
    BY <1>1, <2>3, DiffCancels DEF Lin
  <2>5. CASE e = {}
    <3>1. d = {} => l = {}
      BY <2>4, <2>5, TablesLinear DEF Linear
    <3>2. l = {} => d = {}
      BY <2>1, <2>2, <2>5, NoBits
    <3> HIDE DEF l
    <3> QED BY <1>1, <2>5, <3>1, <3>2 DEF Differs, l
  <2>6. CASE e # {} /\ n = 0
    <3>1. d = {} /\ l = Sum!CRC16_TABLE[e]
      BY <2>4, <2>6 DEF Differs
    <3>2. {15, 13, 0} \in Sixteen /\ 15 \in {15, 13, 0}
      BY DEF Sixteen
    <3>3. Sum!High(l) # {}
      BY <2>6, <3>1, <3>2, UpperMark DEF Sum!CRC16_TABLE
    <3>4. l # {}
      BY <2>3, <3>3
    <3> HIDE DEF l
    <3> QED BY <1>1, <2>6, <3>3, <3>4 DEF Differs, l
  <2>7. CASE e # {} /\ n # 0
    <3>1. w /\ n = 1 /\ Sum!High(d) # {}
      BY <1>1, <2>7 DEF Differs
    <3>2. l # {}
      BY <2>2, <3>1
    <3> HIDE DEF l
    <3> QED BY <1>1, <2>7, <3>1, <3>2 DEF Differs, l
  <2> QED BY <2>5, <2>6, <2>7
<1>2. CASE v = "FlexNet"
  <2>1. d \in Sixteen
    BY <1>2 DEF Sums
  <2>2. Sum!High({}) = {} /\ Sum!Shl({}) = {} /\ Fades({})
    BY DEF Sum!High, Sum!Shr, Sum!Shl, Sum!Low, Fades
  <2>3. d = {} => l = Sum!CRC_CCITT_TABLE[e]
    BY <1>2, <2>2, DiffCancels DEF Lin
  <2>4. CASE e = {}
    <3>1. d = {} => l = {}
      BY <2>3, <2>4, TablesLinear DEF Linear
    <3>2. l = Sum!SymDiff(Sum!Shl(d), Sum!CRC_CCITT_TABLE[Sum!High(d)])
      BY <1>2, <2>4, DiffCancels DEF Lin
    <3>3. Fades(l) => Fades(d)
      BY <2>1, <3>2, FadesBack
    <3> HIDE DEF l
    <3> QED BY <1>2, <2>2, <2>4, <3>1, <3>3 DEF Differs, l
  <2>5. CASE e # {}
    <3>1. n = 0 /\ d = {}
      BY <1>2, <2>5 DEF Differs
    <3>2. ~Fades(l)
      BY <2>3, <2>5, <3>1, ByteStays
    <3> HIDE DEF l
    <3> QED BY <1>2, <2>2, <2>5, <3>1, <3>2 DEF Differs, l
  <2> QED BY <2>4, <2>5
<1>3. CASE v = "BpqCrc"
  <2>1. l = Sum!SymDiff(d, e)
    BY <1>3 DEF Lin
  <2>2. CASE e = {}
    BY <1>3, <2>1, <2>2, DiffCancels DEF Differs
  <2>3. CASE e # {}
    <3>1. n = 0 /\ d = {} /\ l = e
      BY <1>3, <2>1, <2>3, DiffCancels DEF Differs
    <3> HIDE DEF l
    <3> QED BY <1>3, <2>3, <3>1 DEF Differs, l
  <2> QED BY <2>2, <2>3
<1> QED BY <1>1, <1>2, <1>3 DEF SumKinds

\* The sum that the receiver would have without the burst.
Expected ==
    LET t == Sum!Trailer(variant, reg)
    IN  IF open \/ check = t THEN reg
        ELSE IF check = <<>> THEN Sum!Residue(variant)
        ELSE Sum!Step(variant, reg, t[1])

SumInv ==
    /\ variant \in SumKinds /\ open \in BOOLEAN /\ burst \in 0 .. 2 /\ before \in BOOLEAN
    /\ reg \in Sums(variant) /\ sums \in Sums(variant)
    /\ IF open THEN check = <<>>
       ELSE check \in {Sum!Trailer(variant, reg), Tail(Sum!Trailer(variant, reg)), <<>>}
    /\ Differs(variant, burst, before, Sum!SymDiff(sums, Expected))

\* The sum of a byte, garbled or not.
LEMMA LineStep ==
    ASSUME SumInv, NEW b \in Sum!Byte, NEW e \in Sum!Byte, NEW c \in Sums(variant),
           Differs(variant, burst, before, Sum!SymDiff(sums, c)), Sum!Line(b, e)
    PROVE  /\ burst' \in 0 .. 2 /\ before' \in BOOLEAN /\ variant' = variant /\ sums' \in Sums(variant)
           /\ Sum!Step(variant, c, b) \in Sums(variant)
           /\ Differs(variant, burst', before', Sum!SymDiff(sums', Sum!Step(variant, c, b)))
<1> DEFINE v == variant
           d == Sum!SymDiff(sums, c)
           s == Sum!Step(v, c, b)
<1>1. /\ v \in SumKinds /\ sums \in Sums(v) /\ burst \in 0 .. 2 /\ before \in BOOLEAN
      /\ e # {} => burst = 0 \/ (before /\ burst = 1 /\ v = "Smack")
      /\ burst' = (IF e # {} THEN burst + 1 ELSE burst) /\ before' = (e # {})
      /\ sums' = Sum!Step(v, sums, Sum!SymDiff(b, e)) /\ variant' = v
  BY DEF SumInv, Sum!Line
<1>2. d \in Sums(v)
  BY <1>1, DiffType DEF Sums
<1>3. sums = Sum!SymDiff(c, d)
  BY DEF Sum!SymDiff
<1> HIDE DEF d
<1>4. s \in Sums(v) /\ Lin(v, d, e) \in Sums(v) /\ sums' = Sum!SymDiff(s, Lin(v, d, e))
  BY <1>1, <1>2, <1>3, StepLinear
<1> HIDE DEF s
<1>5. Sum!SymDiff(sums', s) = Lin(v, d, e) /\ sums' \in Sums(v)
  <2>1. Sum!SymDiff(Sum!SymDiff(s, Lin(v, d, e)), s) = Lin(v, d, e)
    BY DEF Sum!SymDiff
  <2> QED BY <1>4, <2>1, DiffType DEF Sums
<1>6. Differs(v, burst', before', Lin(v, d, e))
  <2>1. Differs(v, burst, before, d)
    BY DEF d
  <2> HIDE DEF v
  <2> QED BY <1>1, <1>2, <2>1, LineDiffers
<1>7. burst' \in 0 .. 2 /\ before' \in BOOLEAN
  BY <1>1
<1> QED BY <1>1, <1>4, <1>5, <1>6, <1>7 DEF s

LEMMA SumInitially == ASSUME Sum!Init PROVE SumInv
<1>1. /\ variant \in SumKinds /\ reg = Sum!Start(variant) /\ sums = reg /\ open = TRUE /\ check = <<>>
      /\ burst = 0 /\ before = FALSE
  BY DEF Sum!Init, SumKinds
<1>2. {} \in Sum!Byte /\ {} \in Sixteen /\ 0 .. 15 \in Sixteen
  BY DEF Sum!Byte, Sixteen
<1>3. reg \in Sums(variant)
  <2>1. CASE variant = "Smack"
    <3>1. reg = Sum!Step("Smack", {}, {}) /\ {} \in Sums("Smack") /\ "Smack" \in SumKinds
      BY <1>1, <1>2, <2>1 DEF Sum!Start, Sum!Step, Sums, SumKinds
    <3> QED BY <1>2, <2>1, <3>1, StepLinear
  <2>2. CASE variant = "FlexNet"
    <3>1. reg = Sum!Step("FlexNet", 0 .. 15, {}) /\ 0 .. 15 \in Sums("FlexNet") /\ "FlexNet" \in SumKinds
      BY <1>1, <1>2, <2>2 DEF Sum!Start, Sum!Step, Sums, SumKinds
    <3> QED BY <1>2, <2>2, <3>1, StepLinear
  <2>3. CASE variant = "BpqCrc"
    BY <1>1, <1>2, <2>3 DEF Sum!Start, Sums
  <2> QED BY <1>1, <2>1, <2>2, <2>3 DEF SumKinds
<1>4. Expected = reg
  BY <1>1 DEF Expected
<1>5. Differs(variant, burst, before, Sum!SymDiff(sums, Expected))
  BY <1>1, <1>4, DiffCancels DEF Differs
<1>6. burst \in 0 .. 2 /\ sums \in Sums(variant)
  BY <1>1, <1>3
<1> QED BY <1>1, <1>3, <1>5, <1>6, Zenon DEF SumInv

LEMMA SumStep == ASSUME SumInv, Sum!Next PROVE SumInv'
<1>0. /\ variant \in SumKinds /\ open \in BOOLEAN /\ burst \in 0 .. 2 /\ before \in BOOLEAN
      /\ reg \in Sums(variant) /\ sums \in Sums(variant)
      /\ IF open THEN check = <<>>
         ELSE check \in {Sum!Trailer(variant, reg), Tail(Sum!Trailer(variant, reg)), <<>>}
      /\ Differs(variant, burst, before, Sum!SymDiff(sums, Expected))
  BY DEF SumInv
<1>e. \A e \in Errors \cup {{}} : e \in Sum!Byte
  BY CrcAssumption DEF Sum!Byte
<1>1. ASSUME NEW b \in Data, NEW e \in Errors \cup {{}}, Sum!DataByte(b, e) PROVE SumInv'
  <2>1. /\ open /\ open' = open /\ reg' = Sum!Step(variant, reg, b) /\ Sum!Line(b, e) /\ Expected = reg
        /\ check' = check
    BY <1>1 DEF Sum!DataByte, Expected
  <2>2. b \in Sum!Byte /\ e \in Sum!Byte
    BY <1>e, CrcAssumption
  <2>3. /\ burst' \in 0 .. 2 /\ before' \in BOOLEAN /\ variant' = variant /\ sums' \in Sums(variant)
        /\ Sum!Step(variant, reg, b) \in Sums(variant)
        /\ Differs(variant, burst', before', Sum!SymDiff(sums', Sum!Step(variant, reg, b)))
    BY <1>0, <2>1, <2>2, LineStep
  <2>4. Expected' = reg'
    BY <2>1 DEF Expected
  <2>5. Differs(variant', burst', before', Sum!SymDiff(sums', Expected'))
    BY <2>1, <2>3, <2>4
  <2>6. SumInv' <=> /\ variant' \in SumKinds /\ open' \in BOOLEAN /\ burst' \in 0 .. 2 /\ before' \in BOOLEAN
                    /\ reg' \in Sums(variant') /\ sums' \in Sums(variant')
                    /\ IF open' THEN check' = <<>>
                       ELSE check' \in {Sum!Trailer(variant', reg'), Tail(Sum!Trailer(variant', reg')), <<>>}
                    /\ Differs(variant', burst', before', Sum!SymDiff(sums', Expected'))
    BY DEF SumInv
  <2> QED BY <1>0, <2>1, <2>3, <2>5, <2>6
<1>2. ASSUME Sum!EndOfData PROVE SumInv'
  <2>1. /\ open /\ open' = FALSE /\ check' = Sum!Trailer(variant, reg)
        /\ variant' = variant /\ reg' = reg /\ sums' = sums /\ burst' = burst /\ before' = before
    BY <1>2 DEF Sum!EndOfData
  <2>2. Expected = reg /\ Expected' = reg
    BY <2>1 DEF Expected
  <2> QED BY <1>0, <2>1, <2>2 DEF SumInv
<1>3. ASSUME NEW e \in Errors \cup {{}}, Sum!CheckByte(e), ~open PROVE SumInv'
  <2> DEFINE v == variant
             t == Sum!Trailer(v, reg)
             c == Expected
  <2>1. /\ check # <<>> /\ Sum!Line(Head(check), e) /\ check' = Tail(check)
        /\ reg' = reg /\ open' = open /\ v' = v /\ t' = t
    BY <1>3 DEF Sum!CheckByte, Sum!Line
  <2>2. /\ t[1] \in Sum!Byte
        /\ IF v = "BpqCrc" THEN t = <<t[1]>> /\ Sum!Step(v, reg, t[1]) = Sum!Residue(v)
           ELSE /\ t = <<t[1], t[2]>> /\ t[2] \in Sum!Byte
                /\ Sum!Step(v, Sum!Step(v, reg, t[1]), t[2]) = Sum!Residue(v)
    BY <1>0, TrailerSum
  <2>3. Sum!Step(v, reg, t[1]) \in Sums(v)
    <3>1. {} \in Sum!Byte /\ {} \in Sums(v)
      BY DEF Sums, Sixteen, Sum!Byte
    <3> QED BY <1>0, <2>2, <3>1, StepLinear
  <2>4. ASSUME NEW b \in Sum!Byte, Head(check) = b, c \in Sums(v), Expected' = Sum!Step(v, c, b),
               check' \in {t, Tail(t), <<>>}
        PROVE  SumInv'
    <3>1. e \in Sum!Byte
      BY <1>e
    <3>2. /\ burst' \in 0 .. 2 /\ before' \in BOOLEAN /\ v' = v /\ sums' \in Sums(v)
          /\ Differs(v, burst', before', Sum!SymDiff(sums', Sum!Step(v, c, b)))
      <4> HIDE DEF c
      <4>1. Differs(variant, burst, before, Sum!SymDiff(sums, c)) /\ Sum!Line(b, e)
        BY <1>0, <2>1, <2>4 DEF c
      <4> QED BY <2>4, <3>1, <4>1, LineStep
    <3> QED BY <1>0, <2>1, <2>4, <3>2 DEF SumInv
  <2>5. Len(t) \in {1, 2} /\ (Len(t) = 1 <=> v = "BpqCrc")
    <3> HIDE DEF t, v
    <3>1. CASE v = "BpqCrc"
      <4>1. Len(<<t[1]>>) = 1
        OBVIOUS
      <4> QED BY <2>2, <3>1, <4>1
    <3>2. CASE v # "BpqCrc"
      <4>1. Len(<<t[1], t[2]>>) = 2
        OBVIOUS
      <4> QED BY <2>2, <3>2, <4>1
    <3> QED BY <3>1, <3>2
  <2>6. CASE check = t
    <3>1. c = reg /\ Head(check) = t[1]
      <4>1. Head(<<t[1]>>) = t[1] /\ Head(<<t[1], t[2]>>) = t[1]
        OBVIOUS
      <4>2. Head(t) = t[1]
        <5> HIDE DEF t, v
        <5> QED BY <2>2, <4>1
      <4> QED BY <2>6, <4>2 DEF Expected
    <3>2. CASE v = "BpqCrc"
      <4>1. check' = <<>>
        <5>1. Tail(<<t[1]>>) = <<>>
          OBVIOUS
        <5> HIDE DEF t
        <5> QED BY <2>1, <2>2, <2>6, <3>2, <5>1
      <4>2. Expected' = Sum!Step(v, c, t[1])
        <5>1. t # <<>>
          <6> HIDE DEF t
          <6>1. Len(<<>>) = 0
            OBVIOUS
          <6> QED BY <2>5, <6>1
        <5> QED BY <1>3, <2>1, <2>2, <3>1, <3>2, <4>1, <5>1 DEF Expected
      <4> HIDE DEF c, t, v
      <4> QED BY <1>0, <2>2, <2>4, <3>1, <4>1, <4>2 DEF v
    <3>3. CASE v # "BpqCrc"
      <4>1. check' = <<t[2]>> /\ Tail(t) = <<t[2]>>
        <5>1. Tail(<<t[1], t[2]>>) = <<t[2]>>
          OBVIOUS
        <5> HIDE DEF t
        <5> QED BY <2>1, <2>2, <2>6, <3>3, <5>1
      <4>2. <<t[2]>> # t /\ <<t[2]>> # <<>>
        <5>1. Len(<<t[2]>>) = 1 /\ Len(<<>>) = 0
          OBVIOUS
        <5> HIDE DEF t
        <5> QED BY <2>5, <3>3, <5>1
      <4>3. Expected' = Sum!Step(v, c, t[1])
        BY <1>3, <2>1, <3>1, <4>1, <4>2 DEF Expected
      <4> HIDE DEF c, t, v
      <4> QED BY <1>0, <2>2, <2>4, <3>1, <4>1, <4>3 DEF v
    <3> QED BY <3>2, <3>3
  <2>7. CASE check # t
    <3>1. check = Tail(t)
      BY <1>0, <1>3, <2>1, <2>7
    <3>2. v # "BpqCrc" /\ check = <<t[2]>>
      <4>1. Tail(<<t[1]>>) = <<>> /\ Tail(<<t[1], t[2]>>) = <<t[2]>>
        OBVIOUS
      <4> HIDE DEF t, v
      <4> QED BY <2>1, <2>2, <3>1, <4>1
    <3>3. Head(check) = t[2] /\ check' = <<>>
      <4>1. Head(<<t[2]>>) = t[2] /\ Tail(<<t[2]>>) = <<>>
        OBVIOUS
      <4> HIDE DEF t
      <4> QED BY <2>1, <3>2, <4>1
    <3>4. c = Sum!Step(v, reg, t[1])
      BY <1>3, <2>1, <2>7 DEF Expected
    <3>5. t # <<>>
      <4> HIDE DEF t
      <4>1. Len(<<>>) = 0
        OBVIOUS
      <4> QED BY <2>5, <4>1
    <3>6. Expected' = Sum!Residue(v)
      BY <1>3, <2>1, <3>3, <3>5 DEF Expected
    <3> HIDE DEF c, t, v
    <3> QED BY <2>2, <2>3, <2>4, <3>2, <3>3, <3>4, <3>6
  <2> QED BY <2>6, <2>7
<1>4. ASSUME NEW e \in Errors \cup {{}}, Sum!CheckByte(e) PROVE ~open
  BY <1>0, <1>4 DEF Sum!CheckByte
<1> QED BY <1>1, <1>2, <1>3, <1>4 DEF Sum!Next

-----------------------------------------------------------------------------
(* AGWPE frames.                                                            *)

\* A stretch of a sequence.
LEMMA Stretch ==
    ASSUME NEW A, NEW s \in Seq(A), NEW m \in Nat, NEW n \in Nat, 1 <= m, m <= n + 1, n <= Len(s)
    PROVE  /\ SubSeq(s, m, n) \in Seq(A) /\ Len(SubSeq(s, m, n)) = (n + 1) - m
           /\ \A i \in 1 .. (n + 1) - m : SubSeq(s, m, n)[i] = s[(m + i) - 1]
<1> DEFINE l == Len(s)
<1>1. l \in Nat /\ \A i \in 1 .. l : s[i] \in A
  OBVIOUS
<1> HIDE DEF l
<1>2. \A i \in m .. n : s[i] \in A
  BY <1>1 DEF l
<1>3. /\ SubSeq(s, m, n) \in Seq(A) /\ Len(SubSeq(s, m, n)) = IF m <= n THEN n - m + 1 ELSE 0
      /\ \A i \in 1 .. n - m + 1 : SubSeq(s, m, n)[i] = s[m + i - 1]
  BY <1>2, SubSeqProperties
<1>4. n - m + 1 = (n + 1) - m /\ \A i \in Nat : m + i - 1 = (m + i) - 1
  OBVIOUS
<1> QED BY <1>3, <1>4

LEMMA AgwLeast ==
    ASSUME NEW S \in SUBSET Nat, NEW m \in S, \A i \in S : m <= i
    PROVE  Agw!Min(S) = m
<1>1. \E i \in S : \A j \in S : i <= j
  OBVIOUS
<1>2. Agw!Min(S) \in S /\ \A j \in S : Agw!Min(S) <= j
  BY <1>1 DEF Agw!Min
<1>3. Agw!Min(S) \in Nat /\ Agw!Min(S) <= m /\ m <= Agw!Min(S)
  BY <1>2
<1> QED BY <1>3

LEMMA Beginning ==
    ASSUME NEW A, NEW s \in Seq(A), NEW n \in Nat, n <= Len(s)
    PROVE  /\ SubSeq(s, 1, n) \in Seq(A) /\ Len(SubSeq(s, 1, n)) = n
           /\ \A i \in 1 .. n : SubSeq(s, 1, n)[i] = s[i]
<1>1. /\ SubSeq(s, 1, n) \in Seq(A) /\ Len(SubSeq(s, 1, n)) = (n + 1) - 1
      /\ \A i \in 1 .. (n + 1) - 1 : SubSeq(s, 1, n)[i] = s[(1 + i) - 1]
  BY Stretch
<1>2. (n + 1) - 1 = n /\ \A i \in Nat : (1 + i) - 1 = i
  OBVIOUS
<1> QED BY <1>1, <1>2

\* What comes back of a callsign: its first ten bytes.
LEMMA CallReturns ==
    ASSUME NEW A, NEW call \in Seq(A), "NUL" \notin A
    PROVE  Agw!extract_callsign(Agw!write_callsign(call)) = SubSeq(call, 1, Agw!Min({Len(call), 10}))
<1> DEFINE l == Len(call)
           f == Agw!write_callsign(call)
           m == IF l <= 10 THEN l ELSE 10
           nuls == {i \in DOMAIN f : f[i] = "NUL"} \cup {Agw!Field + 1}
<1>1. l \in Nat /\ \A i \in 1 .. l : call[i] \in A
  OBVIOUS
<1> HIDE DEF l
<1>2. m \in Nat /\ m <= l /\ m <= 10
  BY <1>1
<1>3. f \in Seq(A \cup {"NUL"}) /\ Len(f) = 10 /\ \A i \in 1 .. 10 : f[i] = IF i <= l THEN call[i] ELSE "NUL"
  <2>1. f = [i \in 1 .. 10 |-> IF i <= l THEN call[i] ELSE "NUL"]
    BY DEF Agw!write_callsign, Agw!Field, l
  <2> HIDE DEF f
  <2> QED BY <1>1, <2>1
<1> HIDE DEF f
<1>4. DOMAIN f = 1 .. 10
  BY <1>3
<1>5. Agw!Min({l, 10}) = m
  <2>1. {l, 10} \in SUBSET Nat /\ m \in {l, 10} /\ \A i \in {l, 10} : m <= i
    BY <1>1
  <2> HIDE DEF m
  <2> QED BY <2>1, AgwLeast
<1>6. Agw!Min(nuls) = m + 1
  <2>0. Agw!Field + 1 = 11
    BY DEF Agw!Field
  <2>1. nuls \in SUBSET Nat
    BY <1>4, <2>0
  <2>2. m + 1 \in nuls
    <3>1. CASE l <= 9
      BY <1>1, <1>3, <1>4, <3>1
    <3>2. CASE ~(l <= 9)
      BY <1>1, <2>0, <3>2
    <3> QED BY <3>1, <3>2
  <2>3. ASSUME NEW i \in nuls PROVE m + 1 <= i
    <3>1. CASE i = 11
      BY <1>2, <3>1
    <3>2. CASE i \in 1 .. 10 /\ f[i] = "NUL"
      <4>1. ~(i <= l)
        <5>1. ASSUME i <= l PROVE FALSE
          <6>1. i \in 1 .. l
            BY <1>1, <3>2, <5>1
          <6>2. call[i] \in A /\ f[i] = call[i]
            BY <1>1, <1>3, <3>2, <5>1, <6>1
          <6> QED BY <3>2, <6>2
        <5> QED BY <5>1
      <4> QED BY <1>1, <1>2, <3>2, <4>1
    <3> QED BY <1>4, <2>0, <3>1, <3>2
  <2> HIDE DEF nuls, m
  <2> QED BY <2>1, <2>2, <2>3, AgwLeast
<1>7. Agw!extract_callsign(f) = SubSeq(f, 1, (m + 1) - 1)
  <2> HIDE DEF m
  <2> QED BY <1>6 DEF Agw!extract_callsign
<1>8. (m + 1) - 1 = m
  BY <1>2
<1>9. SubSeq(f, 1, m) = SubSeq(call, 1, m)
  <2> HIDE DEF m
  <2>1. /\ SubSeq(f, 1, m) \in Seq(A \cup {"NUL"}) /\ Len(SubSeq(f, 1, m)) = m
        /\ \A i \in 1 .. m : SubSeq(f, 1, m)[i] = f[i]
    <3>1. m <= Len(f)
      BY <1>2, <1>3
    <3> QED BY <1>2, <1>3, <3>1, Beginning
  <2>2. /\ SubSeq(call, 1, m) \in Seq(A \cup {"NUL"}) /\ Len(SubSeq(call, 1, m)) = m
        /\ \A i \in 1 .. m : SubSeq(call, 1, m)[i] = call[i]
    BY <1>2 DEF l
  <2>3. \A i \in 1 .. m : f[i] = call[i]
    BY <1>1, <1>2, <1>3
  <2> QED BY <2>1, <2>2, <2>3, SeqEqual
<1> QED BY <1>5, <1>7, <1>8, <1>9 DEF l, f

\* What a callsign keeps.
CallHead(call) == SubSeq(call, 1, Agw!Min({Len(call), Agw!Field}))

LEMMA FrameReturns ==
    ASSUME NEW p, NEW k, NEW A, NEW from \in Seq(A), NEW B, NEW to \in Seq(B), "NUL" \notin A, "NUL" \notin B,
           NEW D, NEW data \in Seq(D)
    PROVE  Agw!parse_agwpe_frame(Agw!encode_agwpe_frame(Agw!AgwpeFrame(p, k, from, to, data))) =
               Agw!AgwpeFrame(p, k, CallHead(from), CallHead(to), data)
<1> DEFINE f == Agw!AgwpeFrame(p, k, from, to, data)
           w == Agw!encode_agwpe_frame(f)
<1>1. /\ Agw!extract_callsign(Agw!write_callsign(from)) = CallHead(from)
      /\ Agw!extract_callsign(Agw!write_callsign(to)) = CallHead(to)
  BY CallReturns DEF CallHead, Agw!Field
<1>2. SubSeq(data, 1, Len(data)) = data
  OBVIOUS
<1>3. /\ f.port = p /\ f.data_kind = k /\ f.call_from = from /\ f.call_to = to /\ f.data = data
  BY DEF Agw!AgwpeFrame
<1> HIDE DEF f
<1>4. /\ w.port = p /\ w.kind = k /\ w.from = Agw!write_callsign(from) /\ w.to = Agw!write_callsign(to)
      /\ w.len = Len(data) /\ w.data = data
  BY <1>3 DEF Agw!encode_agwpe_frame
<1> HIDE DEF w
<1>5. Agw!parse_agwpe_frame(w) = Agw!AgwpeFrame(p, k, CallHead(from), CallHead(to), data)
  BY <1>1, <1>2, <1>4 DEF Agw!parse_agwpe_frame
<1> QED BY <1>5 DEF w, f

\* What a request is made of.
LEMMA RequestShape ==
    ASSUME NEW f \in Agw!Requests
    PROVE  \E p, k, A, B, D : \E from \in Seq(A), to \in Seq(B), data \in Seq(D) :
               "NUL" \notin A /\ "NUL" \notin B /\ f = Agw!AgwpeFrame(p, k, from, to, data)
<1> DEFINE Shape(p, k, from, to, data) ==
        \E A, B, D : /\ from \in Seq(A) /\ to \in Seq(B) /\ data \in Seq(D)
                     /\ "NUL" \notin A /\ "NUL" \notin B
<1> DEFINE Bytes0(s) == {s[i] : i \in DOMAIN s}
<1>1. /\ \A call \in Calls : call \in Seq(Bytes0(call) \ {"NUL"})
      /\ \A data \in Blocks : data \in Seq(Bytes0(data))
  BY AgwpeAssumption
<1>2. <<>> \in Seq({})
  OBVIOUS
<1> HIDE DEF Bytes0
<1>3. \A p, k : \A call \in Calls : Shape(p, k, call, <<>>, <<>>)
  BY <1>1, <1>2
<1>4. \A p, k : Shape(p, k, <<>>, <<>>, <<>>)
  BY <1>2
<1>5. \A p, k : \A from, to \in Calls, data \in Blocks : Shape(p, k, from, to, data)
  BY <1>1
<1>6. \E p, k, from, to, data : Shape(p, k, from, to, data) /\ f = Agw!AgwpeFrame(p, k, from, to, data)
  <2> HIDE DEF Shape
  <2>1. CASE f \in {Agw!register_callsign(p, c) : p \in Ports, c \in Calls}
    BY <1>3, <2>1 DEF Agw!register_callsign
  <2>2. CASE f \in {Agw!unregister_callsign(p, c) : p \in Ports, c \in Calls}
    BY <1>3, <2>2 DEF Agw!unregister_callsign
  <2>3. CASE f \in {Agw!raw_transmit(p, c, e, d) : p \in Ports, c, e \in Calls, d \in Blocks}
    BY <1>5, <2>3 DEF Agw!raw_transmit
  <2>4. CASE f \in {Agw!version_request, Agw!port_info_request}
    BY <1>4, <2>4 DEF Agw!version_request, Agw!port_info_request
  <2> QED BY <2>1, <2>2, <2>3, <2>4 DEF Agw!Requests
<1> QED BY <1>6

AgwInv ==
    /\ request = <<>> => wire = <<>> /\ parsed = <<>>
    /\ request # <<>> => request \in Agw!Requests
    /\ wire # <<>> => request # <<>> /\ wire = Agw!encode_agwpe_frame(request)
    /\ parsed # <<>> => request # <<>> /\ parsed = Agw!parse_agwpe_frame(Agw!encode_agwpe_frame(request))

LEMMA AgwStep == ASSUME AgwInv, Agw!Next PROVE AgwInv'
<1>1. ASSUME NEW f \in Agw!Requests, Agw!Send(f) PROVE AgwInv'
  <2>1. f # <<>>
    <3>1. "port" \in DOMAIN f
      BY RequestShape DEF Agw!AgwpeFrame
    <3>2. "port" \notin DOMAIN <<>>
      OBVIOUS
    <3> QED BY <3>1, <3>2
  <2> QED BY <1>1, <2>1 DEF AgwInv, Agw!Send
<1>2. ASSUME Agw!Parse PROVE AgwInv'
  BY <1>2 DEF AgwInv, Agw!Parse
<1> QED BY <1>1, <1>2 DEF Agw!Next

LEMMA AgwKeeps == AgwInv => Agw!AgwpeKeeps
<1> SUFFICES ASSUME AgwInv, parsed # <<>>
             PROVE  parsed = [request EXCEPT !.call_from = CallHead(@), !.call_to = CallHead(@)]
  BY DEF Agw!AgwpeKeeps, CallHead
<1>1. request \in Agw!Requests /\ parsed = Agw!parse_agwpe_frame(Agw!encode_agwpe_frame(request))
  BY DEF AgwInv
<1>2. PICK p, k, A, B, D : \E from \in Seq(A), to \in Seq(B), data \in Seq(D) :
               "NUL" \notin A /\ "NUL" \notin B /\ request = Agw!AgwpeFrame(p, k, from, to, data)
  BY <1>1, RequestShape
<1>3. PICK from \in Seq(A), to \in Seq(B), data \in Seq(D) :
               "NUL" \notin A /\ "NUL" \notin B /\ request = Agw!AgwpeFrame(p, k, from, to, data)
  BY <1>2
<1>4. parsed = Agw!AgwpeFrame(p, k, CallHead(from), CallHead(to), data)
  BY <1>1, <1>3, FrameReturns
<1> DEFINE a == CallHead(from)
           b == CallHead(to)
<1>5. CallHead(request.call_from) = a /\ CallHead(request.call_to) = b
  BY <1>3 DEF Agw!AgwpeFrame
<1>6. [request EXCEPT !.call_from = CallHead(@), !.call_to = CallHead(@)] =
          [request EXCEPT !.call_from = a, !.call_to = b]
  <2> HIDE DEF a, b
  <2> QED BY <1>3, <1>5 DEF Agw!AgwpeFrame
<1> HIDE DEF a, b
<1>7. [request EXCEPT !.call_from = a, !.call_to = b] = Agw!AgwpeFrame(p, k, a, b, data)
  <2>1. [request EXCEPT !.call_from = a, !.call_to = b] = [[request EXCEPT !.call_from = a] EXCEPT !.call_to = b]
    BY <1>3 DEF Agw!AgwpeFrame
  <2>2. [request EXCEPT !.call_from = a] = Agw!AgwpeFrame(p, k, a, to, data)
    BY <1>3 DEF Agw!AgwpeFrame
  <2>3. [Agw!AgwpeFrame(p, k, a, to, data) EXCEPT !.call_to = b] = Agw!AgwpeFrame(p, k, a, b, data)
    BY DEF Agw!AgwpeFrame
  <2> QED BY <2>1, <2>2, <2>3
<1> QED BY <1>4, <1>6, <1>7 DEF a, b

-----------------------------------------------------------------------------
(* Frames on several links.                                                 *)

\* A frame behind which check bytes have come.
Grown(f, c) == [f EXCEPT !.tail = @ \o c]

LEMMA NewTail ==
    ASSUME NEW a, NEW b, NEW x
    PROVE  [[fields |-> a, tail |-> b] EXCEPT !.tail = x] = [fields |-> a, tail |-> x]
  OBVIOUS

LEMMA GrownIs ==
    ASSUME NEW f, f = [fields |-> f.fields, tail |-> f.tail], NEW c
    PROVE  Grown(f, c) = [fields |-> f.fields, tail |-> f.tail \o c]
<1>1. [[fields |-> f.fields, tail |-> f.tail] EXCEPT !.tail = f.tail \o c] = [fields |-> f.fields, tail |-> f.tail \o c]
  <2> DEFINE a == f.fields
             b == f.tail
             x == f.tail \o c
  <2> HIDE DEF a, b, x
  <2>1. [[fields |-> a, tail |-> b] EXCEPT !.tail = x] = [fields |-> a, tail |-> x]
    BY NewTail
  <2> QED BY <2>1 DEF a, b, x
<1>2. Grown(f, c) = [f EXCEPT !.tail = f.tail \o c]
  BY DEF Grown
<1> QED BY <1>1, <1>2

LEMMA GrownMore ==
    ASSUME NEW f \in AirFrames, NEW c \in Seq(CheckBytes), NEW d \in Seq(CheckBytes)
    PROVE  Grown(Grown(f, c), d) = Grown(f, c \o d)
<1> DEFINE A == {f.tail[i] : i \in DOMAIN f.tail}
           g == Grown(f, c)
<1>1. f = [fields |-> f.fields, tail |-> f.tail] /\ f.tail \in Seq(A)
  BY LinkAssumption
<1> HIDE DEF A
<1>2. f.tail \in Seq(A \cup CheckBytes) /\ c \in Seq(A \cup CheckBytes) /\ d \in Seq(A \cup CheckBytes)
  BY <1>1
<1> DEFINE b == f.tail
           B == A \cup CheckBytes
<1>3. (b \o c) \o d = b \o (c \o d)
  <2>1. b \in Seq(B) /\ c \in Seq(B) /\ d \in Seq(B)
    BY <1>2
  <2> HIDE DEF b, B
  <2> QED BY <2>1, ConcatAssociative
<1>4. g = [fields |-> f.fields, tail |-> f.tail \o c] /\ Grown(f, c \o d) = [fields |-> f.fields, tail |-> f.tail \o (c \o d)]
  BY <1>1, GrownIs
<1> HIDE DEF g
<1>5. g.fields = f.fields /\ g.tail = f.tail \o c
  BY <1>4
<1>6. g = [fields |-> g.fields, tail |-> g.tail]
  BY <1>4, <1>5
<1>7. Grown(g, d) = [fields |-> f.fields, tail |-> (f.tail \o c) \o d]
  BY <1>5, <1>6, GrownIs
<1> QED BY <1>3, <1>4, <1>7 DEF g

LEMMA GrownFirst == ASSUME NEW f \in AirFrames PROVE Grown(f, <<>>) = f
<1>1. f = [fields |-> f.fields, tail |-> f.tail] /\ f.tail \in Seq({f.tail[i] : i \in DOMAIN f.tail})
  BY LinkAssumption
<1>2. f.tail \o <<>> = f.tail
  BY <1>1
<1>3. Grown(f, <<>>) = [fields |-> f.fields, tail |-> f.tail \o <<>>]
  BY <1>1, GrownIs
<1> QED BY <1>1, <1>2, <1>3

LEMMA LinkLeast ==
    ASSUME NEW S \in SUBSET Nat, NEW m \in S, \A i \in S : m <= i
    PROVE  Link!Min(S) = m
<1>1. \E i \in S : \A j \in S : i <= j
  OBVIOUS
<1>2. Link!Min(S) \in S /\ \A j \in S : Link!Min(S) <= j
  BY <1>1 DEF Link!Min
<1>3. Link!Min(S) \in Nat /\ Link!Min(S) <= m /\ m <= Link!Min(S)
  BY <1>2
<1> QED BY <1>3

\* What a frame is read as, where it can be.
Unreadable(f) ==
    \/ ~Link!EndsInTime(f) \/ Len(f.tail) < 2
    \/ \E i \in 1 .. Len(f.fields) : Link!decode_ax25_address(f.fields[i], i > 2) = {}
Addressed(fields) ==
    [i \in 1 .. Len(fields) |-> CHOOSE a \in Link!decode_ax25_address(fields[i], i > 2) : TRUE]
ReadAs(f) ==
    LET ui == f.tail[1] = "UI"
    IN  [addrs   |-> Addressed(f.fields),
         is_aprs |-> ui /\ f.tail[2] = "F0",
         ui_pid  |-> IF ui THEN f.tail[2] ELSE "none",
         text    |-> IF ui THEN Link!Text(SubSeq(f.tail, 3, Len(f.tail))) ELSE <<>>]

LEMMA Reading ==
    ASSUME NEW f
    PROVE  Link!ax25_to_tnc2(f) = IF Unreadable(f) THEN {} ELSE {ReadAs(f)}
<1>1. CASE Unreadable(f)
  BY <1>1 DEF Link!ax25_to_tnc2, Unreadable
<1>2. CASE ~Unreadable(f)
  BY <1>2 DEF Link!ax25_to_tnc2, Unreadable, ReadAs, Addressed
<1> QED BY <1>1, <1>2

\* How long things are, as the definitions about frames need it.
LEMMA FrameSizes ==
    ASSUME NEW f \in AirFrames, NEW c \in Seq(CheckBytes)
    PROVE  /\ Len(f.fields) \in Nat /\ DOMAIN f.fields = 1 .. Len(f.fields)
           /\ Len(f.tail) \in Nat /\ Len(c) \in Nat
           /\ Len(f.tail \o c) = Len(f.tail) + Len(c)
           /\ \A i \in 1 .. Len(f.tail) : (f.tail \o c)[i] = f.tail[i]
           /\ Grown(f, c) = [fields |-> f.fields, tail |-> f.tail \o c]
<1> DEFINE A == {f.tail[i] : i \in DOMAIN f.tail}
           B == {f.fields[i] : i \in DOMAIN f.fields}
<1>1. f = [fields |-> f.fields, tail |-> f.tail] /\ f.tail \in Seq(A) /\ f.fields \in Seq(B)
  BY LinkAssumption
<1> HIDE DEF A, B
<1> DEFINE b == f.tail
           C == A \cup CheckBytes
<1>2. b \in Seq(C) /\ c \in Seq(C)
  BY <1>1
<1> HIDE DEF b, C
<1>3. Len(b) \in Nat /\ Len(c) \in Nat /\ Len(b \o c) = Len(b) + Len(c) /\ \A i \in 1 .. Len(b) : (b \o c)[i] = b[i]
  BY <1>2
<1>4. Len(f.fields) \in Nat /\ DOMAIN f.fields = 1 .. Len(f.fields)
  BY <1>1
<1>5. Grown(f, c) = [fields |-> f.fields, tail |-> f.tail \o c]
  BY <1>1, GrownIs
<1> QED BY <1>3, <1>4, <1>5 DEF b

\* Select and Cardinality are the same wherever they are taken from.
LEMMA LinkSelect == ASSUME NEW s, NEW S PROVE Link!Select(s, S) = Select(s, S)
  BY DEF Link!Select, Select

LEMMA LinkRank ==
    ASSUME NEW s, NEW S, NEW n \in Nat, NEW j \in Picked(s, S, n)
    PROVE  Link!Rank(Picked(s, S, n), j) = Cardinality(Picked(s, S, j))
<1>1. {i \in Picked(s, S, n) : i <= j} = Picked(s, S, j)
  <2>1. j \in 1 .. n /\ j \in Nat
    BY DEF Picked
  <2>2. \A i : (i \in 1 .. n /\ i <= j) <=> i \in 1 .. j
    BY <2>1
  <2> QED BY <2>2 DEF Picked
<1> QED BY <1>1, Zenon DEF Link!Rank, Cardinality, Link!Cardinality

LEMMA LinkCardinality == ASSUME NEW S PROVE Link!Cardinality(S) = Cardinality(S)
  BY Zenon DEF Cardinality, Link!Cardinality

\* What is selected of the six characters.
LEMMA CallRead ==
    ASSUME NEW A, NEW call \in Seq(A), Len(call) = 6
    PROVE  LET r    == Select(call, Range(call) \ {" "})
               said == {j \in 1 .. 6 : call[j] # " "}
           IN  /\ Len(r) = Link!Cardinality(said)
               /\ \A j \in said : r[Link!Rank(said, j)] = call[j]
               /\ r = <<>> <=> \A j \in 1 .. 6 : call[j] = " "
<1> DEFINE S == Range(call) \ {" "}
           r == Select(call, S)
           said == {j \in 1 .. 6 : call[j] # " "}
<1>1. DOMAIN call = 1 .. Len(call) /\ DOMAIN call = 1 .. 6 /\ 6 \in Nat
  OBVIOUS
<1>2. said = Picked(call, S, 6)
  BY <1>1 DEF Picked, Range
<1>3. r \in Seq(A) /\ Range(r) = Range(call) \cap S
  BY SelectType
<1>4. /\ Len(r) = Cardinality(Picked(call, S, Len(call)))
      /\ \A j \in Picked(call, S, Len(call)) :
            r[Cardinality(Picked(call, S, j))] = call[j]
  <2> HIDE DEF S
  <2> QED BY SelectPlaces
<1>5. Range(call) \cap S = {} <=> \A j \in 1 .. 6 : call[j] = " "
  BY <1>1 DEF Range
<1> HIDE DEF S, r, said
<1>6. Len(r) = Link!Cardinality(said)
  BY <1>2, <1>4, LinkCardinality
<1>7. ASSUME NEW j \in said PROVE r[Link!Rank(said, j)] = call[j]
  <2>1. j \in Picked(call, S, 6)
    BY <1>2, <1>7
  <2>2. Link!Rank(Picked(call, S, 6), j) = Cardinality(Picked(call, S, j))
    BY <1>1, <2>1, LinkRank
  <2> QED BY <1>2, <1>4, <2>1, <2>2
<1>8. r = <<>> <=> Range(r) = {}
  <2>1. r # <<>> => 1 \in DOMAIN r
    BY <1>3
  <2> QED BY <2>1, RangeEmpty DEF Range
<1> QED BY <1>3, <1>5, <1>6, <1>7, <1>8 DEF r, said, S

\* An address is what is in its field but for the spaces.
LEMMA AddressRead ==
    ASSUME NEW field, NEW A, field.call \in Seq(A), Len(field.call) = 6, NEW mark,
           NEW addr, addr = [call |-> Select(field.call, Range(field.call) \ {" "}),
                             ssid |-> field.ssid, used |-> mark /\ field.hbit]
    PROVE  /\ Link!decode_ax25_address(field, mark) =
                  IF \A j \in 1 .. 6 : field.call[j] = " " THEN {} ELSE {addr}
           /\ Link!SaidAs(field, mark, addr)
<1> DEFINE r == Select(field.call, Range(field.call) \ {" "})
           said == {j \in 1 .. 6 : field.call[j] # " "}
<1>1. /\ Len(r) = Link!Cardinality(said)
      /\ \A j \in said : r[Link!Rank(said, j)] = field.call[j]
      /\ r = <<>> <=> \A j \in 1 .. 6 : field.call[j] = " "
  BY CallRead, Zenon
<1>2. Link!Select(field.call, Link!Range(field.call) \ {" "}) = r
  <2>1. Link!Range(field.call) = Range(field.call)
    BY DEF Link!Range, Range
  <2> QED BY <2>1, LinkSelect
<1>3. addr.call = r /\ addr.ssid = field.ssid /\ addr.used = (mark /\ field.hbit)
  BY Zenon
<1>4. Link!decode_ax25_address(field, mark) = IF r = <<>> THEN {} ELSE {addr}
  BY <1>2, Zenon DEF Link!decode_ax25_address
<1> HIDE DEF r
<1>5. Link!SaidAs(field, mark, addr)
  BY <1>1, <1>3, Zenon DEF Link!SaidAs
<1> QED BY <1>1, <1>4, <1>5, Zenon

\* The line is what comes before the first LF.
LEMMA LineRead ==
    ASSUME NEW A, NEW b \in Seq(A), NEW row, row = Link!Line(b)
    PROVE  /\ row \in Seq(A) /\ Len(row) \in Nat /\ Len(row) <= Len(b)
           /\ \A i \in 1 .. Len(row) : row[i] = b[i] /\ b[i] # "LF"
           /\ Len(row) # Len(b) => b[Len(row) + 1] = "LF"
<1> DEFINE feeds == {i \in 1 .. Len(b) : b[i] = "LF"}
<1>1. Len(b) \in Nat /\ DOMAIN b = 1 .. Len(b)
  OBVIOUS
<1>2. row = IF feeds = {} THEN b ELSE SubSeq(b, 1, Link!Min(feeds) - 1)
  BY <1>1 DEF Link!Line
<1>3. CASE feeds = {}
  <2>1. row = b
    BY <1>2, <1>3
  <2>2. \A i \in 1 .. Len(b) : b[i] # "LF"
    BY <1>3
  <2> HIDE DEF feeds
  <2> QED BY <1>1, <2>1, <2>2
<1>4. CASE feeds # {}
  <2>1. PICK m \in feeds : \A i \in feeds : m <= i
    <3>1. feeds \in SUBSET Nat
      OBVIOUS
    <3> HIDE DEF feeds
    <3> QED BY <1>4, <3>1, LeastElement
  <2>2. Link!Min(feeds) = m
    <3>1. feeds \in SUBSET Nat
      OBVIOUS
    <3> HIDE DEF feeds
    <3> QED BY <2>1, <3>1, LinkLeast
  <2>3. m \in 1 .. Len(b) /\ b[m] = "LF" /\ \A i \in 1 .. m - 1 : b[i] # "LF" /\ i \in 1 .. Len(b)
    BY <1>1, <2>1
  <2> DEFINE k == m - 1
  <2>4. k \in Nat /\ 1 <= k + 1 /\ k <= Len(b) /\ (k + 1) - 1 = k /\ k + 1 = m
    BY <1>1, <2>3
  <2>5. row = SubSeq(b, 1, k)
    BY <1>2, <1>4, <2>2
  <2>6. (\A i \in 1 .. k : b[i] # "LF") /\ b[k + 1] = "LF"
    BY <2>3, <2>4
  <2> HIDE DEF k, feeds
  <2>7. /\ SubSeq(b, 1, k) \in Seq(A) /\ Len(SubSeq(b, 1, k)) = (k + 1) - 1
        /\ \A i \in 1 .. (k + 1) - 1 : SubSeq(b, 1, k)[i] = b[(1 + i) - 1]
    BY <2>4, Stretch
  <2>8. row \in Seq(A) /\ Len(row) = k /\ \A i \in 1 .. k : row[i] = b[i]
    BY <2>4, <2>5, <2>7
  <2> QED BY <2>4, <2>6, <2>8
<1> QED BY <1>3, <1>4

\* The text is the characters of the line, but for the CRs.
LEMMA CharactersRead ==
    ASSUME NEW A, NEW b \in Seq(A)
    PROVE  Link!LineOf(b, Link!Text(b))
<1> DEFINE row == Link!Line(b)
           n == Len(row)
           S == Range(b) \ {"CR"}
           kept == Select(row, S)
           chars == Link!Text(b)
           said == {j \in DOMAIN b : b[j] # "CR" /\ \A i \in 1 .. j : b[i] # "LF"}
<1>1. /\ row \in Seq(A) /\ n \in Nat /\ n <= Len(b) /\ Len(b) \in Nat /\ DOMAIN b = 1 .. Len(b)
      /\ \A i \in 1 .. n : row[i] = b[i] /\ b[i] # "LF"
      /\ n # Len(b) => b[n + 1] = "LF"
  BY LineRead
<1> HIDE DEF row, n
<1>2. said = Picked(row, S, n)
  <2>1. ASSUME NEW j \in said PROVE j \in Picked(row, S, n)
    <3>1. j \in 1 .. n
      <4>1. CASE n = Len(b)
        BY <1>1, <4>1
      <4>2. CASE n # Len(b)
        <5>1. j \in 1 .. Len(b) /\ \A i \in 1 .. j : b[i] # "LF"
          BY <1>1, <2>1
        <5>2. n + 1 \notin 1 .. j
          BY <1>1, <4>2, <5>1
        <5> HIDE DEF said, S
        <5>3. n \in Nat /\ j \in Nat /\ j \in 1 .. j
          <6> DEFINE l == Len(b)
          <6>1. l \in Nat /\ j \in 1 .. l
            BY <1>1, <5>1
          <6> HIDE DEF l
          <6>2. j \in Nat /\ j \in 1 .. j
            BY <6>1
          <6>3. n \in Nat
            BY <1>1
          <6> QED BY <6>2, <6>3
        <5>4. j <= n
          BY <5>2, <5>3
        <5> QED BY <5>1, <5>3, <5>4
      <4> QED BY <4>1, <4>2
    <3>2. row[j] = b[j] /\ b[j] \in S
      BY <1>1, <3>1 DEF Range
    <3> QED BY <3>1, <3>2 DEF Picked
  <2>2. ASSUME NEW j \in Picked(row, S, n) PROVE j \in said
    <3>1. j \in 1 .. n /\ row[j] \in S
      BY DEF Picked
    <3>2. row[j] = b[j] /\ b[j] # "CR"
      BY <1>1, <3>1
    <3>3. j \in 1 .. Len(b) /\ \A i \in 1 .. j : i \in 1 .. n
      <4> DEFINE l == Len(b)
      <4>1. n \in Nat /\ l \in Nat /\ n <= l /\ j \in 1 .. n
        BY <1>1, <3>1
      <4> HIDE DEF l
      <4>2. j \in 1 .. l /\ \A i \in 1 .. j : i \in 1 .. n
        BY <4>1
      <4> QED BY <4>2 DEF l
    <3>4. \A i \in 1 .. j : b[i] # "LF"
      BY <1>1, <3>3
    <3> QED BY <1>1, <3>2, <3>3, <3>4
  <2> HIDE DEF said, S
  <2> QED BY <2>1, <2>2
<1>3. /\ kept \in Seq(A) /\ Len(kept) = Cardinality(said)
      /\ \A j \in said : /\ Cardinality(Picked(row, S, j)) \in 1 .. Len(kept)
                         /\ kept[Cardinality(Picked(row, S, j))] = row[j]
  <2> HIDE DEF said, S
  <2> QED BY <1>1, <1>2, SelectPlaces, SelectType DEF n
<1>4. chars = [i \in 1 .. Len(kept) |-> Link!AsChar(kept[i])]
  <2>1. Link!Range(b) = Range(b)
    BY DEF Link!Range, Range
  <2>2. Link!Select(row, Link!Range(b) \ {"CR"}) = kept
    BY <2>1, LinkSelect
  <2> QED BY <2>2 DEF Link!Text, row
<1> HIDE DEF kept
<1>5. Len(chars) = Len(kept) /\ \A i \in 1 .. Len(kept) : chars[i] = Link!AsChar(kept[i])
  BY <1>3, <1>4
<1> HIDE DEF chars
<1>6. Len(chars) = Link!Cardinality(said)
  BY <1>3, <1>5, LinkCardinality
<1>7. ASSUME NEW j \in said
      PROVE  IF b[j] \in UpperBytes THEN Len(chars[Link!Rank(said, j)]) = 2
                                    ELSE chars[Link!Rank(said, j)] = <<b[j]>>
  <2>1. j \in Picked(row, S, n) /\ row[j] = b[j]
    <3>1. j \in Picked(row, S, n)
      BY <1>2, <1>7
    <3> QED BY <1>1, <3>1 DEF Picked
  <2> HIDE DEF said, S
  <2>2. Link!Rank(said, j) = Cardinality(Picked(row, S, j))
    BY <1>1, <1>2, <2>1, LinkRank
  <2>3. chars[Link!Rank(said, j)] = Link!AsChar(b[j])
    BY <1>3, <1>5, <2>1, <2>2
  <2>4. Link!AsChar(b[j]) = IF b[j] \in UpperBytes THEN <<"lead", b[j]>> ELSE <<b[j]>>
    BY DEF Link!AsChar
  <2>5. Len(<<"lead", b[j]>>) = 2
    OBVIOUS
  <2> QED BY <2>3, <2>4, <2>5
<1> QED BY <1>6, <1>7 DEF Link!LineOf, chars

\* A frame is read, on whichever link it is, exactly if it is one.
LEMMA FrameRead ==
    ASSUME NEW f \in AirFrames, NEW c \in Seq(CheckBytes)
    PROVE  /\ Link!WellFormed(f) =>
                  Link!ax25_to_tnc2(Grown(f, c)) = {ReadAs([fields |-> f.fields, tail |-> f.tail \o c])}
           /\ ~Link!WellFormed(f) => Link!ax25_to_tnc2(f) = {}
<1> DEFINE l == Len(f.fields)
           g == [fields |-> f.fields, tail |-> f.tail \o c]
           Empty(i) == \A j \in 1 .. 6 : f.fields[i].call[j] = " "
<1>1. /\ l \in Nat /\ DOMAIN f.fields = 1 .. l /\ Len(f.tail) \in Nat /\ Len(c) \in Nat
      /\ Len(f.tail \o c) = Len(f.tail) + Len(c) /\ Grown(f, c) = g
  BY FrameSizes
<1>2. ASSUME NEW i \in 1 .. l PROVE Link!decode_ax25_address(f.fields[i], i > 2) = {} <=> Empty(i)
  <2> DEFINE field == f.fields[i]
             A == {field.call[j] : j \in DOMAIN field.call}
             addr == [call |-> Select(field.call, Range(field.call) \ {" "}),
                      ssid |-> field.ssid, used |-> i > 2 /\ field.hbit]
  <2>1. field.call \in Seq(A) /\ Len(field.call) = 6
    BY <1>1, <1>2, LinkAssumption
  <2> HIDE DEF A, field
  <2>2. Link!decode_ax25_address(field, i > 2) = IF \A j \in 1 .. 6 : field.call[j] = " " THEN {} ELSE {addr}
    <3> DEFINE mark == i > 2
    <3>1. addr = [call |-> Select(field.call, Range(field.call) \ {" "}),
                  ssid |-> field.ssid, used |-> mark /\ field.hbit]
      OBVIOUS
    <3> HIDE DEF addr, mark
    <3>2. Link!decode_ax25_address(field, mark) = IF \A j \in 1 .. 6 : field.call[j] = " " THEN {} ELSE {addr}
      BY <2>1, <3>1, AddressRead
    <3> QED BY <3>2 DEF mark
  <2> QED BY <2>2 DEF field
<1>3. g.fields = f.fields /\ g.tail = f.tail \o c
  OBVIOUS
<1> HIDE DEF g
<1>4. Link!WellFormed(f) <=> /\ l \in 2 .. 10 /\ Len(f.tail) >= 2 /\ f.fields[l].end
                             /\ \A i \in 1 .. l : ~Empty(i)
  BY <1>1 DEF Link!WellFormed
<1>5. ASSUME NEW h, h.fields = f.fields, Len(h.tail) \in Nat
      PROVE  Unreadable(h) <=> ~(/\ l \in 2 .. 10 /\ Len(h.tail) >= 2 /\ f.fields[l].end
                                 /\ \A i \in 1 .. l : ~Empty(i))
  <2>1. Len(h.fields) = l
    BY <1>5
  <2> DEFINE t == Len(h.tail)
             e == f.fields[l].end
  <2>4. Link!EndsInTime(h) <=> 7 * l + t >= 16 /\ l >= 2 /\ l - 2 <= 8 /\ e
    BY <1>5, <2>1 DEF Link!EndsInTime, Link!MIN_FRAME_LEN, Link!MAX_VIA_ADDRS
  <2>2. Link!EndsInTime(h) /\ t >= 2 <=> l \in 2 .. 10 /\ e /\ t >= 2
    <3>1. t \in Nat
      BY <1>5
    <3> HIDE DEF l, t, e
    <3>2. l \in Nat
      BY <1>1
    <3>3. (7 * l + t >= 16 /\ l >= 2 /\ l - 2 <= 8 /\ t >= 2) <=> (l \in 2 .. 10 /\ t >= 2)
      BY <3>1, <3>2
    <3> QED BY <2>4, <3>3
  <2>3. (\E i \in 1 .. l : Link!decode_ax25_address(h.fields[i], i > 2) = {}) <=> \E i \in 1 .. l : Empty(i)
    BY <1>2, <1>5
  <2>5. Len(h.tail) < 2 <=> ~(Len(h.tail) >= 2)
    BY <1>5
  <2> HIDE DEF Empty, l, e
  <2> QED BY <2>1, <2>2, <2>3, <2>5 DEF Unreadable, t, e
<1> HIDE DEF Empty, l
<1>6. ASSUME ~Link!WellFormed(f) PROVE Link!ax25_to_tnc2(f) = {}
  <2>1. Unreadable(f)
    BY <1>1, <1>4, <1>5, <1>6
  <2> QED BY <2>1, Reading
<1>7. ASSUME Link!WellFormed(f) PROVE Link!ax25_to_tnc2(g) = {ReadAs(g)}
  <2>1. Len(g.tail) \in Nat /\ Len(g.tail) >= 2
    BY <1>1, <1>3, <1>4, <1>7
  <2>2. ~Unreadable(g)
    BY <1>3, <1>4, <1>5, <1>7, <2>1
  <2> QED BY <2>2, Reading
<1> QED BY <1>1, <1>6, <1>7 DEF g

LEMMA RestGrown ==
    ASSUME NEW A, NEW b \in Seq(A), NEW c \in Seq(A), Len(b) >= 2
    PROVE  SubSeq(b \o c, 3, Len(b \o c)) = SubSeq(b, 3, Len(b)) \o c
<1> DEFINE l == Len(b)
           k == Len(c)
           s == SubSeq(b \o c, 3, l + k)
           r == SubSeq(b, 3, l)
<1>1. l \in Nat /\ k \in Nat /\ l >= 2
  OBVIOUS
<1>2. /\ b \o c \in Seq(A) /\ Len(b \o c) = l + k
      /\ \A i \in 1 .. l + k : (b \o c)[i] = IF i <= l THEN b[i] ELSE c[i - l]
  OBVIOUS
<1>3. s \in Seq(A) /\ Len(s) = ((l + k) + 1) - 3 /\ \A i \in 1 .. ((l + k) + 1) - 3 : s[i] = (b \o c)[(3 + i) - 1]
  <2> DEFINE t == b \o c
  <2>1. 3 <= (l + k) + 1 /\ l + k \in Nat
    BY <1>1
  <2> DEFINE n == l + k
  <2>2. t \in Seq(A) /\ Len(t) = n
    BY <1>2
  <2>3. n \in Nat /\ 3 <= n + 1
    BY <1>1
  <2> HIDE DEF t, n
  <2>4. /\ SubSeq(t, 3, n) \in Seq(A) /\ Len(SubSeq(t, 3, n)) = (n + 1) - 3
        /\ \A i \in 1 .. (n + 1) - 3 : SubSeq(t, 3, n)[i] = t[(3 + i) - 1]
    BY <2>2, <2>3, Stretch
  <2> QED BY <2>4 DEF t, n
<1>4. r \in Seq(A) /\ Len(r) = (l + 1) - 3 /\ \A i \in 1 .. (l + 1) - 3 : r[i] = b[(3 + i) - 1]
  <2>1. 3 <= l + 1 /\ l <= Len(b)
    BY <1>1
  <2> HIDE DEF l
  <2> QED BY <1>1, <2>1, Stretch
<1> HIDE DEF s, r
<1>5. r \o c \in Seq(A) /\ Len(r \o c) = Len(r) + k /\ \A i \in 1 .. Len(r) + k : (r \o c)[i] = IF i <= Len(r) THEN r[i] ELSE c[i - Len(r)]
  <2>1. r \in Seq(A)
    BY <1>4
  <2> QED BY <2>1
<1> HIDE DEF l, k
<1>6. Len(s) = Len(r \o c)
  BY <1>1, <1>3, <1>4, <1>5
<1>7. ASSUME NEW i \in 1 .. Len(s) PROVE s[i] = (r \o c)[i]
  <2>1. i \in Nat /\ i \in 1 .. ((l + k) + 1) - 3 /\ i \in 1 .. Len(r) + k
    BY <1>1, <1>3, <1>4
  <2>2. (3 + i) - 1 \in 1 .. l + k
    BY <1>1, <2>1
  <2>6. s[i] = (b \o c)[(3 + i) - 1]
    BY <1>3, <2>1
  <2>3. s[i] = IF (3 + i) - 1 <= l THEN b[(3 + i) - 1] ELSE c[((3 + i) - 1) - l]
    BY <1>2, <2>2, <2>6
  <2>4. CASE i <= (l + 1) - 3
    <3>1. (3 + i) - 1 <= l /\ i <= Len(r) /\ i \in 1 .. (l + 1) - 3
      BY <1>1, <1>4, <2>1, <2>4
    <3> QED BY <1>4, <1>5, <2>1, <2>3, <3>1
  <2>5. CASE ~(i <= (l + 1) - 3)
    <3>1. ~((3 + i) - 1 <= l) /\ ~(i <= Len(r)) /\ ((3 + i) - 1) - l = i - Len(r)
      BY <1>1, <1>4, <2>1, <2>5
    <3> QED BY <1>5, <2>1, <2>3, <3>1
  <2> QED BY <2>4, <2>5
<1>8. s = r \o c
  BY <1>3, <1>5, <1>6, <1>7, SeqEqual
<1> QED BY <1>2, <1>8 DEF s, r, l

\* What a frame is, on whichever link it is.
LinkInv ==
    /\ checked \in Seq(CheckBytes)
    /\ origin = <<>> => online = <<>> /\ packet = <<>> /\ checked = <<>>
    /\ origin # <<>> => origin \in AirFrames
    /\ command # 0 => packet = <<>> /\ checked = <<>>
    /\ online # <<>> => packet = <<>> /\ online = Grown(origin, checked)
    /\ packet # <<>> \/ checked # <<>> => Link!WellFormed(origin)
    /\ packet # <<>> => /\ packet.ax25 = Grown(origin, checked)
                        /\ packet.tnc2 = ReadAs([fields |-> origin.fields, tail |-> origin.tail \o checked])
    /\ (origin # <<>> /\ online = <<>> /\ packet = <<>> /\ command = 0) => ~Link!WellFormed(origin)

LEMMA AirFrame == ASSUME NEW f \in AirFrames, NEW c PROVE f # <<>> /\ Grown(f, c) # <<>>
<1>1. f = [fields |-> f.fields, tail |-> f.tail]
  BY LinkAssumption
<1>2. Grown(f, c) = [fields |-> f.fields, tail |-> f.tail \o c]
  BY <1>1, GrownIs
<1>3. \A a, b : [fields |-> a, tail |-> b] # <<>>
  <2>1. \A a, b : "fields" \in DOMAIN [fields |-> a, tail |-> b]
    OBVIOUS
  <2>2. "fields" \notin DOMAIN <<>>
    OBVIOUS
  <2> QED BY <2>1, <2>2
<1> QED BY <1>1, <1>2, <1>3

LEMMA LinkStep == ASSUME LinkInv, Link!Next PROVE LinkInv'
<1>1. ASSUME NEW f \in AirFrames, NEW n \in {0, 6}, Link!Heard(f, n) PROVE LinkInv'
  <2>1. /\ origin' = f /\ online' = f /\ packet' = <<>> /\ checked' = <<>>
    BY <1>1 DEF LinkInv, Link!Heard
  <2>2. f # <<>> /\ f = Grown(f, <<>>) /\ <<>> \in Seq(CheckBytes)
    BY AirFrame, GrownFirst
  <2> QED BY <2>1, <2>2 DEF LinkInv
<1>2. ASSUME Link!Receive PROVE LinkInv'
  <2> DEFINE read == IF command = 0 THEN Link!ax25_to_tnc2(online) ELSE {}
             pkt == [tnc2 |-> CHOOSE t \in read : TRUE, ax25 |-> online]
             as == ReadAs([fields |-> origin.fields, tail |-> origin.tail \o checked])
  <2>1. /\ online # <<>> /\ online' = <<>> /\ UNCHANGED <<origin, command, checked, links>>
        /\ packet' = IF read = {} THEN <<>> ELSE pkt
    BY <1>2 DEF Link!Receive
  <2>2. /\ online = Grown(origin, checked) /\ origin \in AirFrames /\ checked \in Seq(CheckBytes) /\ origin # <<>>
    BY <2>1 DEF LinkInv
  <2>3. CASE read = {}
    <3>1. packet' = <<>>
      BY <2>1, <2>3
    <3>2. command = 0 => ~Link!WellFormed(origin)
      <4>1. command = 0 => Link!ax25_to_tnc2(Grown(origin, checked)) = {}
        BY <2>2, <2>3
      <4> QED BY <2>2, <4>1, FrameRead
    <3> HIDE DEF read, pkt
    <3> QED BY <2>1, <2>2, <3>1, <3>2 DEF LinkInv
  <2>4. CASE read # {}
    <3>1. command = 0 /\ read = Link!ax25_to_tnc2(Grown(origin, checked)) /\ Link!ax25_to_tnc2(Grown(origin, checked)) # {}
      BY <2>2, <2>4
    <3>2. Link!WellFormed(origin)
      <4>1. CASE checked # <<>>
        BY <4>1 DEF LinkInv
      <4>2. CASE checked = <<>>
        <5>1. Grown(origin, checked) = origin
          BY <2>2, <4>2, GrownFirst
        <5> QED BY <2>2, <3>1, <5>1, FrameRead
      <4> QED BY <4>1, <4>2
    <3>3. pkt # <<>> /\ pkt.ax25 = Grown(origin, checked)
      <4>1. "ax25" \in DOMAIN pkt
        OBVIOUS
      <4>2. "ax25" \notin DOMAIN <<>>
        OBVIOUS
      <4>3. pkt.ax25 = online
        OBVIOUS
      <4> HIDE DEF pkt
      <4> QED BY <2>2, <4>1, <4>2, <4>3
    <3>4. pkt.tnc2 = as
      <4>1. read = {as}
        BY <2>2, <3>1, <3>2, FrameRead
      <4> HIDE DEF read, as
      <4>2. (CHOOSE t \in read : TRUE) = as
        BY <4>1
      <4> QED BY <4>2
    <3> HIDE DEF read, pkt
    <3>5. packet' = pkt
      BY <2>1, <2>4
    <3>6. as' = as
      BY <2>1
    <3> QED BY <2>1, <2>2, <3>1, <3>2, <3>3, <3>4, <3>5, <3>6 DEF LinkInv
  <2> QED BY <2>3, <2>4
<1>3. ASSUME NEW p \in Link!Protocols, NEW c \in UNION {[1 .. n -> CheckBytes] : n \in 0 .. 2}, Link!Transmit(p, c)
      PROVE  LinkInv'
  <2>0. c \in Seq(CheckBytes)
    <3>1. PICK n \in 0 .. 2 : c \in [1 .. n -> CheckBytes]
      OBVIOUS
    <3>2. n \in Nat /\ \A k \in Nat : [1 .. k -> CheckBytes] \subseteq Seq(CheckBytes)
      OBVIOUS
    <3> QED BY <3>1, <3>2
  <2>1. /\ packet # <<>> /\ packet' = <<>> /\ command' = 0 /\ origin' = origin /\ checked' = checked \o c
        /\ online' = Grown(packet.ax25, c)
    BY <1>3 DEF Link!Transmit, Grown
  <2>2. /\ origin \in AirFrames /\ checked \in Seq(CheckBytes) /\ origin # <<>>
        /\ packet.ax25 = Grown(origin, checked) /\ Link!WellFormed(origin)
    BY <2>1 DEF LinkInv
  <2>3. Grown(packet.ax25, c) = Grown(origin, checked \o c)
    BY <2>0, <2>2, GrownMore
  <2>4. checked \o c \in Seq(CheckBytes)
    BY <2>0, <2>2
  <2>5. Grown(origin, checked \o c) # <<>>
    BY <2>2, AirFrame
  <2>6. Link!WellFormed(origin)'
    BY <2>1, <2>2 DEF Link!WellFormed
  <2> QED BY <2>1, <2>2, <2>3, <2>4, <2>5, <2>6 DEF LinkInv
<1> QED BY <1>1, <1>2, <1>3 DEF Link!Next

\* What LinkKeeps says of a frame that is one, and has come through.
Arrived(f, c, t) ==
    /\ DOMAIN t.addrs = DOMAIN f.fields
    /\ \A i \in DOMAIN f.fields : Link!SaidAs(f.fields[i], i > 2, t.addrs[i])
    /\ t.is_aprs = (f.tail[1] = "UI" /\ f.tail[2] = "F0")
    /\ IF f.tail[1] # "UI" THEN t.text = <<>> ELSE Link!LineOf(SubSeq(f.tail, 3, Len(f.tail)) \o c, t.text)

LEMMA Arrives ==
    ASSUME NEW f \in AirFrames, NEW c \in Seq(CheckBytes), Link!WellFormed(f)
    PROVE  Arrived(f, c, ReadAs([fields |-> f.fields, tail |-> f.tail \o c]))
<1> DEFINE l == Len(f.fields)
           b == f.tail \o c
           g == [fields |-> f.fields, tail |-> b]
           t == ReadAs(g)
<1>1. DOMAIN f.fields = 1 .. l /\ \A i \in 1 .. l : \E j \in 1 .. 6 : f.fields[i].call[j] # " "
  BY FrameSizes DEF Link!WellFormed
<1>2. Len(f.tail) >= 2 /\ Len(f.tail) \in Nat
  BY FrameSizes DEF Link!WellFormed
<1>3. b[1] = f.tail[1] /\ b[2] = f.tail[2]
  <2>1. \A i \in 1 .. Len(f.tail) : b[i] = f.tail[i]
    BY FrameSizes
  <2>2. 1 \in 1 .. Len(f.tail) /\ 2 \in 1 .. Len(f.tail)
    BY <1>2
  <2> QED BY <2>1, <2>2
<1> DEFINE A == {f.tail[i] : i \in DOMAIN f.tail}
           B == A \cup CheckBytes
           h == f.tail
           rest == SubSeq(h, 3, Len(h)) \o c
<1>4. rest \in Seq(B) /\ SubSeq(b, 3, Len(b)) = rest
  <2>1. f.tail \in Seq(A)
    BY LinkAssumption
  <2> HIDE DEF A
  <2>2. h \in Seq(B) /\ c \in Seq(B)
    BY <2>1
  <2> HIDE DEF B
  <2>3. Len(h) >= 2 /\ b = h \o c
    BY <1>2
  <2> HIDE DEF b, h
  <2>4. SubSeq(h \o c, 3, Len(h \o c)) = SubSeq(h, 3, Len(h)) \o c
    BY <2>2, <2>3, RestGrown
  <2>5. SubSeq(h, 3, Len(h)) \in Seq(B)
    <3>1. Len(h) \in Nat /\ 3 <= Len(h) + 1 /\ 1 <= 3 /\ Len(h) <= Len(h)
      BY <2>2, <2>3
    <3> QED BY <2>2, <3>1, Stretch
  <2>6. SubSeq(h, 3, Len(h)) \o c \in Seq(B)
    BY <2>2, <2>5
  <2> QED BY <2>3, <2>4, <2>6
<1>5. ASSUME NEW i \in 1 .. l
      PROVE  Link!SaidAs(f.fields[i], i > 2, CHOOSE a \in Link!decode_ax25_address(f.fields[i], i > 2) : TRUE)
  <2> DEFINE field == f.fields[i]
             C == {field.call[j] : j \in DOMAIN field.call}
             mark == i > 2
             addr == [call |-> Select(field.call, Range(field.call) \ {" "}),
                      ssid |-> field.ssid, used |-> mark /\ field.hbit]
  <2>1. field.call \in Seq(C) /\ Len(field.call) = 6
    BY <1>1, <1>5, LinkAssumption
  <2>2. ~(\A j \in 1 .. 6 : field.call[j] = " ")
    BY <1>1, <1>5
  <2>4. addr = [call |-> Select(field.call, Range(field.call) \ {" "}),
                ssid |-> field.ssid, used |-> mark /\ field.hbit]
    OBVIOUS
  <2> HIDE DEF C, field, mark, addr
  <2>5. /\ Link!decode_ax25_address(field, mark) =
               IF \A j \in 1 .. 6 : field.call[j] = " " THEN {} ELSE {addr}
        /\ Link!SaidAs(field, mark, addr)
    BY <2>1, <2>4, AddressRead
  <2>6. Link!decode_ax25_address(field, mark) = {addr}
    BY <2>2, <2>5
  <2>7. (CHOOSE a \in Link!decode_ax25_address(field, mark) : TRUE) = addr
    BY <2>6
  <2>8. Link!SaidAs(field, mark, CHOOSE a \in Link!decode_ax25_address(field, mark) : TRUE)
    BY <2>5, <2>7
  <2> QED BY <2>8 DEF field, mark
<1>6. g.fields = f.fields /\ g.tail = b
  OBVIOUS
<1> HIDE DEF g, b, rest, A, B
<1>7. /\ t.addrs = Addressed(f.fields)
      /\ t.is_aprs = (b[1] = "UI" /\ b[2] = "F0")
      /\ t.text = IF b[1] = "UI" THEN Link!Text(SubSeq(b, 3, Len(b))) ELSE <<>>
  BY <1>6 DEF ReadAs
<1> HIDE DEF t
<1>8. /\ DOMAIN Addressed(f.fields) = 1 .. l
      /\ \A i \in 1 .. l : Addressed(f.fields)[i] = CHOOSE a \in Link!decode_ax25_address(f.fields[i], i > 2) : TRUE
  BY DEF Addressed
<1>9. \A i \in 1 .. l : Link!SaidAs(f.fields[i], i > 2, t.addrs[i])
  BY <1>5, <1>7, <1>8
<1>10. Link!LineOf(rest, Link!Text(rest))
  BY <1>4, CharactersRead
<1>11. IF f.tail[1] # "UI" THEN t.text = <<>> ELSE Link!LineOf(SubSeq(f.tail, 3, Len(f.tail)) \o c, t.text)
  <2>1. rest = SubSeq(f.tail, 3, Len(f.tail)) \o c
    BY DEF rest
  <2> QED BY <1>3, <1>4, <1>7, <1>10, <2>1
<1> QED BY <1>1, <1>3, <1>7, <1>8, <1>9, <1>11 DEF Arrived, t, g, b

LEMMA LinkKeeps == LinkInv => Link!LinkKeeps
<1>1. SUFFICES ASSUME LinkInv, origin # <<>>, online = <<>>, command = 0
               PROVE  IF ~Link!WellFormed(origin) THEN packet = <<>>
                      ELSE packet # <<>> /\ Arrived(origin, checked, packet.tnc2)
  BY DEF Link!LinkKeeps, Arrived
<1>2. origin \in AirFrames /\ checked \in Seq(CheckBytes)
  BY <1>1 DEF LinkInv
<1>3. CASE ~Link!WellFormed(origin)
  BY <1>1, <1>3 DEF LinkInv
<1>4. CASE Link!WellFormed(origin)
  <2>1. packet # <<>>
    BY <1>1, <1>4 DEF LinkInv
  <2>2. packet.tnc2 = ReadAs([fields |-> origin.fields, tail |-> origin.tail \o checked])
    BY <1>1, <2>1 DEF LinkInv
  <2> QED BY <1>2, <1>4, <2>1, <2>2, Arrives
<1> QED BY <1>3, <1>4

-----------------------------------------------------------------------------
(* The lines of a request.                                                  *)

Symbols == {"x", "bad", "feed"}

\* Where lines end in the text t, and what is returned of the line behind a and
\* up to b.
EndsOf(t) == {i \in 1 .. Len(t) : t[i] = "feed" \/ i = Len(t)}
Result(t, a, b) == LET w == SubSeq(t, a + 1, b) IN IF Req!Good(w) THEN {w} ELSE {}

\* What has been returned, ls, are the lines between marks in the text.
Mark(a, b, t, l) ==
    /\ a < b /\ b \in EndsOf(t) /\ l = Result(t, a, b)
    /\ \A i \in 1 .. Len(t) : a < i /\ i < b => i \notin EndsOf(t)
Marks(e, t, ls) ==
    /\ e \in [0 .. Len(ls) -> 0 .. Len(t)] /\ e[0] = 0
    /\ \A n \in 1 .. Len(ls) : Mark(e[n - 1], e[n], t, ls[n])

LEMMA MarkNext ==
    ASSUME NEW t \in Seq(Symbols), NEW S, NEW ls \in Seq(S), NEW r \in S, NEW e, Marks(e, t, ls),
           NEW q \in 0 .. Len(t), Mark(e[Len(ls)], q, t, r)
    PROVE  \E g : /\ Marks(g, t, Append(ls, r)) /\ g[Len(ls) + 1] = q
                  /\ \A n \in 0 .. Len(ls) : g[n] = e[n]
<1> DEFINE l == Len(ls)
           k == Len(t)
           g == [n \in 0 .. l + 1 |-> IF n = l + 1 THEN q ELSE e[n]]
           ms == Append(ls, r)
<1>1. l \in Nat /\ k \in Nat
  OBVIOUS
<1>2. Len(ms) = l + 1 /\ ms[l + 1] = r /\ \A n \in 1 .. l : ms[n] = ls[n]
  OBVIOUS
<1>3. /\ e \in [0 .. l -> 0 .. k] /\ e[0] = 0
      /\ \A n \in 1 .. l : Mark(e[n - 1], e[n], t, ls[n])
  BY DEF Marks
<1>4. g[l + 1] = q /\ \A n \in 0 .. l : g[n] = e[n]
  <2> HIDE DEF l
  <2> QED BY <1>1
<1>5. q \in 0 .. k /\ Mark(e[l], q, t, r)
  OBVIOUS
<1>6. g \in [0 .. l + 1 -> 0 .. k]
  <2> HIDE DEF l, k
  <2> QED BY <1>1, <1>3, <1>5
<1> HIDE DEF g, ms, l, k
<1>7. g[0] = 0
  BY <1>1, <1>3, <1>4
<1>8. ASSUME NEW n \in 1 .. l + 1 PROVE Mark(g[n - 1], g[n], t, ms[n])
  <2>1. CASE n = l + 1
    <3>1. n - 1 = l /\ l \in 0 .. l
      BY <1>1, <2>1
    <3> QED BY <1>2, <1>4, <1>5, <2>1, <3>1
  <2>2. CASE n # l + 1
    <3>1. n \in 1 .. l /\ n \in 0 .. l /\ n - 1 \in 0 .. l
      BY <1>1, <2>2
    <3> QED BY <1>2, <1>3, <1>4, <3>1
  <2> QED BY <2>1, <2>2
<1>9. Marks(g, t, ms)
  BY <1>2, <1>6, <1>7, <1>8 DEF Marks, k
<1> QED BY <1>4, <1>9 DEF ms, l

\* How many ends there are up to a mark.
Upto(t, i) == {j \in EndsOf(t) : j <= i}

LEMMA EndsFinite ==
    ASSUME NEW t \in Seq(Symbols), NEW i
    PROVE  IsFiniteSet(EndsOf(t)) /\ IsFiniteSet(Upto(t, i))
<1>1. IsFiniteSet(1 .. Len(t))
  BY FS_Interval
<1>2. EndsOf(t) \subseteq 1 .. Len(t) /\ Upto(t, i) \subseteq EndsOf(t)
  BY DEF EndsOf, Upto
<1> QED BY <1>1, <1>2, FS_Subset

LEMMA MarksCount ==
    ASSUME NEW t \in Seq(Symbols), NEW S, NEW ls \in Seq(S), NEW e, Marks(e, t, ls)
    PROVE  \A n \in 0 .. Len(ls) : Cardinality(Upto(t, e[n])) = n
<1> DEFINE l == Len(ls)
           T == {n \in Nat : n <= l => Cardinality(Upto(t, e[n])) = n}
<1>1. l \in Nat /\ e \in [0 .. l -> 0 .. Len(t)] /\ e[0] = 0 /\ Len(t) \in Nat
  BY DEF Marks
<1>2. \A n \in 1 .. l : Mark(e[n - 1], e[n], t, ls[n])
  BY DEF Marks
<1> HIDE DEF l
<1>3. 0 \in T
  <2>1. Upto(t, 0) = {}
    BY <1>1 DEF Upto, EndsOf
  <2> QED BY <1>1, <2>1, FS_EmptySet
<1>4. ASSUME NEW n \in T PROVE n + 1 \in T
  <2>1. SUFFICES ASSUME n + 1 <= l PROVE Cardinality(Upto(t, e[n + 1])) = n + 1
    OBVIOUS
  <2> DEFINE a == e[n]
             b == e[n + 1]
  <2>2. n \in 0 .. l /\ n + 1 \in 0 .. l /\ n + 1 \in 1 .. l /\ (n + 1) - 1 = n /\ n <= l
    BY <1>1, <2>1
  <2>3. Mark(a, b, t, ls[n + 1])
    BY <1>2, <2>2
  <2>4. a \in Nat /\ b \in Nat
    BY <1>1, <2>2
  <2>5. Cardinality(Upto(t, a)) = n
    BY <2>2
  <2> HIDE DEF a, b
  <2>6. Upto(t, b) = Upto(t, a) \cup {b} /\ b \notin Upto(t, a)
    BY <1>1, <2>3, <2>4 DEF Mark, Upto, EndsOf
  <2>7. Cardinality(Upto(t, b)) = n + 1
    BY <2>5, <2>6, EndsFinite, FS_AddElement
  <2> QED BY <2>7 DEF b
<1>5. T = Nat
  <2> HIDE DEF T
  <2> QED BY <1>3, <1>4, Induction DEF T
<1> QED BY <1>1, <1>5 DEF l

\* Two places where lines end differ in how many come before them.
LEMMA CountTells ==
    ASSUME NEW t \in Seq(Symbols), NEW i \in EndsOf(t) \cup {0}, NEW k \in EndsOf(t) \cup {0},
           Cardinality(Upto(t, i)) = Cardinality(Upto(t, k))
    PROVE  i = k
<1>1. ASSUME NEW a \in EndsOf(t) \cup {0}, NEW b \in EndsOf(t) \cup {0}, a < b
      PROVE  Cardinality(Upto(t, a)) # Cardinality(Upto(t, b))
  <2>1. a \in Nat /\ b \in Nat /\ b \in EndsOf(t) /\ EndsOf(t) \subseteq Nat
    BY <1>1 DEF EndsOf
  <2>2. Upto(t, a) \subseteq Upto(t, b) /\ b \in Upto(t, b) /\ b \notin Upto(t, a)
    BY <1>1, <2>1 DEF Upto
  <2>3. Upto(t, a) # Upto(t, b)
    BY <2>2
  <2> QED BY <2>2, <2>3, EndsFinite, FS_Subset
<1>2. i \in Nat /\ k \in Nat
  BY DEF EndsOf
<1>3. ~(i < k) /\ ~(k < i)
  BY <1>1
<1> QED BY <1>2, <1>3

LEMMA SameCount == ASSUME NEW A PROVE Req!Cardinality(A) = Cardinality(A)
  BY DEF Req!Cardinality, Cardinality

LEMMA EndsAre == ASSUME text \in Seq(Symbols) PROVE Req!Ends = EndsOf(text)
<1>1. DOMAIN text = 1 .. Len(text)
  OBVIOUS
<1> QED BY <1>1 DEF Req!Ends, EndsOf

LEMMA MarksTell ==
    ASSUME text \in Seq(Symbols), NEW S, lines \in Seq(S), NEW e, Marks(e, text, lines)
    PROVE  /\ \A n \in 1 .. Len(lines) :
                  /\ n <= Cardinality(Req!Ends)
                  /\ lines[n] = IF Req!Good(Req!Whole(n)) THEN {Req!Whole(n)} ELSE {}
           /\ e[Len(lines)] = Len(text) => Len(lines) = Cardinality(Req!Ends)
<1> DEFINE l == Len(lines)
<1>1. l \in Nat /\ e \in [0 .. l -> 0 .. Len(text)] /\ e[0] = 0 /\ Len(text) \in Nat
  BY DEF Marks
<1>2. \A n \in 1 .. l : Mark(e[n - 1], e[n], text, lines[n])
  BY DEF Marks
<1>3. \A n \in 0 .. l : Cardinality(Upto(text, e[n])) = n
  BY MarksCount
<1> HIDE DEF l
<1>4. ASSUME NEW n \in 0 .. l PROVE e[n] \in EndsOf(text) \cup {0}
  <2>1. CASE n = 0
    BY <1>1, <2>1
  <2>2. CASE n # 0
    <3>1. n \in 1 .. l
      BY <1>1, <2>2
    <3> QED BY <1>2, <3>1 DEF Mark
  <2> QED BY <2>1, <2>2
<1>5. ASSUME NEW n \in 0 .. l PROVE Req!End(n) = e[n]
  <2>0. Req!Ends = EndsOf(text)
    BY EndsAre
  <2>1. \A i : Req!Upto(i) = Upto(text, i)
    BY <2>0 DEF Upto, Req!Upto
  <2>2. e[n] \in Req!Ends \cup {0} /\ Req!Cardinality(Req!Upto(e[n])) = n
    BY <1>3, <1>4, <2>0, <2>1, SameCount
  <2>3. Req!End(n) \in Req!Ends \cup {0} /\ Req!Cardinality(Req!Upto(Req!End(n))) = n
    BY <2>2 DEF Req!End
  <2>4. Cardinality(Upto(text, Req!End(n))) = Cardinality(Upto(text, e[n]))
    BY <2>1, <2>2, <2>3, SameCount
  <2> QED BY <2>0, <2>2, <2>3, <2>4, CountTells
<1>6. ASSUME NEW n \in 1 .. l
      PROVE  lines[n] = IF Req!Good(Req!Whole(n)) THEN {Req!Whole(n)} ELSE {}
  <2>1. n \in 0 .. l /\ n - 1 \in 0 .. l
    BY <1>1
  <2>2. Req!Whole(n) = SubSeq(text, e[n - 1] + 1, e[n])
    BY <1>5, <2>1 DEF Req!Whole
  <2>3. lines[n] = Result(text, e[n - 1], e[n])
    BY <1>2 DEF Mark
  <2> QED BY <2>2, <2>3 DEF Result
<1>7. ASSUME NEW n \in 1 .. l PROVE n <= Cardinality(EndsOf(text))
  <2>1. Cardinality(Upto(text, e[n])) = n
    BY <1>1, <1>3
  <2>2. Upto(text, e[n]) \subseteq EndsOf(text)
    BY DEF Upto
  <2> QED BY <2>1, <2>2, EndsFinite, FS_Subset
<1>8. ASSUME e[l] = Len(text) PROVE l = Cardinality(EndsOf(text))
  <2>1. Cardinality(Upto(text, e[l])) = l
    BY <1>1, <1>3
  <2>2. Upto(text, Len(text)) = EndsOf(text)
    BY <1>1 DEF Upto, EndsOf
  <2> QED BY <1>8, <2>1, <2>2
<1>9. Req!Ends = EndsOf(text)
  BY EndsAre
<1> QED BY <1>6, <1>7, <1>8, <1>9 DEF l

\* What has been read and not been returned is the text behind the last mark.
Behind(p) ==
    /\ Len(text) = p + Len(buf) + Len(avail)
    /\ \A i \in 1 .. Len(buf) : buf[i] = text[p + i] /\ buf[i] # "feed"
    /\ \A i \in 1 .. Len(avail) : avail[i] = text[(p + Len(buf)) + i]
    /\ Len(buf) <= MaxLine
    /\ closed => avail = <<>>

LinesInv ==
    /\ text \in Seq(Symbols) /\ buf \in Seq(Symbols) /\ avail \in Seq(Symbols)
    /\ lines \in Seq(SUBSET Seq(Symbols)) /\ closed \in BOOLEAN
    /\ \E e : Marks(e, text, lines) /\ (Req!Reading => Behind(e[Len(lines)]) /\
            (~closed => \A n \in 1 .. Len(lines) : text[e[n]] = "feed"))

LEMMA LinesAreKept == LinesInv => Req!LinesKept
<1> SUFFICES ASSUME LinesInv PROVE Req!LinesKept
  OBVIOUS
<1>1. text \in Seq(Symbols) /\ lines \in Seq(SUBSET Seq(Symbols)) /\ avail \in Seq(Symbols) /\ buf \in Seq(Symbols)
  BY DEF LinesInv
<1>2. PICK e : Marks(e, text, lines) /\ (Req!Reading => Behind(e[Len(lines)]))
  BY DEF LinesInv
<1>3. /\ \A n \in 1 .. Len(lines) :
                  /\ n <= Cardinality(Req!Ends)
                  /\ lines[n] = IF Req!Good(Req!Whole(n)) THEN {Req!Whole(n)} ELSE {}
      /\ e[Len(lines)] = Len(text) => Len(lines) = Cardinality(Req!Ends)
  BY <1>1, <1>2, MarksTell
<1>4. DOMAIN lines = 1 .. Len(lines)
  BY <1>1
<1>5. ASSUME Req!Reading, buf \o avail = <<>> PROVE e[Len(lines)] = Len(text)
  <2>1. Len(buf) = 0 /\ Len(avail) = 0
    <3>1. Len(buf \o avail) = Len(buf) + Len(avail) /\ Len(buf) \in Nat /\ Len(avail) \in Nat
      BY <1>1
    <3>2. Len(buf \o avail) = 0
      BY <1>5
    <3> QED BY <3>1, <3>2
  <2>2. e[Len(lines)] \in Nat
    <3>1. Len(lines) \in Nat /\ e \in [0 .. Len(lines) -> 0 .. Len(text)]
      BY <1>1, <1>2 DEF Marks
    <3> QED BY <3>1
  <2> DEFINE p == e[Len(lines)]
  <2>3. Len(text) = p + Len(buf) + Len(avail)
    BY <1>2, <1>5 DEF Behind
  <2>4. p \in Nat
    BY <2>2
  <2> HIDE DEF p
  <2>5. p = Len(text)
    BY <2>1, <2>3, <2>4
  <2> QED BY <2>5 DEF p
<1>6. Req!Reading /\ closed /\ buf \o avail = <<>> => Len(lines) = Req!Cardinality(Req!Ends)
  BY <1>3, <1>5, SameCount
<1>7. \A n \in DOMAIN lines :
          /\ n <= Req!Cardinality(Req!Ends)
          /\ lines[n] = IF Req!Good(Req!Whole(n)) THEN {Req!Whole(n)} ELSE {}
  BY <1>3, <1>4, SameCount
<1> QED BY <1>6, <1>7 DEF Req!LinesKept

\* What a call takes of the buffer.
TakesTo(w, t) ==
    /\ w \in Seq(Symbols) /\ Len(w) = t /\ Req!Last(w) = avail[t]
    /\ \A i \in 1 .. t : w[i] = avail[i]
    /\ \A i \in 1 .. t : i < t => avail[i] # "feed"
    /\ avail[t] = "feed" \/ t = Len(avail)

LEMMA TakenIs ==
    ASSUME avail \in Seq(Symbols), avail # <<>>
    PROVE  \E t \in 1 .. Len(avail) : TakesTo(Req!Taken, t)
<1> DEFINE k == Len(avail)
           feeds == {i \in 1 .. k : avail[i] = "feed"}
           m == CHOOSE i \in feeds : \A j \in feeds : i <= j
<1>0. k \in Nat /\ k # 0 /\ DOMAIN avail = 1 .. k
  OBVIOUS
<1>1. Req!Taken = IF feeds = {} THEN avail ELSE SubSeq(avail, 1, m)
  BY <1>0 DEF Req!Taken
<1>2. CASE feeds = {}
  <2>1. k \in 1 .. k
    BY <1>0
  <2>2. Req!Last(avail) = avail[k]
    BY DEF Req!Last
  <2>3. \A i \in 1 .. k : avail[i] # "feed"
    BY <1>2
  <2>4. Req!Taken = avail
    BY <1>1, <1>2
  <2>5. TakesTo(avail, k)
    BY <2>2, <2>3 DEF TakesTo
  <2> QED BY <2>1, <2>4, <2>5
<1>3. CASE feeds # {}
  <2>1. feeds \in SUBSET Nat
    BY <1>0
  <2> HIDE DEF feeds
  <2>2. m \in feeds /\ \A j \in feeds : m <= j
    <3>1. \E i \in feeds : \A j \in feeds : i <= j
      BY <1>3, <2>1, LeastElement
    <3> QED BY <3>1
  <2> HIDE DEF m
  <2>3. m \in 1 .. k /\ avail[m] = "feed"
    BY <2>2 DEF feeds
  <2>4. ASSUME NEW i \in 1 .. m, i < m PROVE avail[i] # "feed"
    <3>1. i \notin feeds
      BY <1>0, <2>2, <2>3, <2>4
    <3>2. i \in 1 .. k
      BY <1>0, <2>3
    <3> QED BY <3>1, <3>2 DEF feeds
  <2> DEFINE w == SubSeq(avail, 1, m)
  <2>5. w \in Seq(Symbols) /\ Len(w) = m /\ \A i \in 1 .. m : w[i] = avail[i]
    <3>1. m \in Nat /\ m <= Len(avail)
      BY <1>0, <2>3
    <3> QED BY <3>1, Beginning
  <2>6. Req!Taken = w
    BY <1>1, <1>3
  <2> HIDE DEF w
  <2>7. Req!Last(w) = avail[m]
    <3>1. m \in 1 .. m
      BY <1>0, <2>3
    <3> QED BY <2>5, <3>1 DEF Req!Last
  <2>8. TakesTo(w, m)
    BY <2>3, <2>4, <2>5, <2>7 DEF TakesTo
  <2> QED BY <2>3, <2>6, <2>8
<1> QED BY <1>2, <1>3

\* A stretch of the text is known by its bytes.
LEMMA StretchIs ==
    ASSUME NEW t \in Seq(Symbols), NEW p \in Nat, NEW w \in Seq(Symbols), p + Len(w) <= Len(t),
           \A i \in 1 .. Len(w) : w[i] = t[p + i]
    PROVE  SubSeq(t, p + 1, p + Len(w)) = w
<1> DEFINE k == Len(w)
           q == p + k
           s == SubSeq(t, p + 1, q)
<1>1. k \in Nat
  OBVIOUS
<1>2. p + 1 \in Nat /\ q \in Nat /\ 1 <= p + 1 /\ p + 1 <= q + 1 /\ q <= Len(t)
  BY <1>1
<1>7. \A i \in 1 .. k : w[i] = t[p + i] /\ i \in Nat
  OBVIOUS
<1>3. (q + 1) - (p + 1) = k /\ \A i \in Nat : ((p + 1) + i) - 1 = p + i
  BY <1>1
<1> HIDE DEF q, k
<1>4. s \in Seq(Symbols) /\ Len(s) = k /\ \A i \in 1 .. k : s[i] = t[((p + 1) + i) - 1]
  BY <1>2, <1>3, Stretch
<1> HIDE DEF s
<1>5. \A i \in 1 .. k : s[i] = w[i]
  BY <1>3, <1>4, <1>7
<1>6. s = w
  BY <1>4, <1>5, SeqEqual DEF k
<1> QED BY <1>6 DEF s, q, k

\* More text changes nothing in what has been taken up to a line feed.
LEMMA TextGrows ==
    ASSUME NEW t \in Seq(Symbols), NEW x \in Seq(Symbols), NEW a \in Nat, NEW b \in Nat, NEW l,
           Mark(a, b, t, l), t[b] = "feed"
    PROVE  Mark(a, b, t \o x, l) /\ (t \o x)[b] = "feed"
<1> DEFINE u == t \o x
           k == Len(t)
           n == Len(x)
<1>1. k \in Nat /\ n \in Nat /\ u \in Seq(Symbols) /\ Len(u) = k + n /\ \A i \in 1 .. k : u[i] = t[i]
  OBVIOUS
<1>2. /\ a < b /\ b \in EndsOf(t) /\ l = Result(t, a, b)
      /\ \A i \in 1 .. k : a < i /\ i < b => i \notin EndsOf(t)
  BY DEF Mark
<1> HIDE DEF u, k, n
<1>3. b \in 1 .. k
  BY <1>2 DEF EndsOf, k
<1>4. u[b] = "feed" /\ b \in EndsOf(u)
  BY <1>1, <1>3 DEF EndsOf
<1>5. ASSUME NEW i \in 1 .. Len(u), a < i, i < b PROVE i \notin EndsOf(u)
  <2>1. i \in 1 .. k /\ i # Len(u)
    BY <1>1, <1>3, <1>5
  <2>2. t[i] # "feed"
    BY <1>2, <1>5, <2>1 DEF EndsOf, k
  <2> QED BY <1>1, <2>1, <2>2 DEF EndsOf
<1>6. SubSeq(u, a + 1, b) = SubSeq(t, a + 1, b)
  <2>1. a + 1 \in Nat /\ 1 <= a + 1 /\ a + 1 <= b + 1 /\ b <= Len(t) /\ b <= Len(u)
    BY <1>1, <1>2, <1>3 DEF k
  <2> DEFINE c == a + 1
             s == SubSeq(u, c, b)
             r == SubSeq(t, c, b)
             d == (b + 1) - c
  <2>2. d \in Nat
    BY <1>2
  <2>7. c \in Nat /\ 1 <= c /\ c <= b + 1
    BY <2>1
  <2>3. s \in Seq(Symbols) /\ Len(s) = d /\ \A i \in 1 .. d : s[i] = u[(c + i) - 1]
    <3> HIDE DEF c
    <3> QED BY <1>1, <2>1, <2>7, Stretch
  <2>4. r \in Seq(Symbols) /\ Len(r) = d /\ \A i \in 1 .. d : r[i] = t[(c + i) - 1]
    <3> HIDE DEF c
    <3> QED BY <2>1, <2>7, Stretch
  <2>5. \A i \in 1 .. d : (c + i) - 1 \in 1 .. k
    BY <1>1, <1>2, <1>3
  <2> HIDE DEF s, r, d
  <2>6. \A i \in 1 .. d : s[i] = r[i]
    BY <1>1, <2>3, <2>4, <2>5
  <2> QED BY <2>3, <2>4, <2>6, SeqEqual DEF s, r
<1>7. Result(u, a, b) = Result(t, a, b)
  BY <1>6 DEF Result
<1> QED BY <1>2, <1>4, <1>5, <1>7 DEF Mark, u

\* What comes next in the text, and ends where a line does.
LineAt(w, p) ==
    /\ w \in Seq(Symbols) /\ Len(w) \in Nat /\ 1 <= Len(w) /\ p + Len(w) <= Len(text)
    /\ \A i \in 1 .. Len(w) : w[i] = text[p + i]
    /\ \A i \in 1 .. Len(w) : i < Len(w) => w[i] # "feed"
    /\ w[Len(w)] = "feed" \/ p + Len(w) = Len(text)
Returns(w) == IF Req!Good(w) THEN {w} ELSE {}

LEMMA Returned ==
    ASSUME text \in Seq(Symbols), lines \in Seq(SUBSET Seq(Symbols)), NEW e, Marks(e, text, lines),
           NEW w, LineAt(w, e[Len(lines)])
    PROVE  /\ Append(lines, Returns(w)) \in Seq(SUBSET Seq(Symbols))
           /\ \E g : /\ Marks(g, text, Append(lines, Returns(w)))
                     /\ g[Len(lines) + 1] = e[Len(lines)] + Len(w)
                     /\ \A n \in 0 .. Len(lines) : g[n] = e[n]
<1> DEFINE p == e[Len(lines)]
           k == Len(w)
           r == Returns(w)
           q == p + k
<1>1. /\ w \in Seq(Symbols) /\ k \in Nat /\ 1 <= k /\ q <= Len(text)
      /\ \A i \in 1 .. k : w[i] = text[p + i]
      /\ \A i \in 1 .. k : i < k => w[i] # "feed"
      /\ w[k] = "feed" \/ q = Len(text)
  BY DEF LineAt
<1>2. p \in Nat
  <2>1. Len(lines) \in Nat /\ e \in [0 .. Len(lines) -> 0 .. Len(text)]
    BY DEF Marks
  <2> QED BY <2>1
<1>3. r \in SUBSET Seq(Symbols)
  BY <1>1 DEF Returns
<1> HIDE DEF p
<1>4. SubSeq(text, p + 1, q) = w
  BY <1>1, <1>2, StretchIs
<1>5. r = Result(text, p, q)
  BY <1>4 DEF Returns, Result
<1>6. Mark(p, q, text, r)
  <2>0. Len(text) \in Nat
    OBVIOUS
  <2> HIDE DEF r, q, k
  <2>1. q \in Nat /\ p < q /\ q \in 1 .. Len(text) /\ k \in 1 .. k
    BY <1>1, <1>2, <2>0 DEF q
  <2>2. text[q] = "feed" \/ q = Len(text)
    BY <1>1, <2>1 DEF q
  <2>3. ASSUME NEW i \in 1 .. Len(text), p < i, i < q PROVE i \notin EndsOf(text)
    <3>1. i - p \in 1 .. k /\ i - p < k /\ p + (i - p) = i
      BY <1>1, <1>2, <2>0, <2>3 DEF q
    <3>2. text[i] # "feed"
      BY <1>1, <3>1
    <3>3. i # Len(text)
      BY <1>1, <1>2, <2>0, <2>1, <2>3
    <3> QED BY <3>2, <3>3 DEF EndsOf
  <2>4. q \in EndsOf(text)
    BY <2>1, <2>2 DEF EndsOf
  <2> QED BY <1>5, <2>1, <2>3, <2>4 DEF Mark
<1>7. q \in 0 .. Len(text)
  BY <1>1, <1>2
<1>8. \E g : /\ Marks(g, text, Append(lines, r)) /\ g[Len(lines) + 1] = q
             /\ \A n \in 0 .. Len(lines) : g[n] = e[n]
  <2> HIDE DEF r, q
  <2> QED BY <1>3, <1>6, <1>7, MarkNext DEF p
<1>9. Append(lines, r) \in Seq(SUBSET Seq(Symbols))
  <2> HIDE DEF r
  <2> QED BY <1>3
<1> QED BY <1>8, <1>9 DEF p

\* What has been kept of a line and what is taken now.
LEMMA NowTaken ==
    ASSUME text \in Seq(Symbols), buf \in Seq(Symbols), avail \in Seq(Symbols), avail # <<>>,
           NEW p \in Nat, Behind(p)
    PROVE  \E t \in 1 .. Len(avail) :
               /\ TakesTo(Req!Taken, t) /\ LineAt(buf \o Req!Taken, p)
               /\ Len(buf \o Req!Taken) = Len(buf) + t /\ (buf \o Req!Taken)[Len(buf) + t] = avail[t]
<1> DEFINE b == Len(buf)
           k == Len(avail)
           w == Req!Taken
<1>1. PICK t \in 1 .. k : TakesTo(w, t)
  BY TakenIs
<1>2. /\ w \in Seq(Symbols) /\ Len(w) = t
      /\ \A i \in 1 .. t : w[i] = avail[i]
      /\ \A i \in 1 .. t : i < t => avail[i] # "feed"
      /\ avail[t] = "feed" \/ t = k
  BY <1>1 DEF TakesTo
<1>3. /\ Len(text) = p + b + k
      /\ \A i \in 1 .. b : buf[i] = text[p + i] /\ buf[i] # "feed"
      /\ \A i \in 1 .. k : avail[i] = text[(p + b) + i]
  BY DEF Behind
<1>4. b \in Nat /\ k \in Nat /\ t \in Nat /\ 1 <= t /\ t <= k
  BY <1>1
<1> HIDE DEF w
<1> DEFINE v == buf \o w
<1>5. v \in Seq(Symbols) /\ Len(v) = b + t /\ \A i \in 1 .. b + t : v[i] = IF i <= b THEN buf[i] ELSE w[i - b]
  <2>1. w \in Seq(Symbols) /\ Len(w) = t
    BY <1>2
  <2>2. /\ v \in Seq(Symbols) /\ Len(v) = Len(buf) + Len(w)
        /\ \A i \in 1 .. Len(buf) + Len(w) : v[i] = IF i <= Len(buf) THEN buf[i] ELSE w[i - Len(buf)]
    BY <2>1
  <2> QED BY <2>1, <2>2
<1> HIDE DEF v, b, k
<1>6. ASSUME NEW i \in 1 .. b + t PROVE v[i] = text[p + i] /\ (i < b + t => v[i] # "feed")
  <2>1. CASE i <= b
    <3>1. i \in 1 .. b
      BY <1>4, <2>1
    <3> QED BY <1>3, <1>5, <2>1, <3>1
  <2>2. CASE ~(i <= b)
    <3>1. i - b \in 1 .. t /\ i - b \in 1 .. k /\ (p + b) + (i - b) = p + i /\ (i < b + t => i - b < t)
      BY <1>4, <2>2
    <3>2. v[i] = w[i - b]
      BY <1>5, <2>2
    <3>3. w[i - b] = avail[i - b] /\ avail[i - b] = text[(p + b) + (i - b)]
      BY <1>2, <1>3, <3>1
    <3>4. i - b < t => avail[i - b] # "feed"
      BY <1>2, <3>1
    <3> QED BY <3>1, <3>2, <3>3, <3>4
  <2> QED BY <2>1, <2>2
<1>10. v[b + t] = avail[t]
  <2>1. b + t \in 1 .. b + t /\ ~(b + t <= b) /\ (b + t) - b = t /\ t \in 1 .. t
    BY <1>4
  <2> QED BY <1>2, <1>5, <2>1
<1>7. v[b + t] = "feed" \/ p + (b + t) = Len(text)
  <2>3. t = k => p + (b + t) = Len(text)
    BY <1>3, <1>4
  <2> QED BY <1>2, <1>10, <2>3
<1>8. b + t \in Nat /\ 1 <= b + t /\ p + (b + t) <= Len(text)
  BY <1>3, <1>4
<1>9. LineAt(v, p)
  BY <1>5, <1>6, <1>7, <1>8 DEF LineAt
<1> QED BY <1>1, <1>5, <1>9, <1>10 DEF v, w, b, k

\* The invariant, said of its witness.
LinesTyped ==
    /\ text \in Seq(Symbols) /\ buf \in Seq(Symbols) /\ avail \in Seq(Symbols)
    /\ lines \in Seq(SUBSET Seq(Symbols)) /\ closed \in BOOLEAN
Fed(e) == \A n \in 1 .. Len(lines) : text[e[n]] = "feed"
Marked(e) == Marks(e, text, lines) /\ (Req!Reading => Behind(e[Len(lines)]) /\ (~closed => Fed(e)))

LEMMA LinesSplit == LinesInv <=> LinesTyped /\ \E e : Marked(e)
  BY DEF LinesInv, LinesTyped, Marked, Fed

LEMMA MarkTypes ==
    ASSUME LinesTyped, NEW e, Marks(e, text, lines)
    PROVE  /\ Len(lines) \in Nat /\ Len(text) \in Nat /\ \A n \in 0 .. Len(lines) : e[n] \in Nat /\ e[n] <= Len(text)
<1>1. Len(lines) \in Nat /\ Len(text) \in Nat
  BY DEF LinesTyped
<1>2. e \in [0 .. Len(lines) -> 0 .. Len(text)]
  BY DEF Marks
<1> QED BY <1>1, <1>2

LEMMA FillStep == ASSUME LinesTyped, NEW e, Marked(e), Req!Fill PROVE LinesTyped' /\ Marked(e)'
<1> DEFINE l == Len(lines)
           k == Len(text)
           p == e[l]
           x == avail'
           b == Len(buf)
<1>1. /\ Req!Reading /\ ~closed /\ avail = <<>> /\ text' = text \o x
      /\ closed' = closed /\ buf' = buf /\ lines' = lines
  BY DEF Req!Fill
<1>2. x \in Seq(Symbols)
  <2>1. PICK n \in 1 .. MaxText - Len(text) : x \in [1 .. n -> Symbols]
    BY DEF Req!Fill, Symbols
  <2>2. n \in Nat
    <3>1. MaxText \in Nat /\ Len(text) \in Nat
      BY RequestAssumption DEF LinesTyped
    <3> QED BY <3>1
  <2> QED BY <2>1, <2>2
<1>3. /\ Marks(e, text, lines) /\ Fed(e) /\ text \in Seq(Symbols) /\ buf \in Seq(Symbols)
      /\ k = p + b /\ \A i \in 1 .. b : buf[i] = text[p + i] /\ buf[i] # "feed"
      /\ b <= MaxLine /\ p \in Nat /\ l \in Nat /\ b \in Nat /\ k \in Nat
  <2>1. Marks(e, text, lines) /\ Fed(e) /\ Behind(p)
    BY <1>1 DEF Marked
  <2>2. text \in Seq(Symbols) /\ buf \in Seq(Symbols) /\ l \in Nat /\ b \in Nat /\ k \in Nat
    BY DEF LinesTyped
  <2>3. p \in Nat
    BY <2>1, <2>2, MarkTypes
  <2>4. k = p + b + Len(avail) /\ Len(avail) = 0 /\ b <= MaxLine
    BY <1>1, <2>1 DEF Behind
  <2>5. \A i \in 1 .. b : buf[i] = text[p + i] /\ buf[i] # "feed"
    BY <2>1 DEF Behind
  <2> HIDE DEF p, k, b, l
  <2> QED BY <2>1, <2>2, <2>3, <2>4, <2>5
<1>4. /\ text' \in Seq(Symbols) /\ Len(text') = k + Len(x) /\ Len(x) \in Nat
      /\ \A i \in 1 .. k : text'[i] = text[i]
      /\ \A i \in 1 .. Len(x) : text'[k + i] = x[i]
  <2>1. Joins(Symbols, text \o x, text, x)
    BY <1>2, <1>3, ConcatElements
  <2>2. Len(x) \in Nat
    BY <1>2
  <2> QED BY <1>1, <2>1, <2>2 DEF Joins
<1>5. LinesTyped'
  BY <1>1, <1>2, <1>4 DEF LinesTyped
<1>6. ASSUME NEW n \in 1 .. l PROVE Mark(e[n - 1], e[n], text', lines[n]) /\ text'[e[n]] = "feed"
  <2>1. Mark(e[n - 1], e[n], text, lines[n]) /\ text[e[n]] = "feed"
    BY <1>3 DEF Marks, Fed
  <2>2. n \in 0 .. l /\ n - 1 \in 0 .. l
    BY <1>3
  <2>3. e[n] \in Nat /\ e[n - 1] \in Nat
    BY <1>3, <2>2, MarkTypes
  <2> HIDE DEF x
  <2>4. text' = text \o x /\ x \in Seq(Symbols) /\ text \in Seq(Symbols)
    BY <1>1, <1>2, <1>3
  <2>5. Mark(e[n - 1], e[n], text \o x, lines[n]) /\ (text \o x)[e[n]] = "feed"
    BY <2>1, <2>3, <2>4, TextGrows
  <2> QED BY <2>4, <2>5
<1>7. Marks(e, text', lines)
  <2>1. e \in [0 .. l -> 0 .. k] /\ e[0] = 0
    BY <1>3 DEF Marks
  <2>2. e \in [0 .. l -> 0 .. Len(text')]
    <3> HIDE DEF l, k, x
    <3> QED BY <1>3, <1>4, <2>1
  <2> QED BY <1>6, <2>1, <2>2 DEF Marks
<1> HIDE DEF x, k, p, b
<1>8. Behind(p)'
  <2>1. Len(text') = p + b + Len(x)
    BY <1>3, <1>4
  <2>2. ASSUME NEW i \in 1 .. b PROVE buf[i] = text'[p + i] /\ buf[i] # "feed"
    <3>1. p + i \in 1 .. k
      BY <1>3
    <3> QED BY <1>3, <1>4, <3>1
  <2>3. ASSUME NEW i \in 1 .. Len(x) PROVE x[i] = text'[(p + b) + i]
    BY <1>3, <1>4
  <2>4. ~closed'
    BY <1>1
  <2> QED BY <1>1, <1>3, <2>1, <2>2, <2>3, <2>4 DEF Behind, b, x, p, l
<1>9. p' = p
  BY <1>1 DEF p
<1> QED BY <1>1, <1>5, <1>6, <1>7, <1>8, <1>9 DEF Marked, Fed, p

LEMMA CloseStep == ASSUME LinesTyped, NEW e, Marked(e), Req!Close PROVE LinesTyped' /\ Marked(e)'
<1>1. Req!Reading /\ ~closed /\ avail = <<>> /\ closed' = TRUE /\ UNCHANGED <<avail, buf, lines, text>>
  BY DEF Req!Close
<1>2. LinesTyped'
  BY <1>1 DEF LinesTyped
<1>3. Marks(e, text, lines) /\ Behind(e[Len(lines)])
  BY <1>1 DEF Marked
<1>4. Behind(e[Len(lines)])'
  BY <1>1, <1>3 DEF Behind
<1> QED BY <1>1, <1>2, <1>3, <1>4 DEF Marked

\* A line that is returned, or an error, leaves its mark.
LEMMA NewMark ==
    ASSUME LinesTyped, NEW e, Marks(e, text, lines), NEW w, LineAt(w, e[Len(lines)]), text' = text,
           lines' = Append(lines, Returns(w))
    PROVE  /\ lines' \in Seq(SUBSET Seq(Symbols)) /\ Len(lines') = Len(lines) + 1 /\ Req!Last(lines') = Returns(w)
           /\ \E g : /\ Marks(g, text, lines)' /\ g[Len(lines')] = e[Len(lines)] + Len(w)
                     /\ \A n \in 0 .. Len(lines) : g[n] = e[n]
<1> DEFINE r == Returns(w)
           l == Len(lines)
<1>1. text \in Seq(Symbols) /\ lines \in Seq(SUBSET Seq(Symbols)) /\ l \in Nat
  BY DEF LinesTyped
<1>2. /\ Append(lines, r) \in Seq(SUBSET Seq(Symbols))
      /\ \E g : /\ Marks(g, text, Append(lines, r)) /\ g[l + 1] = e[l] + Len(w)
                /\ \A n \in 0 .. l : g[n] = e[n]
  BY <1>1, Returned
<1> HIDE DEF r
<1>3. Len(Append(lines, r)) = l + 1 /\ Append(lines, r)[l + 1] = r
  BY <1>1
<1>4. Req!Last(Append(lines, r)) = r
  BY <1>3 DEF Req!Last
<1>5. \E g : /\ Marks(g, text', lines') /\ g[Len(lines')] = e[l] + Len(w)
             /\ \A n \in 0 .. l : g[n] = e[n]
  BY <1>2, <1>3 DEF r
<1> QED BY <1>2, <1>3, <1>4, <1>5 DEF r

LEMMA TooLongStep == ASSUME LinesTyped, NEW e, Marked(e), Req!TooLong PROVE LinesTyped' /\ \E g : Marked(g)'
<1> DEFINE p == e[Len(lines)]
           w == buf \o Req!Taken
<1>1. /\ Req!Reading /\ avail # <<>> /\ Len(w) > MaxLine /\ lines' = Append(lines, {}) /\ buf' = <<>>
      /\ UNCHANGED <<closed, avail, text>>
  BY DEF Req!TooLong
<1>2. Marks(e, text, lines) /\ Behind(p) /\ p \in Nat
  <2>1. Marks(e, text, lines) /\ Behind(p)
    BY <1>1 DEF Marked
  <2> QED BY <2>1, MarkTypes
<1>3. LineAt(w, p)
  <2> HIDE DEF p
  <2> QED BY <1>1, <1>2, NowTaken DEF LinesTyped
<1>4. Len(w) \in Nat /\ ~(Len(w) <= MaxLine)
  <2> HIDE DEF w
  <2> QED BY <1>1, <1>3, RequestAssumption DEF LineAt
<1>5. Returns(w) = {}
  BY <1>4 DEF Returns, Req!Good
<1> HIDE DEF w, p
<1>6. /\ lines' \in Seq(SUBSET Seq(Symbols)) /\ Len(lines') = Len(lines) + 1 /\ Req!Last(lines') = {}
      /\ \E g : Marks(g, text, lines)'
  BY <1>1, <1>2, <1>3, <1>5, NewMark DEF p
<1>7. ~Req!Reading'
  <2>1. lines' # <<>>
    <3>1. Len(lines) \in Nat
      BY DEF LinesTyped
    <3> QED BY <1>6, <3>1
  <2> QED BY <1>6, <2>1 DEF Req!Reading
<1>8. LinesTyped'
  BY <1>1, <1>6 DEF LinesTyped
<1> QED BY <1>6, <1>7, <1>8 DEF Marked

LEMMA TakePartStep == ASSUME LinesTyped, NEW e, Marked(e), Req!TakePart PROVE LinesTyped' /\ Marked(e)'
<1> DEFINE p == e[Len(lines)]
           w == buf \o Req!Taken
           k == Len(avail)
           b == Len(buf)
<1>1. /\ Req!Reading /\ avail # <<>> /\ Len(w) <= MaxLine /\ Req!Last(Req!Taken) # "feed"
      /\ buf' = buf \o avail /\ avail' = <<>> /\ UNCHANGED <<closed, lines, text>>
  BY DEF Req!TakePart
<1>2. Marks(e, text, lines) /\ Behind(p) /\ p \in Nat /\ (~closed => Fed(e))
  <2>1. Marks(e, text, lines) /\ Behind(p) /\ (~closed => Fed(e))
    BY <1>1 DEF Marked
  <2> QED BY <2>1, MarkTypes
<1>3. PICK t \in 1 .. k : TakesTo(Req!Taken, t) /\ LineAt(w, p) /\ Len(w) = b + t /\ w[b + t] = avail[t]
  <2> HIDE DEF p
  <2> QED BY <1>1, <1>2, NowTaken DEF LinesTyped
<1>4. t = k /\ avail[k] # "feed" /\ Req!Taken \in Seq(Symbols) /\ Len(Req!Taken) = k /\ \A i \in 1 .. k : Req!Taken[i] = avail[i]
  BY <1>1, <1>3 DEF TakesTo
<1>5. Req!Taken = avail
  BY <1>4, SeqEqual DEF LinesTyped
<1>6. buf \o avail = w
  BY <1>5
<1>7. b \in Nat /\ k \in Nat
  BY DEF LinesTyped
<1> HIDE DEF w, p, k, b
<1>8. /\ w \in Seq(Symbols) /\ Len(w) = b + k /\ \A i \in 1 .. b + k : w[i] = text[p + i]
      /\ \A i \in 1 .. b + k : i < b + k => w[i] # "feed"
  BY <1>3, <1>4 DEF LineAt
<1>9. w[b + k] # "feed"
  BY <1>3, <1>4
<1>10. LinesTyped'
  BY <1>1, <1>6, <1>8 DEF LinesTyped
<1>11. Behind(p)'
  <2>1. Len(text) = p + b + k
    BY <1>2 DEF Behind, b, k
  <2>2. Len(text') = p + Len(w) + Len(avail')
    <3>1. Len(avail') = 0
      BY <1>1
    <3> QED BY <1>1, <1>2, <1>7, <1>8, <2>1, <3>1
  <2>3. ASSUME NEW i \in 1 .. Len(w) PROVE w[i] = text'[p + i] /\ w[i] # "feed"
    BY <1>1, <1>7, <1>8, <1>9
  <2>4. avail' = <<>> /\ \A i \in 1 .. Len(avail') : avail'[i] = text'[(p + Len(buf')) + i]
    <3>1. Len(avail') = 0
      BY <1>1
    <3> QED BY <1>1, <3>1
  <2> QED BY <1>1, <1>6, <2>2, <2>3, <2>4 DEF Behind, p
<1>12. p' = p
  BY <1>1 DEF p
<1> QED BY <1>1, <1>2, <1>10, <1>11, <1>12 DEF Marked, Fed, p

LEMMA TakeLineStep == ASSUME LinesTyped, NEW e, Marked(e), Req!TakeLine PROVE LinesTyped' /\ \E g : Marked(g)'
<1> DEFINE p == e[Len(lines)]
           w == buf \o Req!Taken
           k == Len(avail)
           b == Len(buf)
           l == Len(lines)
           rest == SubSeq(avail, Len(Req!Taken) + 1, k)
<1>1. /\ Req!Reading /\ avail # <<>> /\ Len(w) <= MaxLine /\ Req!Last(Req!Taken) = "feed"
      /\ lines' = Append(lines, Req!from_utf8(w)) /\ buf' = <<>> /\ avail' = rest
      /\ UNCHANGED <<closed, text>>
  BY DEF Req!TakeLine
<1>2. Marks(e, text, lines) /\ Behind(p) /\ p \in Nat /\ (~closed => Fed(e))
  <2>1. Marks(e, text, lines) /\ Behind(p) /\ (~closed => Fed(e))
    BY <1>1 DEF Marked
  <2> QED BY <2>1, MarkTypes
<1>3. PICK t \in 1 .. k : TakesTo(Req!Taken, t) /\ LineAt(w, p) /\ Len(w) = b + t /\ w[b + t] = avail[t]
  <2> HIDE DEF p
  <2> QED BY <1>1, <1>2, NowTaken DEF LinesTyped
<1>4. avail[t] = "feed" /\ Len(Req!Taken) = t
  BY <1>1, <1>3 DEF TakesTo
<1>5. b \in Nat /\ k \in Nat /\ t \in Nat /\ 1 <= t /\ t <= k /\ l \in Nat
  <2>1. b \in Nat /\ k \in Nat /\ l \in Nat
    BY DEF LinesTyped
  <2> HIDE DEF k, b, l
  <2> QED BY <1>3, <2>1
<1>6. Returns(w) = Req!from_utf8(w)
  BY <1>1 DEF Returns, Req!Good, Req!from_utf8
<1>7. /\ rest \in Seq(Symbols) /\ Len(rest) = k - t
      /\ \A i \in 1 .. k - t : rest[i] = avail[t + i]
  <2> DEFINE m == t + 1
             s == SubSeq(avail, m, k)
  <2>0. avail \in Seq(Symbols)
    BY DEF LinesTyped
  <2>1. m \in Nat /\ 1 <= m /\ m <= k + 1 /\ (k + 1) - m = k - t /\ \A i \in Nat : (m + i) - 1 = t + i
    BY <1>5
  <2>4. k <= Len(avail)
    BY <1>5
  <2> HIDE DEF m, k
  <2>2. s \in Seq(Symbols) /\ Len(s) = (k + 1) - m /\ \A i \in 1 .. (k + 1) - m : s[i] = avail[(m + i) - 1]
    BY <1>5, <2>0, <2>1, <2>4, Stretch
  <2>3. rest = s
    BY <1>4 DEF m
  <2> HIDE DEF s, rest
  <2>5. rest \in Seq(Symbols) /\ Len(rest) = k - t
    BY <2>1, <2>2, <2>3
  <2>6. ASSUME NEW i \in 1 .. k - t PROVE rest[i] = avail[t + i]
    <3>1. i \in Nat /\ (m + i) - 1 = t + i
      BY <1>5, <2>1
    <3>2. i \in 1 .. (k + 1) - m
      BY <2>1
    <3>3. s[i] = avail[(m + i) - 1]
      BY <2>2, <3>2
    <3> QED BY <2>3, <3>1, <3>3
  <2> QED BY <2>5, <2>6
<1> HIDE DEF w, p, k, b, l, rest
<1>8. /\ lines' \in Seq(SUBSET Seq(Symbols)) /\ Len(lines') = l + 1
      /\ \E g : /\ Marks(g, text, lines)' /\ g[Len(lines')] = p + Len(w)
                /\ \A n \in 0 .. l : g[n] = e[n]
  BY <1>1, <1>2, <1>3, <1>6, NewMark DEF p, l
<1>9. PICK g : Marks(g, text, lines)' /\ g[Len(lines')] = p + Len(w) /\ \A n \in 0 .. l : g[n] = e[n]
  BY <1>8
<1>10. LinesTyped'
  BY <1>1, <1>7, <1>8 DEF LinesTyped
<1>20. p + (b + t) \in Nat
  BY <1>2, <1>5
<1>21. PICK q \in Nat : q = p + (b + t)
  BY <1>20
<1>11. Len(text) = p + b + k /\ \A i \in 1 .. k : avail[i] = text[(p + b) + i]
  BY <1>2 DEF Behind, b, k
<1>12. text[q] = "feed"
  <2>1. b + t \in 1 .. Len(w)
    BY <1>3, <1>5
  <2>2. w[b + t] = text[p + (b + t)]
    BY <1>3, <2>1 DEF LineAt
  <2> QED BY <1>3, <1>4, <1>21, <2>2
<1>13. Behind(q)'
  <2>1. Len(buf') = 0 /\ 0 <= MaxLine
    BY <1>1, RequestAssumption
  <2>2. Len(text') = q + Len(buf') + Len(avail')
    BY <1>1, <1>2, <1>5, <1>7, <1>11, <1>21, <2>1
  <2>3. ASSUME NEW i \in 1 .. Len(avail') PROVE avail'[i] = text'[(q + Len(buf')) + i]
    <3>1. i \in 1 .. k - t /\ t + i \in 1 .. k /\ (p + b) + (t + i) = (q + Len(buf')) + i
      BY <1>1, <1>2, <1>5, <1>7, <1>21, <2>1
    <3> QED BY <1>1, <1>7, <1>11, <3>1
  <2>4. closed' => avail' = <<>>
    BY <1>1, <1>2 DEF Behind
  <2>5. \A i \in 1 .. Len(buf') : buf'[i] = text'[q + i] /\ buf'[i] # "feed"
    BY <2>1
  <2> QED BY <2>1, <2>2, <2>3, <2>4, <2>5 DEF Behind
<1>14. g[Len(lines')] = q
  BY <1>3, <1>9, <1>21
<1>15. ASSUME ~closed', NEW n \in 1 .. Len(lines') PROVE text'[g[n]] = "feed"
  <2>1. CASE n = Len(lines')
    BY <1>1, <1>12, <1>14, <2>1
  <2>2. CASE n # Len(lines')
    <3>1. n \in 1 .. l /\ n \in 0 .. l
      BY <1>5, <1>8, <2>2
    <3>2. Fed(e)
      BY <1>1, <1>2, <1>15
    <3>3. text[e[n]] = "feed"
      BY <3>1, <3>2 DEF Fed, l
    <3> QED BY <1>1, <1>9, <3>1, <3>3
  <2> QED BY <2>1, <2>2
<1>17. Marked(g)'
  BY <1>9, <1>13, <1>14, <1>15 DEF Marked, Fed
<1> QED BY <1>10, <1>17

LEMMA TakeRestStep == ASSUME LinesTyped, NEW e, Marked(e), Req!TakeRest PROVE LinesTyped' /\ \E g : Marked(g)'
<1> DEFINE p == e[Len(lines)]
           b == Len(buf)
<1>1. /\ Req!Reading /\ closed /\ avail = <<>> /\ buf # <<>>
      /\ lines' = Append(lines, Req!from_utf8(buf)) /\ buf' = <<>>
      /\ UNCHANGED <<closed, avail, text>>
  BY DEF Req!TakeRest
<1>2. Marks(e, text, lines) /\ Behind(p) /\ p \in Nat
  <2>1. Marks(e, text, lines) /\ Behind(p)
    BY <1>1 DEF Marked
  <2> QED BY <2>1, MarkTypes
<1>3. b \in Nat /\ 1 <= b /\ buf \in Seq(Symbols)
  BY <1>1 DEF LinesTyped
<1>4. Len(text) = p + b /\ b <= MaxLine /\ \A i \in 1 .. b : buf[i] = text[p + i] /\ buf[i] # "feed"
  <2>1. Len(avail) = 0
    BY <1>1
  <2>2. Len(text) = p + b + Len(avail) /\ b <= MaxLine /\ \A i \in 1 .. b : buf[i] = text[p + i] /\ buf[i] # "feed"
    BY <1>2 DEF Behind
  <2> HIDE DEF p, b
  <2> QED BY <1>2, <1>3, <2>1, <2>2
<1>5. LineAt(buf, p)
  <2>1. p + b <= Len(text)
    BY <1>2, <1>3, <1>4
  <2> QED BY <1>3, <1>4, <2>1 DEF LineAt
<1>6. Returns(buf) = Req!from_utf8(buf)
  BY <1>4 DEF Returns, Req!Good, Req!from_utf8
<1> HIDE DEF p, b
<1>7. /\ lines' \in Seq(SUBSET Seq(Symbols))
      /\ \E g : Marks(g, text, lines)' /\ g[Len(lines')] = p + b
  BY <1>1, <1>2, <1>5, <1>6, NewMark DEF p, b
<1>8. LinesTyped'
  BY <1>1, <1>7 DEF LinesTyped
<1>9. PICK g : Marks(g, text, lines)' /\ g[Len(lines')] = p + b
  BY <1>7
<1>12. p + b \in Nat
  BY <1>2, <1>3
<1>13. PICK q \in Nat : q = p + b
  BY <1>12
<1>10. Behind(q)'
  <2>1. Len(buf') = 0 /\ Len(avail') = 0 /\ 0 <= MaxLine /\ avail' = <<>>
    BY <1>1, RequestAssumption
  <2>2. Len(text') = q + Len(buf') + Len(avail')
    BY <1>1, <1>2, <1>3, <1>4, <1>13, <2>1
  <2> QED BY <2>1, <2>2 DEF Behind
<1>11. closed'
  BY <1>1
<1> QED BY <1>8, <1>9, <1>10, <1>11, <1>13 DEF Marked

LEMMA LinesStep == ASSUME LinesInv, Req!Next PROVE LinesInv'
<1>1. LinesTyped /\ \E e : Marked(e)
  BY LinesSplit
<1>2. PICK e : Marked(e)
  BY <1>1
<1>3. LinesTyped' /\ \E g : Marked(g)'
  <2>1. CASE Req!Fill \/ Req!Close \/ Req!TakePart
    BY <1>1, <1>2, <2>1, FillStep, CloseStep, TakePartStep
  <2>2. CASE Req!TooLong \/ Req!TakeLine \/ Req!TakeRest
    BY <1>1, <1>2, <2>2, TooLongStep, TakeLineStep, TakeRestStep
  <2> QED BY <2>1, <2>2 DEF Req!Next
<1> QED BY <1>3 DEF LinesInv, LinesTyped, Marked, Fed

LEMMA LinesInitially == ASSUME Req!Init PROVE LinesInv
<1>1. closed = FALSE /\ text = <<>> /\ avail = <<>> /\ buf = <<>> /\ lines = <<>>
  BY DEF Req!Init
<1>2. LinesTyped
  <2>1. <<>> \in Seq(Symbols) /\ <<>> \in Seq(SUBSET Seq(Symbols))
    BY EmptyType
  <2> QED BY <1>1, <2>1 DEF LinesTyped
<1> DEFINE e == [n \in 0 .. 0 |-> 0]
<1>3. e \in [0 .. 0 -> 0 .. 0] /\ e[0] = 0 /\ Len(<<>>) = 0
  OBVIOUS
<1> HIDE DEF e
<1>4. Marks(e, text, lines)
  BY <1>1, <1>3 DEF Marks
<1>5. Behind(e[Len(lines)])
  BY <1>1, <1>3, RequestAssumption DEF Behind
<1>6. Fed(e)
  BY <1>1, <1>3 DEF Fed
<1> QED BY <1>2, <1>4, <1>5, <1>6, LinesSplit DEF Marked

-----------------------------------------------------------------------------
(* Places.                                                                  *)

LEMMA DegreeIs == Where!Degree = 18000
  BY DEF Where!Degree, Where!Minute

\* What of an angle comes back from its text: all but a rounding.
LEMMA Rounded ==
    ASSUME NEW m \in Nat
    PROVE  LET d == m \div 18000
               u == m % 18000
               h == Where!Hundredths(u)
           IN  /\ d \in Nat /\ u \in Nat /\ u < 18000 /\ h \in Nat /\ m = d * 18000 + u
               /\ (d * 18000 + 3 * h) - m \in {-1, 0, 1}
               /\ u < 17999 => h < 6000
<1> DEFINE d == m \div 18000
           u == m % 18000
           h == (u + 1) \div 3
<1>1. d \in Nat /\ u \in Nat /\ u < 18000 /\ m = d * 18000 + u
  OBVIOUS
<1> HIDE DEF d, u
<1>2. h \in Nat /\ 3 * h <= u + 1 /\ u + 1 < 3 * h + 3
  BY <1>1
<1>3. h = Where!Hundredths(u)
  BY DEF Where!Hundredths
<1> HIDE DEF h
<1>4. (d * 18000 + 3 * h) - m \in {-1, 0, 1} /\ (u < 17999 => h < 6000)
  BY <1>1, <1>2
<1> QED BY <1>1, <1>2, <1>3, <1>4 DEF d, u

\* A text as it is read.
LEMMA AngleRead ==
    ASSUME NEW t, NEW width, NEW most, NEW plus, NEW minus, plus # minus, t.deg \in Nat, t.min \in Nat
    PROVE  Where!AngleOf(t, width, most, plus, minus) =
               IF t.width # width \/ t.deg > most \/ t.min >= 6000 \/ t.hem \notin {plus, minus} THEN {}
               ELSE {IF t.hem = plus THEN t.deg * 18000 + 3 * t.min ELSE -(t.deg * 18000 + 3 * t.min)}
  BY DegreeIs DEF Where!AngleOf

Near(a, x) == a \in Int /\ Where!Magnitude(a - x) <= 1

LEMMA NumberKept ==
    ASSUME NEW x \in Int, NEW digits, NEW width, NEW most \in Nat, NEW plus, NEW minus, plus # minus
    PROVE  LET found == Where!AngleOf(Where!AsText(x, digits, plus, minus), width, most, plus, minus)
           IN  /\ \A a \in found : Near(a, x)
               /\ (digits = width /\ Where!Magnitude(x) <= most * 18000 /\ Where!Magnitude(x) % 18000 < 17999) =>
                      found # {}
<1> DEFINE m == Where!Magnitude(x)
           t == Where!AsText(x, digits, plus, minus)
           d == m \div 18000
           u == m % 18000
           h == Where!Hundredths(u)
           v == d * 18000 + 3 * h
           found == Where!AngleOf(t, width, most, plus, minus)
<1>1. m \in Nat /\ m = IF x >= 0 THEN x ELSE -x
  BY DEF Where!Magnitude
<1>2. /\ t.deg = d /\ t.width = digits /\ t.min = h
      /\ t.hem = IF x >= 0 THEN plus ELSE minus
  BY DegreeIs DEF Where!AsText
<1> HIDE DEF m, t
<1>3. /\ d \in Nat /\ u \in Nat /\ u < 18000 /\ h \in Nat /\ m = d * 18000 + u
      /\ v - m \in {-1, 0, 1} /\ (u < 17999 => h < 6000)
  <2>1. m \in Nat
    BY <1>1
  <2> QED BY <2>1, Rounded
<1> HIDE DEF d, u, h
<1>4. found = IF t.width # width \/ t.deg > most \/ t.min >= 6000 \/ t.hem \notin {plus, minus} THEN {}
              ELSE {IF t.hem = plus THEN t.deg * 18000 + 3 * t.min ELSE -(t.deg * 18000 + 3 * t.min)}
  BY <1>2, <1>3, AngleRead
<1> HIDE DEF found
<1>5. \A a \in found : a = IF x >= 0 THEN v ELSE -v
  BY <1>2, <1>4
<1>6. Near(IF x >= 0 THEN v ELSE -v, x)
  <2>0. v \in Int
    BY <1>3
  <2> HIDE DEF v
  <2>1. CASE x >= 0
    BY <1>1, <1>3, <2>0, <2>1 DEF Near, Where!Magnitude
  <2>2. CASE ~(x >= 0)
    BY <1>1, <1>3, <2>0, <2>2 DEF Near, Where!Magnitude
  <2> QED BY <2>1, <2>2
<1>7. ASSUME digits = width, m <= most * 18000, u < 17999 PROVE found # {}
  <2>1. d <= most /\ h < 6000
    BY <1>3, <1>7
  <2>2. ~(t.deg > most) /\ ~(t.min >= 6000)
    BY <1>2, <1>3, <2>1
  <2>3. t.width = width /\ t.hem \in {plus, minus}
    BY <1>2, <1>7
  <2> QED BY <1>4, <2>2, <2>3
<1> HIDE DEF v
<1> QED BY <1>5, <1>6, <1>7 DEF found, t, u, m

\* A coordinate the configuration may have, and what is read of it.
Coordinate(value) ==
    \/ value.kind = "number" /\ value.at \in Int
    \/ value.kind = "aprs" /\ value.text.deg \in Nat /\ value.text.min \in Nat
    \/ value.kind = "other"

\* A configured text with the letters plus and minus is read near what it means.
TextRead(value, width, most, plus, minus) ==
    LET found == Where!AngleOf(value.text, width, most, plus, minus)
    IN  /\ \A a \in found : Near(a, Where!Meaning(value))
        /\ value.text.width = width /\ value.text.deg <= most /\ value.text.min < 6000
              /\ value.text.hem \in {plus, minus} => found # {}

LEMMA TextKept ==
    ASSUME NEW value, value.kind = "aprs", value.text.deg \in Nat, value.text.min \in Nat,
           NEW width, NEW most \in Nat, NEW plus \in {"N", "E"}, NEW minus \in {"S", "W"}
    PROVE  TextRead(value, width, most, plus, minus)
<1> DEFINE t == value.text
           v == t.deg * 18000 + 3 * t.min
           found == Where!AngleOf(t, width, most, plus, minus)
<1>1. found = IF t.width # width \/ t.deg > most \/ t.min >= 6000 \/ t.hem \notin {plus, minus} THEN {}
              ELSE {IF t.hem = plus THEN v ELSE -v}
  <2>1. plus # minus
    OBVIOUS
  <2>2. t.deg \in Nat /\ t.min \in Nat
    OBVIOUS
  <2> HIDE DEF t
  <2> QED BY <2>1, <2>2, AngleRead
<1>2. Where!Meaning(value) = IF t.hem \in {"S", "W"} THEN -v ELSE v
  BY DegreeIs DEF Where!Meaning
<1>3. v \in Nat
  OBVIOUS
<1>4. ASSUME NEW a \in found PROVE a = Where!Meaning(value)
  <2> HIDE DEF v, found
  <2>1. t.hem \in {plus, minus} /\ a = IF t.hem = plus THEN v ELSE -v
    BY <1>1, <1>4
  <2> QED BY <1>2, <2>1
<1>5. \A i \in Int : Near(i, i)
  BY DEF Near, Where!Magnitude
<1>6. Where!Meaning(value) \in Int
  <2> HIDE DEF v
  <2> QED BY <1>2, <1>3
<1>7. \A a \in found : Near(a, Where!Meaning(value))
  BY <1>4, <1>5, <1>6
<1>8. t.width = width /\ t.deg <= most /\ t.min < 6000 /\ t.hem \in {plus, minus} => found # {}
  <2> HIDE DEF found
  <2> QED BY <1>1
<1> QED BY <1>7, <1>8 DEF TextRead

LatTexts(value) ==
    CASE value.kind = "number" -> Where!decimal_lat_to_aprs(value.at)
      [] value.kind = "aprs"   -> {value.text}
      [] OTHER                 -> {}
LonTexts(value) ==
    CASE value.kind = "number" -> Where!decimal_lon_to_aprs(value.at)
      [] value.kind = "aprs"   -> {value.text}
      [] OTHER                 -> {}

LocationTexts(raw) == {[lat |-> a, lon |-> b] : a \in LatTexts(raw.lat), b \in LonTexts(raw.lon)}

LEMMA LocationIs == ASSUME NEW raw PROVE Where!LocationOf(raw) = LocationTexts(raw)
  BY DEF Where!LocationOf, Where!Converted, LatTexts, LonTexts, LocationTexts

\* What is read of a text is near what is meant, and there if that is sound.
LatReads(t, value) ==
    /\ \A a \in Where!parse_latitude(t) : Near(a, Where!Meaning(value))
    /\ Where!Sound(value, 2, 90, {"N", "S"}) => Where!parse_latitude(t) # {}
LonReads(t, value) ==
    /\ \A a \in Where!parse_longitude(t) : Near(a, Where!Meaning(value))
    /\ Where!Sound(value, 3, 180, {"E", "W"}) => Where!parse_longitude(t) # {}

LEMMA LatNumber ==
    ASSUME NEW value, value.kind = "number", value.at \in Int, NEW digits,
           Where!Magnitude(value.at) <= 90 * 18000 => digits = 2
    PROVE  LatReads(Where!AsText(value.at, digits, "N", "S"), value)
<1> DEFINE x == value.at
           t == Where!AsText(x, digits, "N", "S")
<1>1. Where!parse_latitude(t) = Where!AngleOf(t, 2, 90, "N", "S")
  BY DEF Where!parse_latitude, Where!AsText
<1>2. Where!Meaning(value) = x
  BY DEF Where!Meaning
<1>3. Where!Sound(value, 2, 90, {"N", "S"}) =>
          Where!Magnitude(x) <= 90 * 18000 /\ Where!Magnitude(x) % 18000 < 17999
  BY DegreeIs DEF Where!Sound
<1>4. /\ \A a \in Where!AngleOf(t, 2, 90, "N", "S") : Near(a, x)
      /\ (digits = 2 /\ Where!Magnitude(x) <= 90 * 18000 /\ Where!Magnitude(x) % 18000 < 17999) =>
             Where!AngleOf(t, 2, 90, "N", "S") # {}
  <2> HIDE DEF x
  <2>1. x \in Int
    BY DEF x
  <2>2. \A width : LET found == Where!AngleOf(Where!AsText(x, digits, "N", "S"), width, 90, "N", "S")
                   IN  /\ \A a \in found : Near(a, x)
                       /\ (digits = width /\ Where!Magnitude(x) <= 90 * 18000 /\ Where!Magnitude(x) % 18000 < 17999) => found # {}
    BY <2>1, NumberKept
  <2> QED BY <2>2
<1> HIDE DEF t
<1> QED BY <1>1, <1>2, <1>3, <1>4 DEF LatReads, t

LEMMA LonNumber ==
    ASSUME NEW value, value.kind = "number", value.at \in Int
    PROVE  LonReads(Where!AsText(value.at, 3, "E", "W"), value)
<1> DEFINE x == value.at
           t == Where!AsText(x, 3, "E", "W")
<1>1. Where!parse_longitude(t) = Where!AngleOf(t, 3, 180, "E", "W")
  BY DEF Where!parse_longitude, Where!AsText
<1>2. Where!Meaning(value) = x
  BY DEF Where!Meaning
<1>3. Where!Sound(value, 3, 180, {"E", "W"}) =>
          Where!Magnitude(x) <= 180 * 18000 /\ Where!Magnitude(x) % 18000 < 17999
  BY DegreeIs DEF Where!Sound
<1>4. /\ \A a \in Where!AngleOf(t, 3, 180, "E", "W") : Near(a, x)
      /\ (Where!Magnitude(x) <= 180 * 18000 /\ Where!Magnitude(x) % 18000 < 17999) =>
             Where!AngleOf(t, 3, 180, "E", "W") # {}
  <2> HIDE DEF x
  <2>1. x \in Int
    BY DEF x
  <2>2. \A width : LET found == Where!AngleOf(Where!AsText(x, width, "E", "W"), width, 180, "E", "W")
                   IN  /\ \A a \in found : Near(a, x)
                       /\ (Where!Magnitude(x) <= 180 * 18000 /\ Where!Magnitude(x) % 18000 < 17999) => found # {}
    BY <2>1, NumberKept
  <2> QED BY <2>2
<1> HIDE DEF t
<1> QED BY <1>1, <1>2, <1>3, <1>4 DEF LonReads, t

LEMMA TextReads ==
    ASSUME NEW value, value.kind = "aprs", value.text.deg \in Nat, value.text.min \in Nat
    PROVE  LatReads(value.text, value) /\ LonReads(value.text, value)
<1> DEFINE t == value.text
<1>1. /\ \A a \in Where!AngleOf(t, 2, 90, "N", "S") : Near(a, Where!Meaning(value))
      /\ t.width = 2 /\ t.deg <= 90 /\ t.min < 6000 /\ t.hem \in {"N", "S"} => Where!AngleOf(t, 2, 90, "N", "S") # {}
  <2>1. TextRead(value, 2, 90, "N", "S")
    <3>1. 90 \in Nat /\ "N" \in {"N", "E"} /\ "S" \in {"S", "W"}
      OBVIOUS
    <3> QED BY <3>1, TextKept
  <2> QED BY <2>1 DEF TextRead
<1>2. /\ \A a \in Where!AngleOf(t, 3, 180, "E", "W") : Near(a, Where!Meaning(value))
      /\ t.width = 3 /\ t.deg <= 180 /\ t.min < 6000 /\ t.hem \in {"E", "W"} => Where!AngleOf(t, 3, 180, "E", "W") # {}
  <2>1. TextRead(value, 3, 180, "E", "W")
    <3>1. 180 \in Nat /\ "E" \in {"N", "E"} /\ "W" \in {"S", "W"}
      OBVIOUS
    <3> QED BY <3>1, TextKept
  <2> QED BY <2>1 DEF TextRead
<1>3. Where!Sound(value, 2, 90, {"N", "S"}) =>
          t.width = 2 /\ t.deg <= 90 /\ t.min < 6000 /\ t.hem \in {"N", "S"} /\ t.space = "none"
  BY DEF Where!Sound
<1>4. Where!Sound(value, 3, 180, {"E", "W"}) =>
          t.width = 3 /\ t.deg <= 180 /\ t.min < 6000 /\ t.hem \in {"E", "W"} /\ t.space = "none"
  BY DEF Where!Sound
<1>5. Where!parse_latitude(t) = IF t.space # "none" THEN {} ELSE Where!AngleOf(t, 2, 90, "N", "S")
  BY DEF Where!parse_latitude
<1>6. Where!parse_longitude(t) = IF t.space = "before" THEN {} ELSE Where!AngleOf(t, 3, 180, "E", "W")
  BY DEF Where!parse_longitude
<1> HIDE DEF t
<1>7. LatReads(t, value)
  BY <1>1, <1>3, <1>5 DEF LatReads
<1>8. LonReads(t, value)
  BY <1>2, <1>4, <1>6 DEF LonReads
<1> QED BY <1>7, <1>8 DEF t

LEMMA Configured ==
    ASSUME NEW raw, Coordinate(raw.lat), Coordinate(raw.lon), NEW p \in Where!LocationOf(raw)
    PROVE  LatReads(p.lat, raw.lat) /\ LonReads(p.lon, raw.lon)
<1>1. PICK a \in LatTexts(raw.lat), b \in LonTexts(raw.lon) : p = [lat |-> a, lon |-> b]
  <2>1. p \in LocationTexts(raw)
    BY LocationIs
  <2> QED BY <2>1 DEF LocationTexts
<1>2. p.lat = a /\ p.lon = b
  BY <1>1
<1> DEFINE v == raw.lat
           w == raw.lon
<1>3. Coordinate(v) /\ a \in LatTexts(v) /\ Coordinate(w) /\ b \in LonTexts(w)
  OBVIOUS
<1> HIDE DEF v, w
<1>4. LatReads(a, v)
  <2>1. CASE v.kind = "number"
    <3>1. v.at \in Int /\ a = Where!AsText(v.at, 2, "N", "S")
      BY <1>3, <2>1 DEF Coordinate, LatTexts, Where!decimal_lat_to_aprs
    <3> QED BY <2>1, <3>1, LatNumber
  <2>2. CASE v.kind = "aprs"
    <3>1. v.text.deg \in Nat /\ v.text.min \in Nat /\ a = v.text
      BY <1>3, <2>2 DEF Coordinate, LatTexts
    <3> QED BY <2>2, <3>1, TextReads
  <2> QED BY <1>3, <2>1, <2>2 DEF LatTexts
<1>5. LonReads(b, w)
  <2>1. CASE w.kind = "number"
    <3>1. w.at \in Int /\ b = Where!AsText(w.at, 3, "E", "W")
      BY <1>3, <2>1 DEF Coordinate, LonTexts, Where!decimal_lon_to_aprs
    <3> QED BY <2>1, <3>1, LonNumber
  <2>2. CASE w.kind = "aprs"
    <3>1. w.text.deg \in Nat /\ w.text.min \in Nat /\ b = w.text
      BY <1>3, <2>2 DEF Coordinate, LonTexts
    <3> QED BY <2>2, <3>1, TextReads
  <2> QED BY <1>3, <2>1, <2>2 DEF LonTexts
<1> QED BY <1>2, <1>4, <1>5 DEF v, w

\* What the parser makes of all that it found, and the places in that.
Chosen(found) == IF found = {} THEN Where!Unknown ELSE CHOOSE d \in found : TRUE
Spots(found)  == {[lat |-> d.lat, lon |-> d.lon] : d \in found}
Single(found) ==
    /\ \A d, e \in found : d = e
    /\ \A d \in found : d.type \in {"position", "object", "item"}

LEMMA ChosenPlace == ASSUME NEW found, Single(found) PROVE Where!PlaceOf(Chosen(found)) = Spots(found)
<1>1. CASE found = {}
  <2>1. Chosen(found) = [type |-> "unknown"]
    BY <1>1 DEF Chosen, Where!Unknown
  <2>2. Spots(found) = {}
    BY <1>1 DEF Spots
  <2> QED BY <2>1, <2>2 DEF Where!PlaceOf
<1>2. CASE found # {}
  <2>1. PICK d \in found : TRUE
    BY <1>2
  <2>2. found = {d} /\ d.type \in {"position", "object", "item"}
    BY <2>1 DEF Single
  <2>3. Chosen(found) = d
    <3>1. (CHOOSE x \in found : TRUE) \in found
      BY <1>2
    <3> QED BY <1>2, <2>2, <3>1 DEF Chosen
  <2>4. Spots(found) = {[lat |-> d.lat, lon |-> d.lon]}
    BY <2>2 DEF Spots
  <2> QED BY <2>2, <2>3, <2>4 DEF Where!PlaceOf
<1> QED BY <1>1, <1>2

PlainSpots(body) ==
    {[lat |-> Where!Angle(a, Where!Degree), lon |-> Where!Angle(b, Where!Degree)]
        : a \in Where!parse_latitude(body.lat), b \in Where!parse_longitude(body.lon)}

LEMMA OneAngle ==
    ASSUME NEW t
    PROVE  /\ \A a, b \in Where!parse_latitude(t) : a = b
           /\ \A a, b \in Where!parse_longitude(t) : a = b
<1>1. ASSUME NEW width, NEW most, NEW plus, NEW minus, NEW a \in Where!AngleOf(t, width, most, plus, minus),
             NEW b \in Where!AngleOf(t, width, most, plus, minus)
      PROVE  a = b
  <2> DEFINE v == t.deg * Where!Degree + 3 * t.min
             refused == t.width # width \/ t.deg > most \/ t.min >= 6000 \/ t.hem \notin {plus, minus}
  <2>1. Where!AngleOf(t, width, most, plus, minus) = IF refused THEN {} ELSE {IF t.hem = plus THEN v ELSE -v}
    BY DEF Where!AngleOf
  <2> HIDE DEF v, refused
  <2> QED BY <1>1, <2>1
<1> QED BY <1>1 DEF Where!parse_latitude, Where!parse_longitude

LEMMA PlainIs ==
    ASSUME NEW type \in {"position", "object", "item"}, NEW live, NEW body, NEW comment
    PROVE  /\ Single(Where!PlainPlace(type, live, body, comment))
           /\ Spots(Where!PlainPlace(type, live, body, comment)) = PlainSpots(body)
<1> DEFINE A == Where!parse_latitude(body.lat)
           B == Where!parse_longitude(body.lon)
           P(a, b) == Where!Place(type, live, Where!Angle(a, Where!Degree), Where!Angle(b, Where!Degree), comment)
           found == Where!PlainPlace(type, live, body, comment)
<1>1. found = {P(a, b) : a \in A, b \in B}
  BY DEF Where!PlainPlace
<1>2. (\A a, b \in A : a = b) /\ (\A a, b \in B : a = b)
  BY OneAngle
<1>3. \A a, b : /\ P(a, b).type = type /\ P(a, b).lat = Where!Angle(a, Where!Degree)
                /\ P(a, b).lon = Where!Angle(b, Where!Degree)
  BY DEF Where!Place
<1> HIDE DEF A, B, P, found
<1>4. Single(found)
  <2>1. \A d \in found : \E a \in A, b \in B : d = P(a, b)
    BY <1>1
  <2>2. \A d, e \in found : d = e
    BY <1>2, <2>1
  <2>3. \A d \in found : d.type = type
    BY <1>3, <2>1
  <2> QED BY <2>2, <2>3 DEF Single
<1>5. Spots(found) = {[lat |-> P(a, b).lat, lon |-> P(a, b).lon] : a \in A, b \in B}
  BY <1>1 DEF Spots
<1>6. Spots(found) = PlainSpots(body)
  BY <1>3, <1>5 DEF PlainSpots, A, B
<1> QED BY <1>4, <1>6 DEF found

PackedSpots(body) ==
    {[lat |-> Where!Angle(90 * 380926 - v, 380926), lon |-> Where!Angle(w - 180 * 190463, 190463)]
        : v \in Where!decode_base91_4(body.lat), w \in Where!decode_base91_4(body.lon)}

LEMMA PackedIs ==
    ASSUME NEW body, NEW n
    PROVE  /\ Single(Where!try_parse_compressed(body, n))
           /\ Spots(Where!try_parse_compressed(body, n)) = PackedSpots(body)
<1> DEFINE A == Where!decode_base91_4(body.lat)
           B == Where!decode_base91_4(body.lon)
           F(v) == Where!Angle(90 * 380926 - v, 380926)
           G(w) == Where!Angle(w - 180 * 190463, 190463)
           P(v, w) == Where!Place("position", TRUE, F(v), G(w), n > 13)
           found == Where!try_parse_compressed(body, n)
<1>1. found = {P(v, w) : v \in A, w \in B}
  BY DEF Where!try_parse_compressed
<1>2. \A d : \A v, w \in Where!decode_base91_4(d) : v = w
  BY DEF Where!decode_base91_4
<1> HIDE DEF F, G
<1>3. \A v, w : P(v, w).type = "position" /\ P(v, w).lat = F(v) /\ P(v, w).lon = G(w)
  BY DEF Where!Place
<1>7. PackedSpots(body) = {[lat |-> F(v), lon |-> G(w)] : v \in A, w \in B}
  BY DEF PackedSpots, F, G
<1>8. (\A a, b \in A : a = b) /\ (\A a, b \in B : a = b)
  BY <1>2
<1> HIDE DEF A, B, P, found
<1>4. Single(found)
  <2>1. \A d \in found : \E a \in A, b \in B : d = P(a, b)
    BY <1>1
  <2>2. \A d, e \in found : d = e
    BY <1>8, <2>1
  <2>3. \A d \in found : d.type = "position"
    BY <1>3, <2>1
  <2> QED BY <2>2, <2>3 DEF Single
<1>5. Spots(found) = {[lat |-> P(a, b).lat, lon |-> P(a, b).lon] : a \in A, b \in B}
  BY <1>1 DEF Spots
<1>6. Spots(found) = PackedSpots(body)
  BY <1>3, <1>5, <1>7
<1> QED BY <1>4, <1>6 DEF found

PositionSpots(body, n) ==
    IF body.form = "compressed" /\ body.tried /\ n >= 10 THEN PackedSpots(body)
    ELSE IF body.form = "plain" /\ n >= 19 THEN PlainSpots(body)
    ELSE {}

LEMMA NothingIs == Single({}) /\ Spots({}) = {}
  BY DEF Single, Spots

LEMMA PositionIs ==
    ASSUME NEW body, NEW n
    PROVE  Single(Where!PositionIn(body, n)) /\ Spots(Where!PositionIn(body, n)) = PositionSpots(body, n)
<1> DEFINE c == body.form = "compressed" /\ body.tried /\ n >= 10
           d == body.form = "plain" /\ n >= 19
<1>1. Where!PositionIn(body, n) = CASE c -> Where!try_parse_compressed(body, n)
                                    [] d -> Where!PlainPlace("position", TRUE, body, n > 19)
                                    [] OTHER -> {}
  BY DEF Where!PositionIn
<1>2. ~(c /\ d)
  OBVIOUS
<1>3. PositionSpots(body, n) = IF c THEN PackedSpots(body) ELSE IF d THEN PlainSpots(body) ELSE {}
  BY DEF PositionSpots
<1> HIDE DEF c, d
<1>4. CASE c
  BY <1>1, <1>2, <1>3, <1>4, PackedIs
<1>5. CASE ~c /\ d
  BY <1>1, <1>3, <1>5, PlainIs
<1>6. CASE ~c /\ ~d
  BY <1>1, <1>3, <1>6, NothingIs
<1> QED BY <1>4, <1>5, <1>6

ObjectSpots(p) ==
    IF p.len < 37 \/ p.mark \notin {"*", "_"} \/ p.body.form # "plain" THEN {} ELSE PlainSpots(p.body)
ItemSpots(p) ==
    IF p.at \notin 1 .. Where!Min({p.len, 10}) - 1 \/ p.len - (p.at + 1) < 19 \/ p.body.form # "plain"
    THEN {} ELSE PlainSpots(p.body)

LEMMA ObjectIs == ASSUME NEW p PROVE Single(Where!parse_object(p)) /\ Spots(Where!parse_object(p)) = ObjectSpots(p)
<1> DEFINE c == p.len < 37 \/ p.mark \notin {"*", "_"} \/ p.body.form # "plain"
           l == p.mark = "*"
           b == p.body
<1>1. Where!parse_object(p) = IF c THEN {} ELSE Where!PlainPlace("object", l, b, FALSE)
  BY DEF Where!parse_object
<1>2. ObjectSpots(p) = IF c THEN {} ELSE PlainSpots(b)
  BY DEF ObjectSpots
<1> HIDE DEF c, l, b
<1> QED BY <1>1, <1>2, PlainIs, NothingIs

LEMMA ItemIs == ASSUME NEW p PROVE Single(Where!parse_item(p)) /\ Spots(Where!parse_item(p)) = ItemSpots(p)
<1> DEFINE c == p.at \notin 1 .. Where!Min({p.len, 10}) - 1 \/ p.len - (p.at + 1) < 19 \/ p.body.form # "plain"
           l == p.mark = "!"
           b == p.body
<1>1. Where!parse_item(p) = IF c THEN {} ELSE Where!PlainPlace("item", l, b, FALSE)
  BY DEF Where!parse_item
<1>2. ItemSpots(p) = IF c THEN {} ELSE PlainSpots(b)
  BY DEF ItemSpots
<1> HIDE DEF c, l, b
<1> QED BY <1>1, <1>2, PlainIs, NothingIs

\* The place in a payload: what extract_position makes of it, uncut.
SpotsIn(p) ==
    IF p.len = 0 THEN {}
    ELSE IF p.dti \in {"!", "="} THEN PositionSpots(p.body, p.len - 1)
    ELSE IF p.dti \in {"/", "@"} THEN PositionSpots(p.body, p.len - 8)
    ELSE IF p.dti = ";" THEN ObjectSpots(p)
    ELSE IF p.dti = ")" THEN ItemSpots(p)
    ELSE {}

LEMMA MessageIs == ASSUME NEW p PROVE Where!PlaceOf(Chosen(Where!parse_message(p))) = {}
<1> DEFINE m == [type |-> "message", numbered |-> p.id = "some"]
<1>1. Where!parse_message(p) = {} \/ Where!parse_message(p) = {m}
  BY DEF Where!parse_message
<1>2. m.type = "message"
  OBVIOUS
<1> HIDE DEF m
<1>3. Chosen({m}) = m /\ Chosen({}) = Where!Unknown
  <2>1. (CHOOSE d \in {m} : TRUE) = m
    OBVIOUS
  <2> QED BY <2>1 DEF Chosen
<1>4. Where!Unknown.type = "unknown"
  BY DEF Where!Unknown
<1> QED BY <1>1, <1>2, <1>3, <1>4 DEF Where!PlaceOf

LEMMA ParsedIs == ASSUME NEW p PROVE Where!PlaceOf(Where!parse_aprs(p)) = SpotsIn(p)
<1> DEFINE arms == CASE p.dti \in {"!", "="}  -> Where!parse_position(p)
                     [] p.dti \in {"/", "@"}  -> Where!parse_position_with_timestamp(p)
                     [] p.dti = ":"           -> Where!parse_message(p)
                     [] p.dti = ";"           -> Where!parse_object(p)
                     [] p.dti = ")"           -> Where!parse_item(p)
                     [] OTHER                 -> {}
           found == IF p.len = 0 THEN {} ELSE arms
<1>1. Where!parse_aprs(p) = Chosen(found)
  BY DEF Where!parse_aprs, Chosen
<1>2. ASSUME NEW some, found = some, Single(some), Spots(some) = SpotsIn(p)
      PROVE  Where!PlaceOf(Where!parse_aprs(p)) = SpotsIn(p)
  <2> HIDE DEF found
  <2> QED BY <1>1, <1>2, ChosenPlace
<1>3. CASE p.len = 0
  BY <1>2, <1>3, NothingIs DEF SpotsIn
<1>4. CASE p.len # 0 /\ p.dti \in {"!", "="}
  <2>1. found = Where!PositionIn(p.body, p.len - 1)
    BY <1>4 DEF Where!parse_position
  <2>2. SpotsIn(p) = PositionSpots(p.body, p.len - 1)
    BY <1>4 DEF SpotsIn
  <2> QED BY <1>2, <2>1, <2>2, PositionIs
<1>5. CASE p.len # 0 /\ p.dti \in {"/", "@"}
  <2>1. found = Where!PositionIn(p.body, p.len - 8)
    BY <1>5 DEF Where!parse_position_with_timestamp
  <2>2. SpotsIn(p) = PositionSpots(p.body, p.len - 8)
    BY <1>5 DEF SpotsIn
  <2> QED BY <1>2, <2>1, <2>2, PositionIs
<1>6. CASE p.len # 0 /\ p.dti = ":"
  <2>1. found = Where!parse_message(p)
    BY <1>6
  <2>2. SpotsIn(p) = {}
    BY <1>6 DEF SpotsIn
  <2> HIDE DEF found
  <2> QED BY <1>1, <2>1, <2>2, MessageIs
<1>7. CASE p.len # 0 /\ p.dti = ";"
  <2>1. found = Where!parse_object(p)
    BY <1>7
  <2>2. SpotsIn(p) = ObjectSpots(p)
    BY <1>7 DEF SpotsIn
  <2> QED BY <1>2, <2>1, <2>2, ObjectIs
<1>8. CASE p.len # 0 /\ p.dti = ")"
  <2>1. found = Where!parse_item(p)
    BY <1>8
  <2>2. SpotsIn(p) = ItemSpots(p)
    BY <1>8 DEF SpotsIn
  <2> QED BY <1>2, <2>1, <2>2, ItemIs
<1>9. CASE p.len # 0 /\ p.dti \notin {"!", "=", "/", "@", ":", ";", ")"}
  <2>1. found = {}
    BY <1>9
  <2>2. SpotsIn(p) = {}
    BY <1>9 DEF SpotsIn
  <2> QED BY <1>2, <2>1, <2>2, NothingIs
<1> QED BY <1>3, <1>4, <1>5, <1>6, <1>7, <1>8, <1>9

LEMMA UpToTen == ASSUME NEW n \in Nat PROVE Where!Min({n, 10}) = IF n <= 10 THEN n ELSE 10
<1> DEFINE S == {n, 10}
           m == IF n <= 10 THEN n ELSE 10
<1>1. m \in S /\ \A i \in S : m <= i
  OBVIOUS
<1>2. S \subseteq Nat
  OBVIOUS
<1> HIDE DEF S, m
<1>3. Where!Min(S) \in S /\ \A j \in S : Where!Min(S) <= j
  BY <1>1 DEF Where!Min
<1>4. Where!Min(S) \in Nat /\ m \in Nat /\ Where!Min(S) <= m /\ m <= Where!Min(S)
  BY <1>1, <1>2, <1>3
<1>5. Where!Min(S) = m
  BY <1>4
<1> QED BY <1>5 DEF S, m

\* A payload that is cut says no other place, and says the same if nothing is
\* cut off.
LEMMA Shorter ==
    ASSUME NEW p, NEW q, q.dti = p.dti, q.body = p.body, q.mark = p.mark, q.at = p.at,
           p.len \in Nat, q.len \in Nat, p.at \in Nat
    PROVE  /\ q.len <= p.len => SpotsIn(q) \subseteq SpotsIn(p)
           /\ q.len = p.len => SpotsIn(q) = SpotsIn(p)
<1> DEFINE b == p.body
           k == p.len
           n == q.len
<1>1. k \in Nat /\ n \in Nat
  OBVIOUS
<1> HIDE DEF b, k, n
<1>2. ASSUME NEW i \in Int, NEW j \in Int, i <= j PROVE PositionSpots(b, i) \subseteq PositionSpots(b, j)
  <2>1. (i >= 10 => j >= 10) /\ (i >= 19 => j >= 19)
    BY <1>2
  <2>2. CASE b.form = "compressed"
    BY <2>1, <2>2 DEF PositionSpots
  <2>3. CASE b.form # "compressed"
    BY <2>1, <2>3 DEF PositionSpots
  <2> QED BY <2>2, <2>3
<1>3. ASSUME n <= k PROVE ObjectSpots(q) \subseteq ObjectSpots(p)
  <2>1. n < 37 \/ ~(k < 37)
    BY <1>1, <1>3
  <2> QED BY <2>1 DEF ObjectSpots, n, k
<1>4. ASSUME n <= k PROVE ItemSpots(q) \subseteq ItemSpots(p)
  <2> DEFINE a == p.at
             mn == Where!Min({n, 10})
             mk == Where!Min({k, 10})
  <2>0. a \in Nat
    OBVIOUS
  <2>1. mn \in Nat /\ mk \in Nat /\ mn <= mk
    BY <1>1, <1>4, UpToTen
  <2> HIDE DEF a, mn, mk
  <2>2. a \in 1 .. mn - 1 => a \in 1 .. mk - 1
    BY <2>0, <2>1
  <2>3. n - (a + 1) < 19 \/ ~(k - (a + 1) < 19)
    BY <1>1, <1>4, <2>0
  <2>4. ItemSpots(q) = IF a \notin 1 .. mn - 1 \/ n - (a + 1) < 19 \/ p.body.form # "plain" THEN {} ELSE PlainSpots(p.body)
    BY DEF ItemSpots, a, mn, n
  <2>5. ItemSpots(p) = IF a \notin 1 .. mk - 1 \/ k - (a + 1) < 19 \/ p.body.form # "plain" THEN {} ELSE PlainSpots(p.body)
    BY DEF ItemSpots, a, mk, k
  <2> QED BY <2>2, <2>3, <2>4, <2>5
<1>5. ASSUME n <= k PROVE SpotsIn(q) \subseteq SpotsIn(p)
  <2>1. n = 0 \/ k # 0
    BY <1>1, <1>5
  <2>2. n - 1 \in Int /\ k - 1 \in Int /\ n - 1 <= k - 1 /\ n - 8 \in Int /\ k - 8 \in Int /\ n - 8 <= k - 8
    BY <1>1, <1>5
  <2>3. PositionSpots(b, n - 1) \subseteq PositionSpots(b, k - 1) /\ PositionSpots(b, n - 8) \subseteq PositionSpots(b, k - 8)
    BY <1>2, <2>2
  <2>4. ObjectSpots(q) \subseteq ObjectSpots(p) /\ ItemSpots(q) \subseteq ItemSpots(p)
    BY <1>3, <1>4, <1>5
  <2> DEFINE Pick(l, x, y, o, i) ==
               IF l = 0 THEN {}
               ELSE IF p.dti \in {"!", "="} THEN x ELSE IF p.dti \in {"/", "@"} THEN y
               ELSE IF p.dti = ";" THEN o ELSE IF p.dti = ")" THEN i ELSE {}
  <2>5. SpotsIn(q) = Pick(n, PositionSpots(b, n - 1), PositionSpots(b, n - 8), ObjectSpots(q), ItemSpots(q))
    BY DEF SpotsIn, b, n
  <2>6. SpotsIn(p) = Pick(k, PositionSpots(b, k - 1), PositionSpots(b, k - 8), ObjectSpots(p), ItemSpots(p))
    BY DEF SpotsIn, b, k
  <2> QED BY <2>1, <2>3, <2>4, <2>5, <2>6
<1>6. ASSUME n = k PROVE SpotsIn(q) = SpotsIn(p)
  BY <1>6 DEF SpotsIn, ObjectSpots, ItemSpots, n, k
<1> QED BY <1>5, <1>6 DEF n, k

\* What the dashboard makes of a report as the two converters write it.
LEMMA ReportRead ==
    ASSUME NEW p, NEW symbol, NEW comment \in Nat
    PROVE  LET found == Where!extract_position(Where!Report(p, symbol, comment))
           IN  /\ found \subseteq PlainSpots(p)
               /\ symbol # ":" => found = PlainSpots(p)
<1> DEFINE r == Where!Report(p, symbol, comment)
           c == IF symbol = ":" THEN 19 ELSE IF comment = 0 THEN 40 ELSE 20 + comment
           q == Where!ToColon(r)
           body == [form |-> "plain", lat |-> p.lat, lon |-> p.lon]
<1>1. r = [dti |-> "!", len |-> 40, wide |-> {}, colon |-> c, body |-> body]
  BY DEF Where!Report
<1> HIDE DEF r, c, body
<1>2. q.dti = "!" /\ q.len = c /\ q.body = body
  <2>1. q = [r EXCEPT !.len = r.colon]
    BY DEF Where!ToColon
  <2>2. r.colon = c /\ r.dti = "!" /\ r.body = body /\ {"dti", "len", "body"} \subseteq DOMAIN r
    BY <1>1
  <2> HIDE DEF q
  <2> QED BY <2>1, <2>2
<1> HIDE DEF q
<1>3. SpotsIn(q) = IF c = 0 THEN {} ELSE PositionSpots(body, c - 1)
  BY <1>2 DEF SpotsIn
<1>4. PositionSpots(body, c - 1) = IF c - 1 >= 19 THEN PlainSpots(body) ELSE {}
  BY DEF PositionSpots, body
<1>5. PlainSpots(body) = PlainSpots(p)
  BY DEF PlainSpots, body
<1>6. symbol # ":" => c # 0 /\ c - 1 >= 19
  BY DEF c
<1>7. Where!extract_position(r) = SpotsIn(q)
  BY ParsedIs DEF Where!extract_position, q
<1> QED BY <1>3, <1>4, <1>5, <1>6, <1>7 DEF r

\* Where a line is from, and that what is shown is read from it.
FromConfig ==
    /\ place.raw \in Locations
    /\ IF readable THEN \E p \in Where!LocationOf(place.raw), n \in Comments : line = Where!Report(p, place.symbol, n)
       ELSE Where!LocationOf(place.raw) = {} /\ line = <<>>
FromDprs ==
    \E point \in Points, n \in Comments :
        /\ place.raw = [lat |-> [kind |-> "number", at |-> point.lat], lon |-> [kind |-> "number", at |-> point.lon]]
        /\ place.symbol = ">" /\ line = Where!Report(Where!DprsPlace(point.lat, point.lon), ">", n)
FromAir == \E r \in Reports : place.meant = r.meant /\ line = r.payload
PlaceInv ==
    /\ place.from \in {"nowhere", "config", "dprs", "air"}
    /\ place.from = "nowhere" => line = <<>>
    /\ place.from = "config" => FromConfig
    /\ place.from = "dprs" => FromDprs
    /\ place.from = "air" => FromAir
    /\ line = <<>> => shown = {}
    /\ \A s \in shown : s.found = Where!extract_position(line)

LEMMA PlaceInitially == ASSUME Where!Init PROVE PlaceInv
<1>1. place = [from |-> "nowhere"] /\ line = <<>> /\ shown = {}
  BY DEF Where!Init
<1>2. place.from = "nowhere"
  BY <1>1
<1> QED BY <1>1, <1>2 DEF PlaceInv

LEMMA PlaceStep == ASSUME PlaceInv, Where!Next PROVE PlaceInv'
<1>1. ASSUME NEW raw \in Locations, NEW symbol, NEW n \in Comments, Where!BeaconLine(raw, symbol, n) PROVE PlaceInv'
  <2> DEFINE found == Where!LocationOf(raw)
             p == CHOOSE q \in found : TRUE
             written == Where!Report(p, symbol, n)
  <2>1. /\ line = <<>> /\ shown' = shown /\ place' = [from |-> "config", raw |-> raw, symbol |-> symbol]
        /\ readable' = (found # {}) /\ line' = IF found = {} THEN <<>> ELSE written
    BY <1>1 DEF Where!BeaconLine
  <2>2. place'.from = "config" /\ place'.raw = raw /\ place'.symbol = symbol
    BY <2>1
  <2>3. found # {} => p \in found
    OBVIOUS
  <2>4. shown' = {}
    BY <2>1 DEF PlaceInv
  <2> HIDE DEF p
  <2>5. FromConfig'
    BY <2>1, <2>2, <2>3 DEF FromConfig
  <2> QED BY <2>2, <2>4, <2>5 DEF PlaceInv
<1>2. ASSUME NEW point \in Points, NEW n \in Comments, Where!DprsLine(point, n) PROVE PlaceInv'
  <2> DEFINE raw == [lat |-> [kind |-> "number", at |-> point.lat], lon |-> [kind |-> "number", at |-> point.lon]]
             written == Where!Report(Where!DprsPlace(point.lat, point.lon), ">", n)
  <2>1. line = <<>> /\ shown' = shown /\ place' = [from |-> "dprs", raw |-> raw, symbol |-> ">"] /\ line' = written
    BY <1>2 DEF Where!DprsLine
  <2> HIDE DEF raw, written
  <2>2. place'.from = "dprs" /\ place'.raw = raw /\ place'.symbol = ">"
    BY <2>1
  <2>3. shown' = {}
    BY <2>1 DEF PlaceInv
  <2>4. FromDprs'
    BY <2>1, <2>2 DEF FromDprs, raw, written
  <2> QED BY <2>2, <2>3, <2>4 DEF PlaceInv
<1>3. ASSUME NEW r \in Reports, Where!OtherLine(r) PROVE PlaceInv'
  <2>1. line = <<>> /\ shown' = shown /\ place' = [from |-> "air", meant |-> r.meant] /\ line' = r.payload
    BY <1>3 DEF Where!OtherLine
  <2>2. place'.from = "air" /\ place'.meant = r.meant
    BY <2>1
  <2>3. shown' = {}
    BY <2>1 DEF PlaceInv
  <2>4. FromAir'
    BY <2>1, <2>2 DEF FromAir
  <2> QED BY <2>2, <2>3, <2>4 DEF PlaceInv
<1>4. ASSUME Where!Show PROVE PlaceInv'
  <2>1. line # <<>> /\ UNCHANGED <<place, line, readable>>
    BY <1>4 DEF Where!Show
  <2>2. shown' \subseteq {[found |-> Where!extract_position(line)]}
    BY <1>4 DEF Where!Show
  <2>3. \A s \in shown' : s.found = Where!extract_position(line)
    BY <2>2
  <2>4. (FromConfig => FromConfig') /\ (FromDprs => FromDprs') /\ (FromAir => FromAir')
    BY <2>1 DEF FromConfig, FromDprs, FromAir
  <2> QED BY <2>1, <2>3, <2>4 DEF PlaceInv
<1> QED BY <1>1, <1>2, <1>3, <1>4 DEF Where!Next

\* What PlaceKept says of a place of one's own: near what is meant, and there if
\* that is sound.
Kept(found, raw, symbol) ==
    /\ \A f \in found : \A axis \in {"lat", "lon"} :
          /\ f[axis].per = Where!Degree
          /\ Where!Magnitude(f[axis].n - Where!Meaning(raw[axis])) <= 1
    /\ ( /\ Where!Sound(raw.lat, 2, 90, {"N", "S"})
         /\ Where!Sound(raw.lon, 3, 180, {"E", "W"})
         /\ symbol # ":" ) => found # {}

LEMMA SpotsKept ==
    ASSUME NEW p, NEW raw, LatReads(p.lat, raw.lat), LonReads(p.lon, raw.lon), NEW symbol, NEW n \in Nat
    PROVE  Kept(Where!extract_position(Where!Report(p, symbol, n)), raw, symbol)
<1> DEFINE found == Where!extract_position(Where!Report(p, symbol, n))
<1>1. found \subseteq PlainSpots(p) /\ (symbol # ":" => found = PlainSpots(p))
  BY ReportRead
<1> HIDE DEF found
<1>2. ASSUME NEW f \in found
      PROVE  /\ f["lat"].per = Where!Degree /\ Where!Magnitude(f["lat"].n - Where!Meaning(raw["lat"])) <= 1
             /\ f["lon"].per = Where!Degree /\ Where!Magnitude(f["lon"].n - Where!Meaning(raw["lon"])) <= 1
  <2>1. PICK a \in Where!parse_latitude(p.lat), b \in Where!parse_longitude(p.lon) :
            f = [lat |-> Where!Angle(a, Where!Degree), lon |-> Where!Angle(b, Where!Degree)]
    BY <1>1 DEF PlainSpots
  <2>2. /\ f["lat"].per = Where!Degree /\ f["lat"].n = a
        /\ f["lon"].per = Where!Degree /\ f["lon"].n = b
    BY <2>1 DEF Where!Angle
  <2>3. Near(a, Where!Meaning(raw.lat)) /\ Near(b, Where!Meaning(raw.lon))
    BY DEF LatReads, LonReads
  <2> QED BY <2>2, <2>3 DEF Near
<1>3. ASSUME Where!Sound(raw.lat, 2, 90, {"N", "S"}), Where!Sound(raw.lon, 3, 180, {"E", "W"}), symbol # ":"
      PROVE  found # {}
  <2>1. PICK a \in Where!parse_latitude(p.lat), b \in Where!parse_longitude(p.lon) : TRUE
    BY <1>3 DEF LatReads, LonReads
  <2>2. [lat |-> Where!Angle(a, Where!Degree), lon |-> Where!Angle(b, Where!Degree)] \in PlainSpots(p)
    BY DEF PlainSpots
  <2> QED BY <1>1, <1>3, <2>2
<1> QED BY <1>2, <1>3 DEF Kept, found

\* A location that is refused.
LEMMA Refused ==
    ASSUME NEW raw, Coordinate(raw.lat), Coordinate(raw.lon), Where!LocationOf(raw) = {}
    PROVE  \/ raw.lat.kind = "other" \/ raw.lon.kind = "other"
           \/ Where!Magnitude(Where!Meaning(raw.lat)) > 90 * Where!Degree
           \/ Where!Magnitude(Where!Meaning(raw.lon)) > 180 * Where!Degree
<1>1. LatTexts(raw.lat) = {} \/ LonTexts(raw.lon) = {}
  <2> SUFFICES ASSUME NEW a \in LatTexts(raw.lat), NEW b \in LonTexts(raw.lon) PROVE FALSE
    OBVIOUS
  <2>1. [lat |-> a, lon |-> b] \in LocationTexts(raw)
    BY DEF LocationTexts
  <2> QED BY <2>1, LocationIs
<1>2. ASSUME NEW x \in Int, NEW k \in Nat PROVE Where!Magnitude(x) \in Nat /\ k * Where!Degree \in Nat
  BY DegreeIs DEF Where!Magnitude
<1>3. ASSUME NEW v, Coordinate(v), LatTexts(v) = {}, v.kind # "other"
      PROVE  Where!Magnitude(Where!Meaning(v)) > 90 * Where!Degree
  <2>1. v.kind = "number" /\ v.at \in Int
    BY <1>3 DEF Coordinate, LatTexts
  <2>2. ~(Where!Magnitude(v.at) <= 90 * Where!Degree) => Where!Magnitude(v.at) > 90 * Where!Degree
    <3> DEFINE m == Where!Magnitude(v.at)
               most == 90 * Where!Degree
    <3>1. v.at \in Int /\ 90 \in Nat
      BY <2>1
    <3>2. m \in Nat /\ most \in Nat
      BY <1>2, <3>1
    <3> HIDE DEF m, most
    <3>3. ~(m <= most) => m > most
      BY <3>2
    <3> QED BY <3>3 DEF m, most
  <2>3. Where!decimal_lat_to_aprs(v.at) = {}
    BY <1>3, <2>1 DEF LatTexts
  <2>4. Where!Meaning(v) = v.at
    BY <2>1 DEF Where!Meaning
  <2> QED BY <2>2, <2>3, <2>4 DEF Where!decimal_lat_to_aprs
<1>4. ASSUME NEW v, Coordinate(v), LonTexts(v) = {}, v.kind # "other"
      PROVE  Where!Magnitude(Where!Meaning(v)) > 180 * Where!Degree
  <2>1. v.kind = "number" /\ v.at \in Int
    BY <1>4 DEF Coordinate, LonTexts
  <2>2. ~(Where!Magnitude(v.at) <= 180 * Where!Degree) => Where!Magnitude(v.at) > 180 * Where!Degree
    <3> DEFINE m == Where!Magnitude(v.at)
               most == 180 * Where!Degree
    <3>1. v.at \in Int /\ 180 \in Nat
      BY <2>1
    <3>2. m \in Nat /\ most \in Nat
      BY <1>2, <3>1
    <3> HIDE DEF m, most
    <3>3. ~(m <= most) => m > most
      BY <3>2
    <3> QED BY <3>3 DEF m, most
  <2>3. Where!decimal_lon_to_aprs(v.at) = {}
    BY <1>4, <2>1 DEF LonTexts
  <2>4. Where!Meaning(v) = v.at
    BY <2>1 DEF Where!Meaning
  <2> QED BY <2>2, <2>3, <2>4 DEF Where!decimal_lon_to_aprs
<1> QED BY <1>1, <1>3, <1>4

\* What the report of another station means is what a reader of all of it reads.
ReportsRead == \A r \in Reports : r.meant = Where!PlaceOf(Where!parse_aprs(r.payload))

LEMMA PlaceIsKept == ASSUME ReportsRead, PlaceInv PROVE Where!PlaceKept
<1>0. \A l \in Locations : Coordinate(l.lat) /\ Coordinate(l.lon)
  BY PlaceAssumption DEF Coordinate
<1>1. ASSUME place.from = "config", ~readable
      PROVE  \/ place.raw.lat.kind = "other" \/ place.raw.lon.kind = "other"
             \/ Where!Magnitude(Where!Meaning(place.raw.lat)) > 90 * Where!Degree
             \/ Where!Magnitude(Where!Meaning(place.raw.lon)) > 180 * Where!Degree
  <2>1. place.raw \in Locations /\ Where!LocationOf(place.raw) = {}
    BY <1>1 DEF PlaceInv, FromConfig
  <2> QED BY <1>0, <2>1, Refused
<1>2. ASSUME NEW s \in shown, place.from = "air"
      PROVE  s.found \subseteq place.meant /\ (line.colon >= line.len => s.found = place.meant)
  <2>1. PICK r \in Reports : place.meant = r.meant /\ line = r.payload
    BY <1>2 DEF PlaceInv, FromAir
  <2> DEFINE q == Where!ToColon(line)
  <2>2. /\ {"dti", "len", "colon", "mark", "at", "closed", "id", "body"} \subseteq DOMAIN line
        /\ line.len \in Nat /\ line.colon \in 0 .. line.len /\ line.at \in Nat
        /\ r.meant = Where!PlaceOf(Where!parse_aprs(line))
    BY <2>1, PlaceAssumption DEF ReportsRead
  <2>3. q.dti = line.dti /\ q.body = line.body /\ q.mark = line.mark /\ q.at = line.at /\ q.len = line.colon
    <3>1. q = [line EXCEPT !.len = line.colon]
      BY DEF Where!ToColon
    <3> HIDE DEF q
    <3> QED BY <2>2, <3>1
  <2>4. s.found = SpotsIn(q)
    <3>1. s.found = Where!extract_position(line)
      BY <1>2 DEF PlaceInv
    <3> QED BY <3>1, ParsedIs DEF Where!extract_position
  <2>5. place.meant = SpotsIn(line)
    BY <2>1, <2>2, ParsedIs
  <2> HIDE DEF q
  <2>6. q.len \in Nat /\ q.len <= line.len /\ (line.colon >= line.len => q.len = line.len)
    BY <2>2, <2>3
  <2> QED BY <2>2, <2>3, <2>4, <2>5, <2>6, Shorter
<1>3. ASSUME NEW s \in shown, place.from # "air" PROVE Kept(s.found, place.raw, place.symbol)
  <2>1. line # <<>> /\ s.found = Where!extract_position(line) /\ place.from \in {"config", "dprs"}
    BY <1>3 DEF PlaceInv
  <2>2. CASE place.from = "config"
    <3>1. PICK p \in Where!LocationOf(place.raw), n \in Comments : line = Where!Report(p, place.symbol, n)
      BY <2>1, <2>2 DEF PlaceInv, FromConfig
    <3>2. place.raw \in Locations /\ n \in Nat
      BY <2>2, PlaceAssumption DEF PlaceInv, FromConfig
    <3>3. LatReads(p.lat, place.raw.lat) /\ LonReads(p.lon, place.raw.lon)
      BY <1>0, <3>2, Configured
    <3> QED BY <2>1, <3>1, <3>2, <3>3, SpotsKept
  <2>3. CASE place.from = "dprs"
    <3> DEFINE Lat(point) == [kind |-> "number", at |-> point.lat]
               Lon(point) == [kind |-> "number", at |-> point.lon]
               Digits(x) == IF Where!Magnitude(x) >= 100 * Where!Degree THEN 3 ELSE 2
    <3>1. PICK point \in Points, n \in Comments :
              /\ place.raw = [lat |-> Lat(point), lon |-> Lon(point)]
              /\ place.symbol = ">" /\ line = Where!Report(Where!DprsPlace(point.lat, point.lon), ">", n)
      BY <2>3 DEF PlaceInv, FromDprs
    <3> DEFINE v == Lat(point)
               w == Lon(point)
               p == Where!DprsPlace(point.lat, point.lon)
    <3>2. point.lat \in Int /\ point.lon \in Int /\ n \in Nat
      BY PlaceAssumption
    <3>3. /\ v.kind = "number" /\ v.at = point.lat /\ w.kind = "number" /\ w.at = point.lon
          /\ place.raw.lat = v /\ place.raw.lon = w
      BY <3>1
    <3>4. /\ p.lat = Where!AsText(v.at, Digits(v.at), "N", "S")
          /\ p.lon = Where!AsText(w.at, 3, "E", "W")
      BY DEF Where!DprsPlace
    <3>5. Where!Magnitude(v.at) <= 90 * 18000 => Digits(v.at) = 2
      <4> DEFINE m == Where!Magnitude(v.at)
      <4>1. m \in Nat
        BY <3>2 DEF Where!Magnitude
      <4> HIDE DEF m
      <4>2. m <= 90 * 18000 => ~(m >= 100 * Where!Degree)
        BY <4>1, DegreeIs
      <4> QED BY <4>2 DEF m
    <3> HIDE DEF v, w, p, Digits
    <3>6. LatReads(p.lat, place.raw.lat)
      BY <3>2, <3>3, <3>4, <3>5, LatNumber
    <3>7. LonReads(p.lon, place.raw.lon)
      BY <3>2, <3>3, <3>4, LonNumber
    <3>8. Kept(Where!extract_position(Where!Report(p, ">", n)), place.raw, ">")
      BY <3>2, <3>6, <3>7, SpotsKept
    <3> QED BY <2>1, <3>1, <3>8 DEF p
  <2> QED BY <2>1, <2>2, <2>3
<1> QED BY <1>1, <1>2, <1>3 DEF Where!PlaceKept, Kept

-----------------------------------------------------------------------------
(* The components together: one takes a step, the others are left alone.     *)

LEMMA SumTells == SumInv => Sum!CheckTells
<1> SUFFICES ASSUME SumInv, ~open, check = <<>> PROVE sums = Sum!Residue(variant) <=> burst = 0
  BY DEF Sum!CheckTells
<1>1. variant \in SumKinds /\ reg \in Sums(variant) /\ Differs(variant, burst, before, Sum!SymDiff(sums, Expected))
  BY DEF SumInv
<1>2. Sum!Trailer(variant, reg) # <<>>
  BY <1>1 DEF Sum!Trailer, SumKinds
<1>3. Expected = Sum!Residue(variant)
  BY <1>2 DEF Expected
<1>4. burst = 0 <=> Sum!SymDiff(sums, Sum!Residue(variant)) = {}
  BY <1>1, <1>3 DEF Differs
<1> QED BY <1>4, DiffCancels

LEMMA AgwInitially == ASSUME Agw!Init PROVE AgwInv
  BY DEF Agw!Init, AgwInv

LEMMA LinkInitially == ASSUME Link!Init PROVE LinkInv
<1>1. <<>> \in Seq(CheckBytes)
  BY EmptyType
<1> QED BY <1>1 DEF Link!Init, LinkInv

LEMMA SumKept == ASSUME SumInv, UNCHANGED sumVars PROVE SumInv'
  BY DEF SumInv, sumVars, Expected

LEMMA LinkKept == ASSUME LinkInv, UNCHANGED linkVars PROVE LinkInv'
  BY DEF LinkInv, linkVars

LEMMA AgwKept == ASSUME AgwInv, UNCHANGED agwVars PROVE AgwInv'
  BY DEF AgwInv, agwVars

LEMMA LinesStay == ASSUME LinesInv, UNCHANGED reqVars PROVE LinesInv'
  BY DEF LinesInv, reqVars, Req!Reading, Req!Last, Behind

LEMMA PlaceStays == ASSUME PlaceInv, UNCHANGED placeVars PROVE PlaceInv'
<1>1. UNCHANGED <<place, line, readable, shown>>
  BY DEF placeVars
<1>2. (FromConfig => FromConfig') /\ (FromDprs => FromDprs') /\ (FromAir => FromAir')
  BY <1>1 DEF FromConfig, FromDprs, FromAir
<1> QED BY <1>1, <1>2 DEF PlaceInv

CodecsInv == IInv /\ SumInv /\ LinkInv /\ AgwInv /\ LinesInv /\ PlaceInv

LEMMA CodecsInitially == CodecsInit => CodecsInv
<1> SUFFICES ASSUME CodecsInit PROVE CodecsInv
  OBVIOUS
<1>1. Init /\ Sum!Init /\ Link!Init /\ Agw!Init /\ Req!Init /\ Where!Init
  BY DEF CodecsInit
<1> QED BY <1>1, Initially, SumInitially, LinkInitially, AgwInitially, LinesInitially, PlaceInitially DEF CodecsInv

LEMMA IdleKiss == ASSUME IInv, UNCHANGED vars PROVE IInv'
  BY Inductive

LEMMA CodecsInductive == ASSUME CodecsInv, [CodecsNext]_codecVars PROVE CodecsInv'
<1>1. IInv /\ SumInv /\ LinkInv /\ AgwInv /\ LinesInv /\ PlaceInv
  BY DEF CodecsInv
<1>2. CASE Framing
  <2>1. Next /\ UNCHANGED sumVars /\ UNCHANGED linkVars /\ UNCHANGED agwVars /\ UNCHANGED reqVars /\ UNCHANGED placeVars
    BY <1>2 DEF Framing
  <2> QED BY <1>1, <2>1, Inductive, SumKept, LinkKept, AgwKept, LinesStay, PlaceStays DEF CodecsInv
<1>3. CASE Checking
  <2>1. Sum!Next /\ UNCHANGED vars /\ UNCHANGED linkVars /\ UNCHANGED agwVars /\ UNCHANGED reqVars /\ UNCHANGED placeVars
    BY <1>3 DEF Checking
  <2> QED BY <1>1, <2>1, IdleKiss, SumStep, LinkKept, AgwKept, LinesStay, PlaceStays DEF CodecsInv
<1>4. CASE Linking
  <2>1. Link!Next /\ UNCHANGED vars /\ UNCHANGED sumVars /\ UNCHANGED agwVars /\ UNCHANGED reqVars /\ UNCHANGED placeVars
    BY <1>4 DEF Linking
  <2> QED BY <1>1, <2>1, IdleKiss, SumKept, LinkStep, AgwKept, LinesStay, PlaceStays DEF CodecsInv
<1>5. CASE Engine
  <2>1. Agw!Next /\ UNCHANGED vars /\ UNCHANGED sumVars /\ UNCHANGED linkVars /\ UNCHANGED reqVars /\ UNCHANGED placeVars
    BY <1>5 DEF Engine
  <2> QED BY <1>1, <2>1, IdleKiss, SumKept, LinkKept, AgwStep, LinesStay, PlaceStays DEF CodecsInv
<1>6. CASE Asking
  <2>1. Req!Next /\ UNCHANGED vars /\ UNCHANGED sumVars /\ UNCHANGED linkVars /\ UNCHANGED agwVars /\ UNCHANGED placeVars
    BY <1>6 DEF Asking
  <2> QED BY <1>1, <2>1, IdleKiss, SumKept, LinkKept, AgwKept, LinesStep, PlaceStays DEF CodecsInv
<1>7. CASE Placing
  <2>1. Where!Next /\ UNCHANGED vars /\ UNCHANGED sumVars /\ UNCHANGED linkVars /\ UNCHANGED agwVars /\ UNCHANGED reqVars
    BY <1>7 DEF Placing
  <2> QED BY <1>1, <2>1, IdleKiss, SumKept, LinkKept, AgwKept, LinesStay, PlaceStep DEF CodecsInv
<1>8. CASE UNCHANGED codecVars
  <2>1. /\ UNCHANGED vars /\ UNCHANGED sumVars /\ UNCHANGED linkVars /\ UNCHANGED agwVars /\ UNCHANGED reqVars
        /\ UNCHANGED placeVars
    BY <1>8 DEF codecVars
  <2> QED BY <1>1, <2>1, IdleKiss, SumKept, LinkKept, AgwKept, LinesStay, PlaceStays DEF CodecsInv
<1> QED BY <1>2, <1>3, <1>4, <1>5, <1>6, <1>7, <1>8 DEF CodecsNext

LEMMA CodecsInvariant == CodecsSpec => []CodecsInv
  BY CodecsInitially, CodecsInductive, PTL DEF CodecsSpec

\* The steps of the components together are, to KISS, steps of its own or none:
\* the theorem above is one of the program that the codec run checks.
THEOREM ProgramRecovers == CodecsSpec => Recovers
<1>1. CodecsInit => Init
  BY DEF CodecsInit
<1>2. ASSUME [CodecsNext]_codecVars PROVE [Next]_vars
  <2>1. CASE Framing
    BY <2>1 DEF Framing
  <2>2. CASE Checking \/ Linking \/ Engine \/ Asking \/ Placing
    BY <2>2 DEF Checking, Linking, Engine, Asking, Placing
  <2>3. CASE UNCHANGED codecVars
    BY <2>3 DEF codecVars
  <2> QED BY <1>2, <2>1, <2>2, <2>3 DEF CodecsNext
<1>3. CodecsSpec => Spec
  BY <1>1, <1>2, PTL DEF CodecsSpec, Spec
<1> QED BY <1>3, RecoveryCorrect, PTL

\* A frame that crosses the line intact passes the check at the far end, and one
\* that a burst has hit does not, whatever bytes it is made of, however long it
\* is, and whichever bits the burst inverts.
THEOREM CheckCorrect == CodecsSpec => []CheckTells
<1>1. CodecsInv => CheckTells
  BY SumTells DEF CodecsInv, CheckTells
<1> QED BY <1>1, CodecsInvariant, PTL

\* A frame of any bytes, on any number of links: where it is one, of each address
\* all characters but the spaces are read, in their order, and of its line all
\* bytes before the LF but the CRs; where it is none, nothing is read.
THEOREM FramesCorrect == CodecsSpec => []FramesKept
<1>1. CodecsInv => FramesKept
  BY LinkKeeps DEF CodecsInv, FramesKept
<1> QED BY <1>1, CodecsInvariant, PTL

\* A frame for the packet engine comes out as it went in, with data of any
\* length and as much of any callsigns as their fields hold.
THEOREM AgwpeCorrect == CodecsSpec => []AgwpeKept
<1>1. CodecsInv => AgwpeKept
  BY AgwKeeps DEF CodecsInv, AgwpeKept
<1> QED BY <1>1, CodecsInvariant, PTL

\* The lines of a request come out whole and in order, however long they are and
\* whichever parts they arrive in, up to the first that is none.
THEOREM LinesCorrect == CodecsSpec => []LinesKept
<1>1. CodecsInv => LinesKept
  BY LinesAreKept DEF CodecsInv, LinesKept
<1> QED BY <1>1, CodecsInvariant, PTL

\* What the dashboard shows of a line is the place that its sender meant, for
\* any places and any comments, and for any reports of other stations that
\* parse_aprs reads as they are meant: where extract_position ends them at a
\* colon, it finds nothing else in what is left.
THEOREM PlaceCorrect == ReportsRead => (CodecsSpec => []PlaceKept)
<1> SUFFICES ASSUME ReportsRead PROVE CodecsSpec => []PlaceKept
  OBVIOUS
<1>1. CodecsInv => PlaceKept
  BY PlaceIsKept DEF CodecsInv, PlaceKept
<1> QED BY <1>1, CodecsInvariant, PTL
=============================================================================
