---------------------------------- MODULE Crc ----------------------------------
(***************************************************************************)
(* The check bytes that kiss_encode appends in the variants SMACK, FlexNet  *)
(* and BPQCRC (src/src/kiss.rs), and the sums they are taken from           *)
(* (src/src/crc.rs).  A frame crosses a line byte by byte, on which one     *)
(* burst may fall, and the far end takes the sum over all that it gets.     *)
(* A number is the set of the places of its bits that are set: a byte has   *)
(* the places 0 to 7, a sum those up to 15.                                 *)
(***************************************************************************)
EXTENDS Integers, Sequences, FiniteSetsExt

CONSTANTS
    Data,      \* the bytes that frames are made of
    Errors,    \* the patterns by which a byte is garbled
    MaxData    \* bound: bytes in a frame

VARIABLES
    variant,   \* KissVariant
    reg,       \* the sender's sum over the bytes so far
    sums,      \* the receiver's
    open,      \* the data has not ended
    left,      \* bytes of it that can still follow
    check,     \* check bytes to be sent
    burst,     \* garbled bytes so far
    before     \* the byte before the next one was garbled

vars == <<variant, reg, sums, open, left, check, burst, before>>

-----------------------------------------------------------------------------
(* Numbers.  SymDiff is their exclusive or.                                  *)

Byte == SUBSET (0 .. 7)

Shr(c, n) == {i - n : i \in {j \in c : j >= n}}   \* c >> n
Low(c)    == c \cap 0 .. 7                          \* c & 0xFF
High(c)   == Shr(c, 8)
Shl(c)    == {i + 8 : i \in Low(c)}                 \* c << 8, of sixteen bits

(* crc.rs.  The tables are those of the reflected polynomials: an entry is   *)
(* its index shifted out bit by bit.                                         *)

Shift(c, poly)     == IF 0 \in c THEN SymDiff(Shr(c, 1), poly) ELSE Shr(c, 1)
ShiftTwo(c, poly)  == Shift(Shift(c, poly), poly)
ShiftFour(c, poly) == ShiftTwo(ShiftTwo(c, poly), poly)
Reflected(poly)    == [i \in Byte |-> ShiftFour(ShiftFour(i, poly), poly)]

CRC16_TABLE     == Reflected({15, 13, 0})   \* 0xA001
CRC_CCITT_TABLE == Reflected({15, 10, 3})   \* 0x8408
CRC_FLEX_TABLE  == [i \in Byte |-> SymDiff(CRC_CCITT_TABLE[i], 7 .. 11 \cup 0 .. 2)]   \* 0x0F87

crc16(c, b)    == SymDiff(High(c), CRC16_TABLE[SymDiff(Low(c), b)])
crc_flex(c, b) == SymDiff(Shl(c), CRC_FLEX_TABLE[SymDiff(High(c), b)])

-----------------------------------------------------------------------------
(* kiss_encode.                                                             *)

Step(v, c, b) == CASE v = "Smack"   -> crc16(c, b)
                   [] v = "FlexNet" -> crc_flex(c, b)
                   [] v = "BpqCrc"  -> SymDiff(c, b)

\* The command byte, which is 0, is part of the sum in SMACK and FlexNet only.
Start(v) == CASE v = "Smack"   -> crc16({}, {})
              [] v = "FlexNet" -> crc_flex(0 .. 15, {})
              [] v = "BpqCrc"  -> {}

\* Mutant: both bytes in the other order.
Swapped(v, c) == CASE v = "Smack"   -> <<High(c), Low(c)>>
                   [] v = "FlexNet" -> <<Low(c), High(c)>>
                   [] v = "BpqCrc"  -> <<c>>
Trailer(v, c) == CASE v = "Smack"   -> <<Low(c), High(c)>>
                   [] v = "FlexNet" -> <<High(c), Low(c)>>
                   [] v = "BpqCrc"  -> <<c>>

\* What the sum over a whole frame and its check bytes comes to: check_crc16
\* asks for 0; 0x7070 is from the tests of crc.rs.
Residue(v) == IF v = "FlexNet" THEN 12 .. 14 \cup 4 .. 6 ELSE {}

Init ==
    /\ variant \in {"Smack", "FlexNet", "BpqCrc"}
    /\ reg = Start(variant) /\ sums = reg
    /\ open = TRUE /\ left = MaxData /\ check = <<>> /\ burst = 0 /\ before = FALSE

\* The line: at most one burst, of two bytes in SMACK and of one in the others.
\* (FlexNet's sum misses seven bursts of two bytes, as 0x91 with 0x85.)
Line(b, e) ==
    /\ e # {} => burst = 0 \/ (before /\ burst = 1 /\ variant = "Smack")
    /\ burst' = IF e # {} THEN burst + 1 ELSE burst
    /\ before' = (e # {})
    /\ sums' = Step(variant, sums, SymDiff(b, e))
    /\ UNCHANGED variant

DataByte(b, e) ==
    /\ open /\ left > 0 /\ left' = left - 1
    /\ Line(b, e) /\ reg' = Step(variant, reg, b)
    /\ UNCHANGED <<open, check>>

EndOfData == open /\ open' = FALSE /\ check' = Trailer(variant, reg)
                  /\ UNCHANGED <<variant, reg, sums, left, burst, before>>

CheckByte(e) == check # <<>> /\ Line(Head(check), e) /\ check' = Tail(check)
                             /\ UNCHANGED <<reg, open, left>>

Next ==
    \/ \E b \in Data, e \in Errors \cup {{}} : DataByte(b, e)
    \/ EndOfData
    \/ \E e \in Errors \cup {{}} : CheckByte(e)

-----------------------------------------------------------------------------
\* A frame that crosses the line intact passes the check at the far end, and
\* one that a burst has hit, of two bytes in SMACK or of one in FlexNet and
\* BPQCRC, does not, whether the burst hits the data or the check bytes
\* themselves, and however many bytes follow it.
CheckTells == (~open /\ check = <<>>) => (sums = Residue(variant) <=> burst = 0)
=============================================================================
