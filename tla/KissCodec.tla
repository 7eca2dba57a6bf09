------------------------------ MODULE KissCodec ------------------------------
(***************************************************************************)
(* KISS framing (src/src/kiss.rs): one end encodes frames, the other end    *)
(* decodes what arrives, over a line that may lose, add or garble bytes.    *)
(* The decoder is fed byte by byte, so that it makes no difference how the  *)
(* stream is cut into reads, and a byte is taken to arrive when it is sent. *)
(* A frame is its command byte and its data, with the CRC that the variants *)
(* append, which the decoder does not look at.                              *)
(***************************************************************************)
EXTENDS Integers, Sequences

CONSTANTS
    Plain,      \* the bytes without a meaning of their own
    Frames,     \* frames to send
    MaxLen,     \* MAX_FRAME_LEN
    MaxFrames,  \* bound: frames sent
    MaxNoise    \* bound: bytes lost, added or garbled

Special == {"FEND", "FESC", "TFEND", "TFESC"}
Bytes   == Plain \cup Special

ASSUME CodecAssumption ==
    /\ Plain \cap Special = {}
    /\ MaxLen \in Nat /\ MaxFrames \in Nat /\ MaxNoise \in Nat
    \* The command byte is sent as it is; the interfaces send only 0x00.
    /\ Frames \subseteq Seq(Bytes)
    /\ \A f \in Frames : f # <<>> /\ f[1] \in Plain /\ Len(f) <= MaxLen

VARIABLES
    frame,    \* the frame being sent, <<>> between two frames
    pos,      \* the byte of it that is next: 0 and Len + 1 for the delimiters
    half,     \* the second byte of an escape is next
    sent,     \* frames begun
    mode,     \* the decoder's state
    buffer,   \* the decoder's buffer
    decoded,  \* the last frame the decoder returned since the last frame began
    noise,    \* history: disturbances so far
    clean     \* history: for how many frames, the current one included, the
              \* line has been undisturbed

sender  == <<frame, pos, half, sent>>
decoder == <<mode, buffer, decoded>>
vars    == <<sender, decoder, noise, clean>>

Init ==
    /\ frame = <<>> /\ pos = 0 /\ half = FALSE /\ sent = 0
    /\ mode = "SyncHunt" /\ buffer = <<>> /\ decoded = <<>>
    /\ noise = 0 /\ clean = 1

-----------------------------------------------------------------------------
(* KissDecoder::feed, for one byte.                                         *)

\* emit_frame.
Emit == decoded' = (IF buffer = <<>> THEN decoded ELSE buffer) /\ buffer' = <<>>

Hunt(b) ==
    /\ mode = "SyncHunt"
    /\ mode' = IF b = "FEND" THEN "Collecting" ELSE mode
    /\ buffer' = IF b = "FEND" THEN <<>> ELSE buffer
    /\ UNCHANGED decoded

Collect(b) ==
    /\ mode = "Collecting"
    /\ \/ b = "FEND" /\ Emit /\ UNCHANGED mode
       \/ b = "FESC" /\ mode' = "Escaped" /\ UNCHANGED <<buffer, decoded>>
       \/ /\ b \notin {"FEND", "FESC"}
          /\ IF Len(buffer) < MaxLen
             THEN buffer' = Append(buffer, b) /\ UNCHANGED mode
             ELSE buffer' = <<>> /\ mode' = "SyncHunt"
          /\ UNCHANGED decoded

Unescaped(b) == CASE b = "TFEND" -> <<"FEND">>
                  [] b = "TFESC" -> <<"FESC">>
                  [] OTHER       -> <<>>

\* Mutant: after an invalid escape the decoder waits for a valid one.
UnescapeInsists(b) ==
    /\ mode = "Escaped"
    /\ buffer' = buffer \o Unescaped(b)
    /\ mode' = IF Unescaped(b) = <<>> THEN "Escaped" ELSE "Collecting"
    /\ UNCHANGED decoded

\* Any byte ends the escape, a delimiter too, which is then lost.
Unescape(b) ==
    /\ mode = "Escaped"
    /\ buffer' = buffer \o Unescaped(b) /\ mode' = "Collecting"
    /\ UNCHANGED decoded

Feed(b) == Hunt(b) \/ Collect(b) \/ Unescape(b)

-----------------------------------------------------------------------------
(* kiss_encode, byte by byte.                                               *)

AtEnd == frame # <<>> /\ pos = Len(frame) + 1
Escapes == pos \in 2 .. Len(frame) /\ frame[pos] \in {"FEND", "FESC"}

NextByte ==
    CASE pos = 0 \/ AtEnd -> "FEND"
      [] Escapes /\ half  -> IF frame[pos] = "FEND" THEN "TFEND" ELSE "TFESC"
      [] Escapes /\ ~half -> "FESC"
      [] OTHER            -> frame[pos]

Begin(f) ==
    /\ frame = <<>> /\ frame' = f /\ pos' = 0
    /\ sent < MaxFrames /\ sent' = sent + 1
    /\ clean' = IF clean < 2 THEN clean + 1 ELSE 2
    /\ decoded' = <<>>
    /\ UNCHANGED <<half, mode, buffer, noise>>

\* One byte of the encoded frame has been sent.
Advance ==
    /\ frame # <<>>
    /\ IF Escapes /\ ~half
       THEN half' = TRUE /\ UNCHANGED <<frame, pos>>
       ELSE /\ half' = FALSE
            /\ frame' = IF AtEnd THEN <<>> ELSE frame
            /\ pos' = IF AtEnd THEN 0 ELSE pos + 1
    /\ UNCHANGED sent

-----------------------------------------------------------------------------
(* The line.                                                                *)

Transfer == Advance /\ Feed(NextByte) /\ UNCHANGED <<noise, clean>>

Disturb == noise < MaxNoise /\ noise' = noise + 1 /\ clean' = 0

Lose      == Disturb /\ Advance /\ UNCHANGED decoder
Garble(b) == Disturb /\ Advance /\ b # NextByte /\ Feed(b)
Add(b)    == Disturb /\ Feed(b) /\ UNCHANGED sender

Next ==
    \/ \E f \in Frames : Begin(f)
    \/ Transfer
    \/ Lose
    \/ \E b \in Bytes : Garble(b) \/ Add(b)

Spec == Init /\ [][Next]_vars

-----------------------------------------------------------------------------
(* Properties.                                                              *)

TypeOK ==
    /\ frame \in Frames \cup {<<>>} /\ pos \in 0 .. Len(frame) + 1 /\ half \in BOOLEAN
    /\ sent \in 0 .. MaxFrames
    /\ mode \in {"SyncHunt", "Collecting", "Escaped"}
    /\ buffer \in Seq(Bytes) /\ decoded \in Seq(Bytes)
    /\ noise \in 0 .. MaxNoise /\ clean \in 0 .. 2

\* Whatever a disturbed line has left in the decoder, an unfinished escape, the
\* head of a lost frame, a hunt in the middle of a frame, it costs at most the
\* one frame that follows: a frame sent undisturbed after another one comes out
\* of feed as it went into kiss_encode, whatever bytes it is made of.
Recovers ==
    [][ (frame # <<>> /\ frame' = <<>> /\ clean' = 2)
            => decoded' = frame ]_vars
=============================================================================
