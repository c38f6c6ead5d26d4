---------------------------- MODULE WasapiFormat -----------------------------
(* What the WASAPI capture makes of one frame of the device's mix format:  *)
(* which formats it accepts, how a sample of each width is decoded and how *)
(* the channels are mixed to two.  One step converts one sample or frame.  *)
EXTENDS Integers, Sequences, FiniteSetsExt

CONSTANTS
  ByteBits,    \* bits per byte, 8 in the code
  Layouts      \* of the frames: [mask, the set of its speaker positions;
               \* more, the number of channels that have no position in it]

VARIABLES
  task,    \* "sample" or "frame"; then "decoded", "refused" or "mixed"
  format,  \* [tag, width in bytes, valid bits], or the layout of a frame
  signal,  \* what the device plays: a sample, or [at, a sample for each
           \* position; more, for each channel without]
  out      \* what the capture makes of it: <<sample>>, or <<left, right>>

vars == <<task, format, signal, out>>

Pow2[n \in Nat] == IF n = 0 THEN 1 ELSE 2 * Pow2[n - 1]
One == Pow2[4 * ByteBits - 1]          \* a decoded sample of 1.0
ClampUnit(x, one) == Max({-one, Min({x, one})})

\* The speaker positions in the order of their bits, and on the other side.
Positions ==
  <<"FL", "FR", "FC", "LFE", "BL", "BR", "FLC", "FRC", "BC",
    "SL", "SR", "TC", "TFL", "TFC", "TFR", "TBL", "TBC", "TBR">>
Mirror(p) ==
  CASE p = "FL"  -> "FR"  [] p = "FR"  -> "FL"  [] p = "BL"  -> "BR"  [] p = "BR"  -> "BL"
    [] p = "FLC" -> "FRC" [] p = "FRC" -> "FLC" [] p = "SL"  -> "SR"  [] p = "SR"  -> "SL"
    [] p = "TFL" -> "TFR" [] p = "TFR" -> "TFL" [] p = "TBL" -> "TBR" [] p = "TBR" -> "TBL"
    [] OTHER -> p

\* How many positions of the mask there are up to the k-th bit, how many
\* channels they take, and the bit that is sent on the i-th of them.
ChannelOf(mask, k) == Cardinality({j \in 1..k : Positions[j] \in mask})
Channels(mask) == ChannelOf(mask, Len(Positions))
BitOf(mask, i) ==
  CHOOSE k \in DOMAIN Positions : Positions[k] \in mask /\ ChannelOf(mask, k) = i

(* The speakers stand on both sides alike.  Positions that the mix does    *)
(* not know go by the number of their channel, and are not the first two;  *)
(* nor are channels without a position.  A mask of more positions than     *)
(* channels is used like that of its first ones.                           *)
FormatAssumption ==
  /\ ByteBits \in Nat \ {0}
  /\ \A layout \in Layouts : LET mask == layout.mask IN
       /\ layout.more \in Nat /\ (Channels(mask) = 1 => layout.more = 0)
       /\ mask \subseteq {Positions[k] : k \in DOMAIN Positions}
       /\ \A p \in mask : Mirror(p) \in mask
       /\ mask \cap {"FLC", "FRC", "TC", "TBC"} # {} => {"FL", "FR"} \subseteq mask

-----------------------------------------------------------------------------
(* The device's side: the top bits of the signal in a container of width   *)
(* bytes, least significant byte first, with anything below the valid bits *)
Floor(x, unit) == (x \div unit) * unit

Encode(width, valid, x) ==
  LET bits == width * ByteBits
      v == Floor(x \div Pow2[(4 - width) * ByteBits], Pow2[bits - valid]) + Pow2[bits - valid] - 1
      u == IF width = 1 THEN v + Pow2[bits - 1] ELSE v % Pow2[bits]
  IN  [i \in 1..width |-> (u \div Pow2[(i - 1) * ByteBits]) % Pow2[ByteBits]]
-----------------------------------------------------------------------------
Encoding(f) ==
  CASE f.tag \in {"float", "extensible float"} -> "float32"
    [] f.tag \in {"pcm", "extensible pcm"} -> "pcm"
    [] OTHER -> "unknown"

\* input_valid_bits_per_sample, where only the extensible formats have one.
ValidBits(f) ==
  IF f.tag = "extensible pcm" /\ f.valid > 0 THEN f.valid ELSE f.width * ByteBits

ConfigureMixFormat(f) == Encoding(f) # "unknown" /\ f.width > 0

\* A number of up to four bytes, least significant first.
Digit(bytes, i) == IF i <= Len(bytes) THEN bytes[i] * Pow2[(i - 1) * ByteBits] ELSE 0
Unsigned(bytes) == Digit(bytes, 1) + Digit(bytes, 2) + Digit(bytes, 3) + Digit(bytes, 4)

\* What a signed variable of so many bits holds.
Signed(bytes) ==
  LET u == Unsigned(bytes)  n == Len(bytes) * ByteBits
  IN  IF u >= Pow2[n - 1] THEN u - Pow2[n] ELSE u

DecodePcmSample(bytes, valid) ==
  LET bits == Len(bytes) * ByteBits
      eff == IF valid > 0 /\ valid <= bits THEN valid ELSE bits
  IN  CASE Len(bytes) = 1 -> (Unsigned(bytes) - Pow2[bits - 1]) * (One \div Pow2[bits - 1])
        [] Len(bytes) \in 2..4 ->
             ClampUnit((Signed(bytes) \div Pow2[bits - eff]) * (One \div Pow2[eff - 1]), One)
        [] OTHER -> 0

ReadInputSample(f, x) ==
  CASE Encoding(f) = "float32" /\ f.width = 4 -> ClampUnit(x, One)
    [] Encoding(f) = "pcm" -> DecodePcmSample(Encode(f.width, ValidBits(f), x), ValidBits(f))
    [] OTHER -> 0
-----------------------------------------------------------------------------
\* Mutant: positions that are not in the mask are counted too.
ChannelBitUncounted(mask, i) == Positions[i]

\* The position of a channel; there are channels without.
ChannelBitForIndex(mask, i) ==
  IF i <= Channels(mask) THEN Positions[BitOf(mask, i)] ELSE "none"

\* What a channel adds to left and right, in tenths.
Gains(position, i) ==
  CASE position \in {"FL", "TFL", "TBL"} -> <<10, 0>>
    [] position \in {"FR", "TFR", "TBR"} -> <<0, 10>>
    [] position \in {"FC", "TFC", "BC"}  -> <<7, 7>>
    [] position = "LFE"                   -> <<5, 5>>
    [] position \in {"BL", "SL"}         -> <<7, 0>>
    [] position \in {"BR", "SR"}         -> <<0, 7>>
    [] OTHER -> IF i = 1 THEN <<10, 0>> ELSE IF i = 2 THEN <<0, 10>> ELSE <<5, 5>>

Total(parts) ==
  LET sum[i \in 0..Len(parts)] == IF i = 0 THEN 0 ELSE sum[i - 1] + parts[i]
  IN  sum[Len(parts)]

\* The samples of a frame, each -1..1, in tenths.
MixFrameToStereo(mask, frame) ==
  IF Len(frame) = 1 THEN <<10 * frame[1], 10 * frame[1]>>
  ELSE IF mask = {} THEN <<10 * frame[1], 10 * frame[2]>>
  ELSE [side \in 1..2 |->
          ClampUnit(Total([i \in 1..Len(frame) |->
                             frame[i] * Gains(ChannelBitForIndex(mask, i), i)[side]]), 10)]
-----------------------------------------------------------------------------
Tags == {"float", "pcm", "extensible float", "extensible pcm", "other"}
\* A container of one byte has no padding bits.
Formats ==
  {f \in [tag : Tags, width : 0..4, valid : 0..4 * ByteBits] :
     f.valid <= f.width * ByteBits /\ (f.width = 1 => f.valid \in {0, ByteBits})}

\* Without a mask, the first two channels are left and right.
Speakers(mask) == IF mask = {} THEN {"FL", "FR"} ELSE mask

Init ==
  /\ \/ task = "sample" /\ format \in Formats /\ signal \in -One..One - 1
     \/ /\ task = "frame" /\ format \in Layouts
        /\ signal \in [at : [Speakers(format.mask) -> -1..1], more : [1..format.more -> -1..1]]
  /\ out = <<>>

\* The channels of a frame are in the order of the mask's bits.
FrameOf(s, layout) ==
  LET speakers == Speakers(layout.mask)  placed == Channels(speakers)
  IN  [i \in 1..placed + layout.more |->
         IF i <= placed THEN s.at[Positions[BitOf(speakers, i)]] ELSE s.more[i - placed]]

ConvertSample ==
  /\ task = "sample"
  /\ IF ConfigureMixFormat(format)
     THEN task' = "decoded" /\ out' = <<ReadInputSample(format, signal)>>
     ELSE task' = "refused" /\ UNCHANGED out
  /\ UNCHANGED <<format, signal>>

ConvertFrame ==
  /\ task = "frame" /\ task' = "mixed"
  /\ out' = MixFrameToStereo(format.mask, FrameOf(signal, format))
  /\ UNCHANGED <<format, signal>>

Next == ConvertSample \/ ConvertFrame

Spec == Init /\ [][Next]_vars
-----------------------------------------------------------------------------
(* A PCM sample of any width comes out as the signal cut to the valid bits *)
(* of the format: signed alike, on the same scale, free of padding bits.   *)
PcmKeepsSignal ==
  task = "decoded" /\ Encoding(format) = "pcm" =>
    out = <<Floor(signal, Pow2[4 * ByteBits - ValidBits(format)])>>

Exchanged(s) == [at |-> [p \in DOMAIN s.at |-> s.at[Mirror(p)]], more |-> s.more]

(* The same sound with left and right exchanged comes out with left and    *)
(* right exchanged: every channel is mixed to the sides it stands on,      *)
(* whichever other channels the device has, and the channels for which the *)
(* mask has no bit are on both.                                            *)
MixKeepsSides ==
  task = "mixed" =>
    MixFrameToStereo(format.mask, FrameOf(Exchanged(signal), format)) = <<out[2], out[1]>>
=============================================================================
