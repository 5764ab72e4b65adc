-------------------------------- MODULE Mixer --------------------------------
(***************************************************************************)
(* What the mixer makes of the sounds: mix() (mixer.cpp), one sample after *)
(* the other, and what is played and how loud, as asked by the scripts     *)
(* (snd_playSound in vm.cpp) and by the patterns of a music (handlePattern *)
(* in sfxplayer.cpp).                                                      *)
(*                                                                         *)
(* mix() goes through the channels and fills a buffer with the samples of  *)
(* each.  The channels have nothing in common but the sum, so that here    *)
(* one step takes one sample of each.  Operations are whole: how they are  *)
(* interleaved is in SoundPlayer.  The bytes of a sound are any bytes.     *)
(***************************************************************************)
EXTENDS Integers, FiniteSetsExt

CONSTANTS
  NumChannels,   \* AUDIO_NUM_CHANNELS
  Rate,          \* SOUND_SAMPLE_RATE
  Chunks,        \* the sounds that scripts play: their len and loopLen, in bytes
  Frequencies,   \* the values of frequenceTable that scripts use
  Volumes,       \* the volumes that scripts use
  Samples,       \* _sfxMod.samples: a set of instruments with len, loopLen, volume
  Notes,         \* the words note_1 of the patterns
  Effects,       \* the effects of the patterns: an effect number and an amount
  Bytes          \* the bytes of the sounds

Channels == 0 .. NumChannels - 1

ValidSize(k) ==
  /\ k.len \in Nat /\ k.loopLen \in Nat
  /\ k.loopLen = 0 => k.len > 0
  /\ k.len + k.loopLen < 65536

ASSUME MixerAssumption ==
  /\ NumChannels \in Nat \ {0}
  /\ Rate \in Nat \ {0}
  /\ \A k \in Chunks \cup Samples : ValidSize(k)
  /\ \A s \in Samples : s.volume \in 0 .. 255
  /\ Frequencies \cup Volumes \cup Notes \subseteq Nat
  /\ \A e \in Effects : e.number \in 0 .. 15 /\ e.amount \in 0 .. 255
  /\ Bytes \subseteq -128 .. 127

VARIABLES
  channel,  \* _channels
  left,     \* the sample that is sent to the audio interface for the left side
  right     \* and for the right side

vars == <<channel, left, right>>

HalfWord == 32768
Int16 == -HalfWord .. HalfWord - 1
Signed16(x) == ((x + HalfWord) % (2 * HalfWord)) - HalfWord

\* The division of C rounds towards zero.
Quotient(a, b) == IF a >= 0 THEN a \div b ELSE -((-a) \div b)

-----------------------------------------------------------------------------
(* What the channels are made to play.                                     *)

Off(ch) == [ch EXCEPT !.active = FALSE]

\* playChannel, for a chunk whose loop follows its first len bytes.
Started(size, freq, volume) ==
  [active   |-> TRUE,
   volume   |-> volume,
   len      |-> size.len,
   loopPos  |-> IF size.loopLen # 0 THEN size.len ELSE 0,
   loopLen  |-> size.loopLen,
   chunkPos |-> 0,
   chunkInc |-> (freq * 256) \div Rate]

\* Mutant: the volume of the script is taken as it is.
PlaySound_Loud(c, size, freq, volume) ==
  /\ channel' = [channel EXCEPT ![c] =
                   IF volume = 0 THEN Off(@) ELSE Started(size, freq, volume)]
  /\ UNCHANGED <<left, right>>

\* snd_playSound, for a sound that is loaded.
PlaySound(c, size, freq, volume) ==
  /\ channel' = [channel EXCEPT ![c] =
                   IF volume = 0 THEN Off(@)
                   ELSE Started(size, freq, IF volume < 63 THEN volume ELSE 63)]
  /\ UNCHANGED <<left, right>>

\* Mutant: nothing stops the volume at zero.
NoteVolume_BelowZero(volume, effect) ==
  CASE effect.number = 5 -> IF volume + effect.amount > 63 THEN 63 ELSE volume + effect.amount
    [] effect.number = 6 -> volume - effect.amount
    [] OTHER -> volume

\* The volume of an instrument, turned up or down by an effect.
NoteVolume(volume, effect) ==
  CASE effect.number = 5 -> IF volume + effect.amount > 63 THEN 63 ELSE volume + effect.amount
    [] effect.number = 6 -> IF volume < effect.amount THEN 0 ELSE volume - effect.amount
    [] OTHER -> volume

MARK == 65533       \* the 0xFFFD of handlePattern: sets a variable of the scripts
STOP_NOTE == 65534  \* its 0xFFFE

\* handlePattern without an instrument.
PatternAlone(c, note) ==
  /\ channel' = [channel EXCEPT ![c] = IF note = STOP_NOTE THEN Off(@) ELSE @]
  /\ UNCHANGED <<left, right>>

\* handlePattern with an instrument: its volume is set even if it is not played.
Pattern(c, note, sample, effect) ==
  /\ note # MARK
  /\ LET volume == NoteVolume(sample.volume, effect)
         adjusted == [channel[c] EXCEPT !.volume = volume]
         freq == (7159092 \div (note * 2)) % 65536
     IN  channel' = [channel EXCEPT ![c] =
                       CASE note = 0 -> adjusted
                         [] note = STOP_NOTE -> Off(adjusted)
                         [] OTHER -> Started(sample, freq, volume)]
  /\ UNCHANGED <<left, right>>

-----------------------------------------------------------------------------
(* mix.                                                                    *)

\* chunkPos counts in 1/256 of a byte.
Index(ch) == (ch.chunkPos \div 256) % 65536
Fraction(ch) == ch.chunkPos % 256

\* Mutant: one byte too far.
AtEnd_Late(ch) == ch.loopLen = 0 /\ Index(ch) = ch.len

\* The two ends are only seen if the channel stops on them.
AtEnd(ch) == ch.loopLen = 0 /\ Index(ch) = ch.len - 1

AtLoop(ch) == ch.loopLen # 0 /\ Index(ch) = ch.loopPos + ch.loopLen - 1

\* The two bytes between which a sample is interpolated.
Reads(ch) ==
  IF ~ch.active \/ AtEnd(ch) THEN {}
  ELSE {Index(ch), IF AtLoop(ch) THEN ch.loopPos ELSE (Index(ch) + 1) % 65536}

\* Mutant: a channel that has come to its end goes on.
Advanced_NoStop(ch) ==
  IF ~ch.active \/ AtEnd(ch) THEN ch
  ELSE IF AtLoop(ch) THEN [ch EXCEPT !.chunkPos = ch.loopPos]
  ELSE [ch EXCEPT !.chunkPos = @ + ch.chunkInc]

\* After a loop, chunkPos is loopPos as it is, in bytes.
Advanced(ch) ==
  IF ~ch.active THEN ch
  ELSE IF AtEnd(ch) THEN [Off(ch) EXCEPT !.chunkPos = @ + ch.chunkInc]
  ELSE IF AtLoop(ch) THEN [ch EXCEPT !.chunkPos = ch.loopPos]
  ELSE [ch EXCEPT !.chunkPos = @ + ch.chunkInc]

\* The contribution of a channel to the sum.
Contribution(ch, b1, b2) ==
  IF Reads(ch) = {} THEN 0
  ELSE LET b == (b1 * (255 - Fraction(ch)) + b2 * Fraction(ch)) \div 256
       IN  Quotient(b * ch.volume, 64)

Sum(b1, b2) == MapThenSumSet(LAMBDA c : Contribution(channel[c], b1[c], b2[c]), Channels)

\* (x << 16) | x for a negative x has only ones in its upper half.
UpperHalf(x) == IF x < 0 THEN -1 ELSE x

MixSample ==
  /\ \E b1, b2 \in [Channels -> Bytes] :
       LET sample == Signed16(Sum(b1, b2) * 32)
       IN  left' = UpperHalf(sample) /\ right' = sample
  /\ channel' = [c \in Channels |-> Advanced(channel[c])]

-----------------------------------------------------------------------------
\* Mixer::init clears the channels; the buffers are cleared too.
Init ==
  /\ channel = [c \in Channels |->
                  [active |-> FALSE, volume |-> 0, len |-> 0, loopPos |-> 0,
                   loopLen |-> 0, chunkPos |-> 0, chunkInc |-> 0]]
  /\ left = 0
  /\ right = 0

Script ==
  \E c \in Channels, size \in Chunks, freq \in Frequencies, volume \in Volumes :
    PlaySound(c, size, freq, volume)

Music ==
  \E c \in Channels, note \in Notes :
    \/ PatternAlone(c, note)
    \/ \E sample \in Samples, effect \in Effects : Pattern(c, note, sample, effect)

Next == Script \/ Music \/ MixSample

Spec == Init /\ [][Next]_vars

-----------------------------------------------------------------------------
(* Properties.                                                             *)

ChannelState ==
  [active : BOOLEAN, volume : 0 .. 255, len : Nat, loopPos : Nat, loopLen : Nat,
   chunkPos : Nat, chunkInc : Nat]

TypeOK ==
  /\ channel \in [Channels -> ChannelState]
  /\ left \in Int16 /\ right \in Int16

\* mix reads no byte behind the sound or its loop.
ReadsInChunk ==
  \A c \in Channels : \A i \in Reads(channel[c]) :
    i < channel[c].len + channel[c].loopLen

\* A sound without a loop comes to its end, unless it is started again, although
\* mix only compares the index for equality.
SoundsEnd ==
  \A c \in Channels :
    channel[c].active /\ channel[c].loopLen = 0 /\ channel[c].chunkPos > 0
      ~> ~channel[c].active \/ channel[c].chunkPos = 0 \/ channel[c].loopLen # 0

\* mixer.cpp: "[-128,127]*4 == [-512,511]", and "result is clear clipping-free
\* audio": what a channel adds to the sum is no more than a byte, whatever its
\* bytes, its position between them and its volume, so that the sum of four
\* channels can be scaled by 32 and still fits in 16 bits.
NoClipping ==
  \A c \in Channels : \A b1, b2 \in Bytes : Contribution(channel[c], b1, b2) \in -128 .. 127
=============================================================================
