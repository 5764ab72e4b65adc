---------------------------- MODULE AudioOutProofs ----------------------------
(* Theorems about mix and the audio callback, for any sounds and buffers of   *)
(* any length: that no buffer is written while it is played, that no sound is *)
(* read behind its end, and that nothing is lost in the numbers: not in the   *)
(* product of byte and volume, not in the sum, not in the sample.             *)
EXTENDS AudioOut, SequenceTheorems, FiniteSetTheorems, WellFoundedInduction, TLAPS

\* The buffers follow each other in turn: the last one that was handed over is
\* not pcmbuf, and a callback that mixes has found room for one.
Alternate ==
  /\ pcmflip \in {0, 1}
  /\ ai \in {<<>>, <<1 - pcmflip>>, <<pcmflip, 1 - pcmflip>>}
  /\ j # Idle => Len(ai) < 2

LEMMA AppendToOne ==
  ASSUME NEW a \in {0, 1}, NEW b \in {0, 1}
  PROVE  Append(<<a>>, b) = <<a, b>>
<1> DEFINE s == Append(<<a>>, b)
           t == <<a, b>>
<1>1. s \in Seq({0, 1}) /\ Len(s) = 2 /\ s[1] = a /\ s[2] = b
  OBVIOUS
<1>2. t \in Seq({0, 1}) /\ Len(t) = 2 /\ t[1] = a /\ t[2] = b
  OBVIOUS
<1> HIDE DEF s, t
<1>3. \A i \in 1 .. Len(s) : s[i] = t[i]
  BY <1>1, <1>2
<1>4. s = t
  BY <1>1, <1>2, <1>3, SeqEqual
<1>5. QED
  BY <1>4 DEF s, t

LEMMA AlternateInit == AudioInit => Alternate
BY DEF AudioInit, Alternate, Idle

LEMMA AlternateNext == Alternate /\ [AudioNext]_<<vars, audioVars>> => Alternate'
<1> SUFFICES ASSUME Alternate, [AudioNext]_<<vars, audioVars>>  PROVE Alternate'
  OBVIOUS
<1> USE DEF Alternate, Idle
<1>1. CASE Play
  BY <1>1 DEF Play, audioVars
<1>2. CASE BeginMix
  BY <1>2 DEF BeginMix
<1>3. CASE NextSample
  BY <1>3, AudioAssumption DEF NextSample
<1>4. CASE Submit
  <2>1. j # Idle /\ j' = Idle /\ pcmflip' = 1 - pcmflip /\ ai' = Append(ai, pcmflip)
    BY <1>4, AudioAssumption DEF Submit
  <2>2. pcmflip' \in {0, 1} /\ pcmflip = 1 - pcmflip'
    BY <2>1
  <2>3. CASE ai = <<>>
    <3>1. ai' = <<pcmflip>>
      BY <2>1, <2>3
    <3>2. QED
      BY <3>1, <2>1, <2>2
  <2>4. CASE ai = <<1 - pcmflip>>
    <3>1. ai' = <<1 - pcmflip, pcmflip>>
      BY <2>1, <2>2, <2>4, AppendToOne
    <3>2. ai' = <<pcmflip', 1 - pcmflip'>>
      BY <3>1, <2>1, <2>2
    <3>3. QED
      BY <3>2, <2>1, <2>2
  <2>5. ai # <<pcmflip, 1 - pcmflip>>
    BY <2>1
  <2>6. QED
    BY <2>3, <2>4, <2>5
<1>5. CASE Played
  <2>1. ai # <<>> /\ ai' = Tail(ai) /\ UNCHANGED <<pcmflip, j>>
    BY <1>5 DEF Played
  <2>2. CASE ai = <<1 - pcmflip>>
    BY <2>1, <2>2
  <2>3. CASE ai = <<pcmflip, 1 - pcmflip>>
    BY <2>1, <2>3
  <2>4. QED
    BY <2>1, <2>2, <2>3
<1>6. CASE UNCHANGED <<vars, audioVars>>
  BY <1>6 DEF audioVars
<1>7. QED
  BY <1>1, <1>2, <1>3, <1>4, <1>5, <1>6 DEF AudioNext

\* the_audio_callback: nobody hears a buffer that is half mixed (MixesUnheard), for
\* buffers of any length.
THEOREM MixingIsUnheard == AudioSpec => []MixesUnheard
<1>1. ASSUME Alternate  PROVE MixesUnheard
  <2>1. SUFFICES ASSUME j # Idle, NEW i \in 1 .. Len(ai)  PROVE ai[i] # pcmflip
    BY DEF MixesUnheard
  <2>2. pcmflip \in {0, 1} /\ ai \in {<<>>, <<1 - pcmflip>>, <<pcmflip, 1 - pcmflip>>} /\ Len(ai) < 2
    BY <1>1, <2>1 DEF Alternate
  <2>3. ai # <<pcmflip, 1 - pcmflip>>
    BY <2>2
  <2>4. CASE ai = <<>>
    BY <2>1, <2>4
  <2>5. CASE ai = <<1 - pcmflip>>
    BY <2>1, <2>2, <2>5
  <2>6. QED
    BY <2>2, <2>3, <2>4, <2>5
<1>2. QED
  BY AlternateInit, AlternateNext, <1>1, PTL DEF AudioSpec

-----------------------------------------------------------------------------
(* The channels.                                                           *)

Step(freq) == (freq * 256) \div Rate
NoteFrequency(note) == (7159092 \div (note * 2)) % 65536

\* No sound and no note is played with more bytes than there are samples.  The run
\* mixer_fast shows what happens otherwise.
StepsOfAByte ==
  /\ \A freq \in Frequencies : Step(freq) <= 256
  /\ \A note \in Notes \ {0, MARK, STOP_NOTE} : Step(NoteFrequency(note)) <= 256

\* The instruments are no louder than 64, which is as loud as they were recorded.
ModuleVolumes == \A s \in Samples : s.volume <= 64

\* What is known of a channel with any sounds ...
Whole(ch) ==
  /\ ch \in ChannelState
  /\ ch.len + ch.loopLen < 65536
  /\ ch.active /\ ch.loopLen = 0 => ch.len > 0
  /\ ch.loopLen # 0 => ch.loopPos = ch.len

\* ... if no step is longer than a byte ...
Slow(ch) ==
  ch.active => ch.chunkInc <= 256 /\ ch.chunkPos < 256 * (ch.len + ch.loopLen)

\* ... and if no instrument is too loud.
Quiet(ch) == ch.volume <= 64

LEMMA StepType == ASSUME NEW freq \in Nat PROVE Step(freq) \in Nat
BY MixerAssumption DEF Step

LEMMA StartedWhole ==
  ASSUME NEW size \in Chunks \cup Samples, NEW freq \in Nat, NEW volume \in 0 .. 255
  PROVE  /\ Whole(Started(size, freq, volume))
         /\ Step(freq) <= 256 => Slow(Started(size, freq, volume))
         /\ volume <= 64 => Quiet(Started(size, freq, volume))
<1> DEFINE ch == Started(size, freq, volume)
<1>1. /\ size.len \in Nat /\ size.loopLen \in Nat /\ size.len + size.loopLen < 65536
      /\ size.loopLen = 0 => size.len > 0
  BY MixerAssumption DEF ValidSize
<1>2. /\ ch.active = TRUE /\ ch.volume = volume /\ ch.len = size.len
      /\ ch.loopPos = (IF size.loopLen # 0 THEN size.len ELSE 0)
      /\ ch.loopLen = size.loopLen /\ ch.chunkPos = 0 /\ ch.chunkInc = Step(freq)
  BY DEF Started, Step
<1>3. ch \in ChannelState
  BY <1>1, StepType DEF Started, Step, ChannelState
<1> HIDE DEF ch
<1>4. Whole(ch) /\ (Step(freq) <= 256 => Slow(ch)) /\ (volume <= 64 => Quiet(ch))
  BY <1>1, <1>2, <1>3 DEF Whole, Slow, Quiet
<1> QED  BY <1>4 DEF ch

LEMMA OffWhole ==
  ASSUME NEW ch, Whole(ch)
  PROVE  Whole(Off(ch)) /\ Slow(Off(ch)) /\ (Quiet(ch) => Quiet(Off(ch)))
<1> DEFINE c == Off(ch)
<1>1. ch \in ChannelState
  BY DEF Whole
<1>2. /\ c \in ChannelState /\ c.active = FALSE /\ c.volume = ch.volume
      /\ c.len = ch.len /\ c.loopPos = ch.loopPos /\ c.loopLen = ch.loopLen
  BY <1>1 DEF Off, ChannelState
<1> HIDE DEF c
<1>3. Whole(c) /\ Slow(c) /\ (Quiet(ch) => Quiet(c))
  BY <1>2 DEF Whole, Slow, Quiet
<1> QED  BY <1>3 DEF c

LEMMA MovedWhole ==
  ASSUME NEW ch, Whole(ch), NEW pos \in Nat
  PROVE  LET c == [ch EXCEPT !.chunkPos = pos]
         IN  /\ Whole(c) /\ (Quiet(ch) => Quiet(c))
             /\ c.active = ch.active /\ c.chunkInc = ch.chunkInc /\ c.chunkPos = pos
             /\ c.len = ch.len /\ c.loopLen = ch.loopLen
<1> DEFINE c == [ch EXCEPT !.chunkPos = pos]
<1>1. ch \in ChannelState
  BY DEF Whole
<1>2. /\ c \in ChannelState /\ c.active = ch.active /\ c.volume = ch.volume
      /\ c.len = ch.len /\ c.loopPos = ch.loopPos /\ c.loopLen = ch.loopLen
      /\ c.chunkInc = ch.chunkInc /\ c.chunkPos = pos
  BY <1>1 DEF ChannelState
<1> HIDE DEF c
<1>3. Whole(c) /\ (Quiet(ch) => Quiet(c))
  BY <1>2 DEF Whole, Quiet
<1> QED  BY <1>2, <1>3 DEF c

LEMMA LouderWhole ==
  ASSUME NEW ch, Whole(ch), NEW volume \in 0 .. 255
  PROVE  LET c == [ch EXCEPT !.volume = volume]
         IN  Whole(c) /\ (Slow(ch) => Slow(c)) /\ (volume <= 64 => Quiet(c))
<1> DEFINE c == [ch EXCEPT !.volume = volume]
<1>1. ch \in ChannelState
  BY DEF Whole
<1>2. /\ c \in ChannelState /\ c.active = ch.active /\ c.volume = volume
      /\ c.len = ch.len /\ c.loopPos = ch.loopPos /\ c.loopLen = ch.loopLen
      /\ c.chunkInc = ch.chunkInc /\ c.chunkPos = ch.chunkPos
  BY <1>1 DEF ChannelState
<1> HIDE DEF c
<1>3. Whole(c) /\ (Slow(ch) => Slow(c)) /\ (volume <= 64 => Quiet(c))
  BY <1>2 DEF Whole, Slow, Quiet
<1> QED  BY <1>3 DEF c

\* The index does not wrap, as a sound has less than 65536 bytes.
LEMMA IndexSlow ==
  ASSUME NEW ch, Whole(ch), Slow(ch), ch.active
  PROVE  /\ Index(ch) = ch.chunkPos \div 256
         /\ Index(ch) \in 0 .. ch.len + ch.loopLen - 1
<1>1. ch.chunkPos \in Nat /\ ch.len \in Nat /\ ch.loopLen \in Nat
  BY DEF Whole, ChannelState
<1>2. ch.chunkPos \div 256 \in 0 .. ch.len + ch.loopLen - 1
  BY <1>1 DEF Slow
<1> QED  BY <1>1, <1>2 DEF Index, Whole

LEMMA AdvancedWhole ==
  ASSUME NEW ch, Whole(ch)
  PROVE  /\ Whole(Advanced(ch))
         /\ Slow(ch) => Slow(Advanced(ch))
         /\ Quiet(ch) => Quiet(Advanced(ch))
<1>1. /\ ch.chunkPos \in Nat /\ ch.chunkInc \in Nat /\ ch.chunkPos + ch.chunkInc \in Nat
      /\ ch.loopPos \in Nat /\ ch.len \in Nat /\ ch.loopLen \in Nat
  BY DEF Whole, ChannelState
<1>2. CASE ~ ch.active
  BY <1>2 DEF Advanced
<1>3. CASE ch.active /\ AtEnd(ch)
  <2> DEFINE off == Off(ch)
  <2>1. /\ ch \in ChannelState
        /\ off.chunkPos = ch.chunkPos
        /\ Advanced(ch) = [off EXCEPT !.chunkPos = ch.chunkPos + ch.chunkInc]
    BY <1>3 DEF Advanced, Off, Whole, ChannelState
  <2>2. Whole(off) /\ Slow(off) /\ (Quiet(ch) => Quiet(off)) /\ ~ off.active
    <3>1. ~ off.active
      BY <2>1 DEF Off, ChannelState
    <3> QED  BY <3>1, OffWhole
  <2> HIDE DEF off
  <2> QED  BY <1>1, <2>1, <2>2, MovedWhole DEF Slow
<1>4. CASE ch.active /\ ~AtEnd(ch) /\ AtLoop(ch)
  <2>1. Advanced(ch) = [ch EXCEPT !.chunkPos = ch.loopPos] /\ ch.loopLen # 0
    BY <1>4 DEF Advanced, AtLoop
  <2>2. ch.loopPos < 256 * (ch.len + ch.loopLen)
    BY <1>1, <2>1 DEF Whole
  <2> QED  BY <1>1, <2>1, <2>2, MovedWhole DEF Slow
<1>5. CASE ch.active /\ ~AtEnd(ch) /\ ~AtLoop(ch)
  <2>1. Advanced(ch) = [ch EXCEPT !.chunkPos = ch.chunkPos + ch.chunkInc]
    BY <1>5 DEF Advanced
  <2>2. ASSUME Slow(ch) PROVE ch.chunkPos + ch.chunkInc < 256 * (ch.len + ch.loopLen)
    <3>1. ch.chunkInc <= 256
      BY <1>5, <2>2 DEF Slow
    <3>2. ch.chunkPos \div 256 \in 0 .. ch.len + ch.loopLen - 2
      BY <1>1, <1>5, <2>2, IndexSlow DEF AtEnd, AtLoop, Whole
    <3> QED  BY <1>1, <3>1, <3>2
  <2> QED  BY <1>1, <2>1, <2>2, MovedWhole DEF Slow
<1> QED  BY <1>2, <1>3, <1>4, <1>5

Fine(ch) ==
  /\ Whole(ch)
  /\ StepsOfAByte => Slow(ch)
  /\ ModuleVolumes => Quiet(ch)

ChannelsInv ==
  /\ channel \in [Channels -> ChannelState]
  /\ \A c \in Channels : Fine(channel[c])

\* What is started or adjusted on one channel leaves the others alone.
LEMMA OneChannel ==
  ASSUME ChannelsInv, NEW c \in Channels, NEW v, Fine(v), channel' = [channel EXCEPT ![c] = v]
  PROVE  ChannelsInv'
<1>1. v \in ChannelState
  BY DEF Fine, Whole
<1>2. channel' \in [Channels -> ChannelState]
  BY <1>1 DEF ChannelsInv
<1>3. ASSUME NEW d \in Channels PROVE Fine(channel'[d])
  <2>1. channel'[d] = IF d = c THEN v ELSE channel[d]
    BY DEF ChannelsInv
  <2> QED  BY <2>1 DEF ChannelsInv
<1> QED  BY <1>2, <1>3 DEF ChannelsInv, Fine, StepsOfAByte, ModuleVolumes

LEMMA ChannelOf ==
  ASSUME ChannelsInv, NEW c \in Channels
  PROVE  /\ Fine(channel[c]) /\ Whole(channel[c]) /\ channel[c] \in ChannelState
         /\ StepsOfAByte => Slow(channel[c])
         /\ ModuleVolumes => Quiet(channel[c])
BY DEF ChannelsInv, Fine

LEMMA NoteVolumeRange ==
  ASSUME NEW s \in Samples, NEW effect \in Effects
  PROVE  /\ NoteVolume(s.volume, effect) \in 0 .. 255
         /\ s.volume <= 64 => NoteVolume(s.volume, effect) <= 64
<1> DEFINE v == s.volume
           a == effect.amount
           w == NoteVolume(v, effect)
<1>1. v \in 0 .. 255 /\ a \in 0 .. 255
  BY MixerAssumption
<1>2. \/ w = v
      \/ w = IF v + a > 63 THEN 63 ELSE v + a
      \/ w = IF v < a THEN 0 ELSE v - a
  BY DEF NoteVolume
<1> HIDE DEF v, a, w
<1>3. ASSUME NEW x \in 0 .. 255, NEW y \in 0 .. 255, NEW z,
             \/ z = x
             \/ z = IF x + y > 63 THEN 63 ELSE x + y
             \/ z = IF x < y THEN 0 ELSE x - y
      PROVE  z \in 0 .. 255 /\ (x <= 64 => z <= 64)
  <2>1. CASE z = x
    BY <1>3, <2>1
  <2>2. CASE z = IF x + y > 63 THEN 63 ELSE x + y
    BY <1>3, <2>2
  <2>3. CASE z = IF x < y THEN 0 ELSE x - y
    BY <1>3, <2>3
  <2> QED  BY <1>3, <2>1, <2>2, <2>3
<1>4. w \in 0 .. 255 /\ (v <= 64 => w <= 64)
  BY <1>1, <1>2, <1>3
<1> QED  BY <1>4 DEF v, w

LEMMA NoteFrequencyType == ASSUME NEW note \in Nat \ {0} PROVE NoteFrequency(note) \in Nat
<1>1. note * 2 \in Nat \ {0}
  OBVIOUS
<1>2. 7159092 \div (note * 2) \in Nat
  BY <1>1
<1> QED  BY <1>2 DEF NoteFrequency

LEMMA PlaySoundKeeps ==
  ASSUME ChannelsInv, NEW c \in Channels, NEW size \in Chunks,
         NEW freq \in Frequencies, NEW volume \in Volumes, PlaySound(c, size, freq, volume)
  PROVE  ChannelsInv'
<1> DEFINE loud == IF volume < 63 THEN volume ELSE 63
           v == IF volume = 0 THEN Off(channel[c]) ELSE Started(size, freq, loud)
<1>1. freq \in Nat /\ loud \in 0 .. 255 /\ loud <= 64
  BY MixerAssumption
<1>2. StepsOfAByte => Step(freq) <= 256
  BY DEF StepsOfAByte
<1>3. channel' = [channel EXCEPT ![c] = v]
  BY DEF PlaySound
<1> HIDE DEF loud
<1>4. Fine(v)
  <2>1. CASE volume = 0
    BY <2>1, OffWhole, ChannelOf DEF Fine
  <2>2. CASE volume # 0
    BY <2>2, <1>1, <1>2, StartedWhole DEF Fine
  <2> QED  BY <2>1, <2>2
<1> HIDE DEF v
<1> QED  BY <1>3, <1>4, OneChannel

LEMMA PatternAloneKeeps ==
  ASSUME ChannelsInv, NEW c \in Channels, NEW note, PatternAlone(c, note)
  PROVE  ChannelsInv'
<1> DEFINE v == IF note = STOP_NOTE THEN Off(channel[c]) ELSE channel[c]
<1>1. channel' = [channel EXCEPT ![c] = v]
  BY DEF PatternAlone
<1>2. Fine(v)
  BY OffWhole, ChannelOf DEF Fine
<1> HIDE DEF v
<1> QED  BY <1>1, <1>2, OneChannel

LEMMA PatternKeeps ==
  ASSUME ChannelsInv, NEW c \in Channels, NEW note \in Notes,
         NEW sample \in Samples, NEW effect \in Effects, Pattern(c, note, sample, effect)
  PROVE  ChannelsInv'
<1> DEFINE volume == NoteVolume(sample.volume, effect)
           adjusted == [channel[c] EXCEPT !.volume = volume]
           v == CASE note = 0 -> adjusted
                  [] note = STOP_NOTE -> Off(adjusted)
                  [] OTHER -> Started(sample, NoteFrequency(note), volume)
<1>1. note # MARK /\ channel' = [channel EXCEPT ![c] = v]
  BY DEF Pattern, NoteFrequency
<1>2. volume \in 0 .. 255 /\ (ModuleVolumes => volume <= 64)
  BY NoteVolumeRange DEF ModuleVolumes
<1> HIDE DEF volume
<1>3. Fine(adjusted)
  <2> DEFINE ch == channel[c]
  <2>1. Whole(ch) /\ (StepsOfAByte => Slow(ch))
    BY ChannelOf
  <2> HIDE DEF ch
  <2>2. LET v1 == [ch EXCEPT !.volume = volume]
        IN  Whole(v1) /\ (Slow(ch) => Slow(v1)) /\ (volume <= 64 => Quiet(v1))
    BY <1>2, <2>1, LouderWhole
  <2> QED  BY <1>2, <2>1, <2>2 DEF ch, Fine
<1> HIDE DEF adjusted
<1>4. Fine(v)
  <2>1. CASE note = 0
    BY <2>1, <1>3 DEF STOP_NOTE
  <2>2. CASE note = STOP_NOTE
    BY <2>2, <1>3, OffWhole DEF STOP_NOTE, Fine
  <2>3. CASE note # 0 /\ note # STOP_NOTE
    <3>1. v = Started(sample, NoteFrequency(note), volume)
      BY <2>3
    <3>2. NoteFrequency(note) \in Nat
      BY <2>3, NoteFrequencyType, MixerAssumption
    <3>3. StepsOfAByte => Step(NoteFrequency(note)) <= 256
      BY <2>3, <1>1 DEF StepsOfAByte
    <3> HIDE DEF v
    <3> QED  BY <3>1, <3>2, <3>3, <1>2, StartedWhole DEF Fine
  <2> QED  BY <2>1, <2>2, <2>3
<1> HIDE DEF v
<1> QED  BY <1>1, <1>4, OneChannel

LEMMA MixSampleKeeps == ChannelsInv /\ MixSample => ChannelsInv'
<1> SUFFICES ASSUME ChannelsInv, MixSample PROVE ChannelsInv'
  OBVIOUS
<1>1. channel' = [c \in Channels |-> Advanced(channel[c])]
  BY DEF MixSample
<1>2. ASSUME NEW c \in Channels PROVE Fine(channel'[c])
  BY <1>1, ChannelOf, AdvancedWhole DEF Fine
<1>3. channel' \in [Channels -> ChannelState]
  BY <1>1, <1>2 DEF Fine, Whole
<1> QED  BY <1>2, <1>3 DEF ChannelsInv, Fine, StepsOfAByte, ModuleVolumes

LEMMA ChannelsInit == AudioInit => ChannelsInv
<1> SUFFICES ASSUME AudioInit PROVE ChannelsInv
  OBVIOUS
<1> DEFINE v == [active |-> FALSE, volume |-> 0, len |-> 0, loopPos |-> 0,
                 loopLen |-> 0, chunkPos |-> 0, chunkInc |-> 0]
<1>1. channel = [c \in Channels |-> v]
  BY DEF AudioInit, Init
<1>2. Fine(v) /\ v \in ChannelState
  BY DEF Fine, Whole, Slow, Quiet, ChannelState
<1> HIDE DEF v
<1> QED  BY <1>1, <1>2 DEF ChannelsInv

LEMMA ChannelsNext == ChannelsInv /\ [AudioNext]_<<vars, audioVars>> => ChannelsInv'
<1> SUFFICES ASSUME ChannelsInv, [AudioNext]_<<vars, audioVars>> PROVE ChannelsInv'
  OBVIOUS
<1>1. CASE Play
  BY <1>1, PlaySoundKeeps, PatternAloneKeeps, PatternKeeps DEF Play, Script, Music
<1>2. CASE NextSample
  BY <1>2, MixSampleKeeps DEF NextSample
<1>3. ASSUME UNCHANGED channel PROVE ChannelsInv'
  BY <1>3 DEF ChannelsInv, Fine, StepsOfAByte, ModuleVolumes
<1>4. CASE BeginMix \/ Submit \/ Played \/ UNCHANGED <<vars, audioVars>>
  BY <1>3, <1>4 DEF BeginMix, Submit, Played, vars
<1> QED  BY <1>1, <1>2, <1>4 DEF AudioNext

-----------------------------------------------------------------------------
(* What the channels read, and how loud they are.                          *)

LEMMA ChannelReads ==
  ASSUME NEW ch, Whole(ch), Slow(ch), NEW i \in Reads(ch)
  PROVE  i < ch.len + ch.loopLen
<1>1. ch.active /\ ~AtEnd(ch) /\ ch.len \in Nat /\ ch.loopLen \in Nat
  BY DEF Reads, Whole, ChannelState
<1>2. Index(ch) \in 0 .. ch.len + ch.loopLen - 1 /\ ch.len + ch.loopLen < 65536
  BY <1>1, IndexSlow DEF Whole
<1>3. CASE AtLoop(ch)
  BY <1>1, <1>2, <1>3 DEF Reads, AtLoop, Whole
<1>4. CASE ~AtLoop(ch)
  <2>1. Index(ch) + 1 < ch.len + ch.loopLen
    BY <1>1, <1>2, <1>4 DEF AtEnd, AtLoop, Whole
  <2>2. (Index(ch) + 1) % 65536 = Index(ch) + 1
    BY <1>1, <1>2, <2>1
  <2> QED  BY <1>1, <1>2, <1>4, <2>1, <2>2 DEF Reads
<1> QED  BY <1>3, <1>4

\* mix (mixer.cpp): whatever is played, started again, turned up or turned off, no
\* channel reads a byte behind its sound or its loop (ReadsInChunk), as long as nothing
\* is played faster than its bytes come.
THEOREM ReadsStayInChunk == ASSUME StepsOfAByte PROVE AudioSpec => []ReadsInChunk
<1>1. ChannelsInv => ReadsInChunk
  BY ChannelReads, ChannelOf DEF ReadsInChunk
<1> QED  BY <1>1, ChannelsInit, ChannelsNext, PTL DEF AudioSpec

\* A sample of a channel whose sound has no loop.
PlaysOn(ch, next) ==
  /\ next.chunkPos = ch.chunkPos + ch.chunkInc
  /\ next.chunkInc = ch.chunkInc /\ next.len = ch.len /\ next.loopLen = 0
  /\ next.active <=> ch.chunkPos \div 256 # ch.len - 1
  /\ next.active => next.chunkPos < 256 * next.len

LEMMA AdvancedPlaysOn ==
  ASSUME NEW ch, Whole(ch), Slow(ch), ch.active, ch.loopLen = 0
  PROVE  PlaysOn(ch, Advanced(ch))
<1>1. /\ ch \in ChannelState
      /\ ch.chunkPos \in Nat /\ ch.chunkInc \in Nat /\ ch.len \in Nat /\ ch.loopLen = 0
  BY DEF Whole, ChannelState
<1>2. AtEnd(ch) <=> ch.chunkPos \div 256 = ch.len - 1
  BY IndexSlow DEF AtEnd
<1>3. ~AtLoop(ch)
  BY DEF AtLoop
<1>4. CASE AtEnd(ch)
  <2> DEFINE next == Advanced(ch)
  <2>1. next = [Off(ch) EXCEPT !.chunkPos = @ + ch.chunkInc]
    BY <1>4 DEF Advanced
  <2>2. /\ next.chunkPos = ch.chunkPos + ch.chunkInc /\ next.active = FALSE
        /\ next.chunkInc = ch.chunkInc /\ next.len = ch.len /\ next.loopLen = ch.loopLen
    BY <1>1, <2>1 DEF Off, ChannelState
  <2> HIDE DEF next
  <2> QED  BY <1>1, <1>2, <1>4, <2>2 DEF PlaysOn, next
<1>5. CASE ~AtEnd(ch)
  <2> DEFINE next == Advanced(ch)
  <2>1. next = [ch EXCEPT !.chunkPos = ch.chunkPos + ch.chunkInc]
    BY <1>3, <1>5 DEF Advanced
  <2>2. /\ next.chunkPos = ch.chunkPos + ch.chunkInc /\ next.active = ch.active
        /\ next.chunkInc = ch.chunkInc /\ next.len = ch.len /\ next.loopLen = ch.loopLen
    BY <1>1, <2>1 DEF ChannelState
  <2>3. Slow(next)
    BY AdvancedWhole DEF next
  <2> HIDE DEF next
  <2>4. next.chunkPos < 256 * (next.len + next.loopLen)
    BY <2>2, <2>3 DEF Slow
  <2>5. next.len + next.loopLen = next.len
    BY <1>1, <2>2
  <2> QED  BY <1>1, <1>2, <1>5, <2>2, <2>4, <2>5 DEF PlaysOn, next
<1> QED  BY <1>4, <1>5

\* mix looks for the end of a sound by equality, but never steps over it: a sound
\* without a loop gets on by chunkInc with every sample, stops at its last byte and
\* nowhere before, and otherwise is still within its bytes, whatever else is played.
THEOREM SoundsPlayOut ==
  ASSUME StepsOfAByte
  PROVE  AudioSpec =>
           [][NextSample =>
                \A c \in Channels : channel[c].active /\ channel[c].loopLen = 0 =>
                  PlaysOn(channel[c], channel'[c])]_<<vars, audioVars>>
<1>1. ASSUME ChannelsInv, NextSample, NEW c \in Channels,
             channel[c].active, channel[c].loopLen = 0
      PROVE  PlaysOn(channel[c], channel'[c])
  <2>1. channel'[c] = Advanced(channel[c])
    BY <1>1 DEF NextSample, MixSample
  <2>2. Whole(channel[c]) /\ Slow(channel[c])
    BY <1>1, ChannelOf
  <2> QED  BY <1>1, <2>1, <2>2, AdvancedPlaysOn
<1>2. ChannelsInv /\ [AudioNext]_<<vars, audioVars>> =>
        [NextSample =>
           \A c \in Channels : channel[c].active /\ channel[c].loopLen = 0 =>
             PlaysOn(channel[c], channel'[c])]_<<vars, audioVars>>
  BY <1>1
<1> QED  BY <1>2, ChannelsInit, ChannelsNext, PTL DEF AudioSpec

SignedByte == -128 .. 127
Weight == 0 .. 255
Loudness == 0 .. 64

LEMMA SumOfShares ==
  ASSUME NEW f \in Weight, NEW x \in Int, NEW y \in Int,
         -128 * (255 - f) <= x /\ x <= 127 * (255 - f),
         -128 * f <= y /\ y <= 127 * f
  PROVE  (x + y) \div 256 \in SignedByte
<1> USE DEF SignedByte, Weight
<1>1. -32640 <= x + y /\ x + y <= 32385
  OBVIOUS
<1>2. ASSUME NEW z \in Int, -32640 <= z, z <= 32385  PROVE z \div 256 \in -128 .. 127
  BY <1>2
<1> QED  BY <1>1, <1>2

\* A mean of two bytes with weights of 255 in all, taken in 1/256, is a byte.
Mean(b1, b2, f) == (b1 * (255 - f) + b2 * f) \div 256

LEMMA MeanOfBytes ==
  ASSUME NEW b1 \in SignedByte, NEW b2 \in SignedByte, NEW f \in Weight
  PROVE  Mean(b1, b2, f) \in SignedByte
<1> DEFINE x == b1 * (255 - f)
           y == b2 * f
<1>1. x \in Int /\ y \in Int
  BY DEF SignedByte, Weight
<1>2. -128 * (255 - f) <= x /\ x <= 127 * (255 - f)
  BY DEF SignedByte, Weight
<1>3. -128 * f <= y /\ y <= 127 * f
  BY DEF SignedByte, Weight
<1>4. Mean(b1, b2, f) = (x + y) \div 256
  BY DEF Mean
<1> HIDE DEF x, y
<1>5. (x + y) \div 256 \in SignedByte
  BY ONLY <1>1, <1>2, <1>3, SumOfShares, f \in Weight, Zenon
<1> QED  BY <1>4, <1>5

LEMMA ScaledByte ==
  ASSUME NEW b \in SignedByte, NEW volume \in Loudness
  PROVE  Quotient(b * volume, 64) \in SignedByte
<1> USE DEF SignedByte, Loudness
<1>1. CASE b >= 0
  <2>1. b * volume \in Nat /\ b * volume <= 127 * 64
    BY <1>1
  <2> QED  BY <2>1 DEF Quotient
<1>2. CASE b < 0
  <2>1. b * volume \in Int /\ -(b * volume) >= 0 /\ -(b * volume) <= 128 * 64
    BY <1>2
  <2> QED  BY <2>1 DEF Quotient
<1> QED  BY <1>1, <1>2

LEMMA LoudByte ==
  ASSUME NEW b \in SignedByte, NEW volume \in 0 .. 255
  PROVE  Quotient(b * volume, 64) \in -512 .. 512
<1>1. CASE b >= 0
  <2>1. b * volume \in Nat /\ b * volume <= 127 * 255
    BY <1>1 DEF SignedByte
  <2> QED  BY <2>1 DEF Quotient
<1>2. CASE b < 0
  <2>1. b * volume \in Int /\ -(b * volume) >= 0 /\ -(b * volume) <= 128 * 255
    BY <1>2 DEF SignedByte
  <2> QED  BY <2>1 DEF Quotient
<1> QED  BY <1>1, <1>2 DEF SignedByte

LEMMA ContributionRange ==
  ASSUME NEW ch, Whole(ch), NEW b1 \in Bytes, NEW b2 \in Bytes
  PROVE  /\ Contribution(ch, b1, b2) \in -512 .. 512
         /\ Quiet(ch) => Contribution(ch, b1, b2) \in SignedByte
<1> DEFINE f == Fraction(ch)
           b == Mean(b1, b2, f)
<1>1. f \in Weight /\ ch.volume \in 0 .. 255 /\ (Quiet(ch) => ch.volume \in Loudness)
  BY DEF Fraction, Whole, Quiet, ChannelState, Weight, Loudness
<1>2. b1 \in SignedByte /\ b2 \in SignedByte
  BY MixerAssumption DEF SignedByte
<1> HIDE DEF f
<1>3. b \in SignedByte
  BY <1>1, <1>2, MeanOfBytes
<1>4. Contribution(ch, b1, b2) = IF Reads(ch) = {} THEN 0 ELSE Quotient(b * ch.volume, 64)
  BY DEF Contribution, Mean, f
<1> HIDE DEF b
<1>5. Quotient(b * ch.volume, 64) \in -512 .. 512
  BY <1>1, <1>3, LoudByte
<1>6. Quiet(ch) => Quotient(b * ch.volume, 64) \in SignedByte
  BY <1>1, <1>3, ScaledByte
<1> QED  BY <1>4, <1>5, <1>6 DEF SignedByte

\* mixer.cpp, "result is clear clipping-free audio": no channel adds more than a byte
\* to a sample (NoClipping), wherever it is between two bytes, however the effects turn
\* it up, for all instruments that are not louder than 64.
THEOREM NothingClips == ASSUME ModuleVolumes PROVE AudioSpec => []NoClipping
<1>1. ASSUME NEW ch, Whole(ch), Quiet(ch), NEW b1 \in Bytes, NEW b2 \in Bytes
      PROVE  Contribution(ch, b1, b2) \in -128 .. 127
  BY <1>1, ContributionRange DEF SignedByte
<1>2. ChannelsInv => NoClipping
  BY <1>1, ChannelOf DEF NoClipping
<1> QED  BY <1>2, ChannelsInit, ChannelsNext, PTL DEF AudioSpec

-----------------------------------------------------------------------------
(* The sum over the channels.                                              *)

Pick(s) == CHOOSE x \in s : TRUE
\* The sum over s, from a number that is picked and the sum g of what is left.
Terms(f, g, s) == IF s = {} THEN 0 ELSE f[Pick(s)] + g[s \ {Pick(s)}]

IsSums(f, g, S) == g = [s \in SUBSET S |-> Terms(f, g, s)]
SumsUp(f, g, S) == \A s \in SUBSET S : g[s] = Terms(f, g, s)

LEMMA PickIn == ASSUME NEW s, s # {} PROVE Pick(s) \in s
BY DEF Pick

\* The induction over the subsets of a finite set.
LEMMA SmallestSubset ==
  ASSUME NEW S, IsFiniteSet(S), NEW T, T \subseteq SUBSET S, T # {}
  PROVE  \E s \in T : \A t \in T : ~ (t \subseteq s /\ t # s)
<1> DEFINE R == StrictSubsetOrdering(S)
<1>1. IsWellFoundedOn(R, SUBSET S)
  BY FS_StrictSubsetOrderingWellFounded, FS_FiniteSubsetsOfFinite
<1>2. PICK s \in T : \A t \in T : ~ (<<t, s>> \in R)
  BY <1>1, WFMin
<1>3. ASSUME NEW t \in T, t \subseteq s, t # s PROVE FALSE
  <2>1. <<t, s>> \in R
    BY <1>3 DEF StrictSubsetOrdering
  <2> QED  BY <1>2, <2>1
<1> QED  BY <1>3

LEMMA SumsAgree ==
  ASSUME NEW S, IsFiniteSet(S), NEW f, NEW s \in SUBSET S, NEW u \in SUBSET S,
         NEW g, SumsUp(f, g, s), NEW h, SumsUp(f, h, u)
  PROVE  \A t \in SUBSET (s \cap u) : g[t] = h[t]
<1> DEFINE T == {t \in SUBSET (s \cap u) : g[t] # h[t]}
<1>1. SUFFICES ASSUME T # {} PROVE FALSE
  OBVIOUS
<1>0. T \subseteq SUBSET S
  OBVIOUS
<1> HIDE DEF T
<1>2. PICK t \in T : \A v \in T : ~ (v \subseteq t /\ v # t)
  BY <1>0, <1>1, SmallestSubset
<1> USE DEF T
<1>3. t # {}
  BY DEF SumsUp, Terms
<1> DEFINE v == t \ {Pick(t)}
<1>4. v \subseteq t /\ v # t /\ v \in SUBSET (s \cap u)
  BY <1>3, PickIn
<1>5. g[v] = h[v]
  BY <1>2, <1>4
<1>6. g[t] = f[Pick(t)] + g[v] /\ h[t] = f[Pick(t)] + h[v]
  BY <1>3 DEF SumsUp, Terms
<1> QED  BY <1>5, <1>6

LEMMA SumExists ==
  ASSUME NEW S, IsFiniteSet(S), NEW f
  PROVE  \E g : IsSums(f, g, S)
<1> DEFINE Solved(s) == \E g : SumsUp(f, g, s)
           H(s) == CHOOSE g : SumsUp(f, g, s)
           G(s) == [t \in SUBSET s |-> IF t = {} THEN 0
                                      ELSE f[Pick(t)] + H(t \ {Pick(t)})[t \ {Pick(t)}]]
           T == {s \in SUBSET S : ~ Solved(s)}
<1>1. ASSUME NEW s \in SUBSET S, \A u \in SUBSET s : u # s => Solved(u)
      PROVE  SumsUp(f, G(s), s)
  <2>1. SUFFICES ASSUME NEW t \in SUBSET s PROVE G(s)[t] = Terms(f, G(s), t)
    BY DEF SumsUp
  <2>2. CASE t = {}
    BY <2>2 DEF Terms
  <2>3. CASE t # {}
    <3> DEFINE u == t \ {Pick(t)}
    <3>1. u \in SUBSET s /\ u # s /\ u \in SUBSET u /\ u \in SUBSET S
      BY <2>3, PickIn
    <3>2. SumsUp(f, H(u), u)
      BY <1>1, <3>1
    <3>3. G(s)[t] = f[Pick(t)] + H(u)[u]
      BY <2>3
    <3>4. Terms(f, G(s), t) = f[Pick(t)] + G(s)[u]
      BY <2>3 DEF Terms
    <3>5. CASE u = {}
      <4>1. H(u)[u] = 0
        BY <3>1, <3>2, <3>5 DEF SumsUp, Terms
      <4>2. G(s)[u] = 0
        BY <3>1, <3>5
      <4> QED  BY <3>3, <3>4, <4>1, <4>2
    <3>6. CASE u # {}
      <4> DEFINE v == u \ {Pick(u)}
      <4>1. v \in SUBSET u /\ v \in SUBSET s /\ v # s /\ v \in SUBSET S /\ v \in SUBSET (u \cap v)
        BY <3>1, <3>6, PickIn
      <4>2. H(u)[u] = f[Pick(u)] + H(u)[v]
        BY <3>1, <3>2, <3>6 DEF SumsUp, Terms
      <4>3. G(s)[u] = f[Pick(u)] + H(v)[v]
        BY <3>1, <3>6
      <4>4. SumsUp(f, H(v), v)
        BY <1>1, <4>1
      <4> HIDE DEF u, v, H
      <4>5. \A x \in SUBSET (u \cap v) : H(u)[x] = H(v)[x]
        BY <3>1, <3>2, <4>1, <4>4, SumsAgree
      <4>6. H(u)[v] = H(v)[v]
        BY <4>1, <4>5
      <4> QED  BY <3>3, <3>4, <4>2, <4>3, <4>6
    <3> QED  BY <3>5, <3>6
  <2> QED  BY <2>2, <2>3
<1>2. \A s \in SUBSET S : Solved(s)
  <2>1. SUFFICES ASSUME T # {} PROVE FALSE
    OBVIOUS
  <2>2. T \subseteq SUBSET S
    OBVIOUS
  <2> HIDE DEF T
  <2>3. PICK s \in T : \A u \in T : ~ (u \subseteq s /\ u # s)
    BY <2>1, <2>2, SmallestSubset
  <2>4. s \in SUBSET S /\ ~ Solved(s)
    BY <2>3 DEF T
  <2>5. \A u \in SUBSET s : u # s => Solved(u)
    BY <2>3, <2>4 DEF T
  <2> HIDE DEF G
  <2>6. SumsUp(f, G(s), s)
    BY <1>1, <2>4, <2>5
  <2> QED  BY <2>4, <2>6
<1> HIDE DEF H
<1>3. SumsUp(f, G(S), S)
  BY <1>1, <1>2
<1>4. G(S) = [s \in SUBSET S |-> G(S)[s]]
  OBVIOUS
<1> HIDE DEF G
<1>5. G(S) = [s \in SUBSET S |-> Terms(f, G(S), s)]
  BY <1>3, <1>4 DEF SumsUp
<1> QED  BY <1>5 DEF IsSums

LEMMA SumRange ==
  ASSUME NEW S, IsFiniteSet(S), NEW f, NEW lo \in Int, NEW hi \in Int,
         \A x \in S : f[x] \in Int /\ lo <= f[x] /\ f[x] <= hi,
         NEW g, SumsUp(f, g, S)
  PROVE  g[S] \in lo * Cardinality(S) .. hi * Cardinality(S)
<1> DEFINE InRange(s) == g[s] \in lo * Cardinality(s) .. hi * Cardinality(s)
           T == {s \in SUBSET S : ~ InRange(s)}
<1>1. SUFFICES ASSUME T # {} PROVE FALSE
  BY DEF T
<1>2. T \subseteq SUBSET S
  OBVIOUS
<1> HIDE DEF T
<1>3. PICK s \in T : \A u \in T : ~ (u \subseteq s /\ u # s)
  BY <1>1, <1>2, SmallestSubset
<1>4. s \in SUBSET S /\ ~ InRange(s) /\ IsFiniteSet(s)
  BY <1>3, FS_Subset DEF T
<1>5. CASE s = {}
  <2>1. g[s] = 0 /\ Cardinality(s) = 0
    BY <1>4, <1>5, FS_EmptySet DEF SumsUp, Terms
  <2> QED  BY <1>4, <2>1
<1>6. CASE s # {}
  <2> DEFINE x == Pick(s)
             u == s \ {x}
  <2>1. x \in s /\ x \in S /\ u \in SUBSET S /\ u \subseteq s /\ u # s
    BY <1>4, <1>6, PickIn
  <2>2. g[s] = f[x] + g[u]
    BY <1>4, <1>6 DEF SumsUp, Terms
  <2> HIDE DEF x
  <2>3. /\ Cardinality(u) = Cardinality(s) - 1
        /\ Cardinality(s) \in Nat
    BY <1>4, <2>1, FS_RemoveElement, FS_CardinalityType
  <2> HIDE DEF u, InRange
  <2>4. InRange(u)
    BY <1>3, <1>4, <2>1 DEF T
  <2> DEFINE n == Cardinality(s)
  <2>5. g[u] \in lo * (n - 1) .. hi * (n - 1)
    BY <2>3, <2>4 DEF InRange
  <2>6. f[x] \in Int /\ lo <= f[x] /\ f[x] <= hi /\ n \in Nat
    BY <2>1, <2>3
  <2> HIDE DEF n
  <2>7. f[x] + g[u] \in lo * n .. hi * n
    BY <2>5, <2>6
  <2> QED  BY <1>4, <2>2, <2>7 DEF InRange, n
<1> QED  BY <1>5, <1>6

LEMMA SumOfChannels ==
  ASSUME NEW b1, NEW b2
  PROVE  LET f == [c \in Channels |-> Contribution(channel[c], b1[c], b2[c])]
         IN  \E g : SumsUp(f, g, Channels) /\ Sum(b1, b2) = g[Channels]
<1> DEFINE K(c) == Contribution(channel[c], b1[c], b2[c])
           f == [c \in Channels |-> K(c)]
           Unfolded(g) == [s \in SUBSET Channels |->
             IF s = {} THEN 0 ELSE LET x == CHOOSE x \in s : TRUE IN K(x) + g[s \ {x}]]
           Chosen == CHOOSE g : g = Unfolded(g)
<1>1. Sum(b1, b2) = Chosen[Channels]
  BY DEF Sum, MapThenSumSet, MapThenFoldSet
<1>2. ASSUME NEW g, NEW s \in SUBSET Channels
      PROVE  Terms(f, g, s) = Unfolded(g)[s]
  <2>1. CASE s = {}
    BY <2>1 DEF Terms
  <2>2. CASE s # {}
    <3>1. Pick(s) \in Channels
      BY <2>2, PickIn
    <3>2. f[Pick(s)] = K(Pick(s))
      BY <3>1
    <3> HIDE DEF f, K
    <3> QED  BY <2>2, <3>2 DEF Terms, Pick
  <2> QED  BY <2>1, <2>2
<1>3. IsFiniteSet(Channels)
  BY FS_Interval, MixerAssumption DEF Channels
<1>4. \A g : Unfolded(g) = [s \in SUBSET Channels |-> Unfolded(g)[s]]
  OBVIOUS
<1> HIDE DEF f, Unfolded
<1>5. \A g : Unfolded(g) = [s \in SUBSET Channels |-> Terms(f, g, s)]
  BY <1>2, <1>4
<1>6. \E g : g = Unfolded(g)
  <2>1. PICK g : IsSums(f, g, Channels)
    BY <1>3, SumExists
  <2>2. g = Unfolded(g)
    BY <1>5, <2>1 DEF IsSums
  <2> QED  BY <2>2
<1>7. Chosen = Unfolded(Chosen)
  BY <1>6
<1> HIDE DEF Chosen
<1>8. SumsUp(f, Chosen, Channels)
  BY <1>2, <1>7 DEF SumsUp
<1> QED  BY <1>1, <1>8 DEF f

Between(b1, b2, lo, hi) ==
  \A c \in Channels : LET k == Contribution(channel[c], b1[c], b2[c])
                      IN  k \in Int /\ lo <= k /\ k <= hi

\* A bound of what every channel adds is one of the mean over the channels.
LEMMA SumBounds ==
  ASSUME NEW b1, NEW b2, NEW lo \in Int, NEW hi \in Int,
         Between(b1, b2, lo, hi)
  PROVE  Sum(b1, b2) \in lo * NumChannels .. hi * NumChannels
<1> DEFINE f == [c \in Channels |-> Contribution(channel[c], b1[c], b2[c])]
<1>1. \A c \in Channels : f[c] \in Int /\ lo <= f[c] /\ f[c] <= hi
  BY DEF Between
<1>2. PICK g : SumsUp(f, g, Channels) /\ Sum(b1, b2) = g[Channels]
  BY SumOfChannels
<1> HIDE DEF f
<1>3. IsFiniteSet(Channels) /\ Cardinality(Channels) = NumChannels
  BY FS_Interval, MixerAssumption DEF Channels
<1>4. g[Channels] \in lo * Cardinality(Channels) .. hi * Cardinality(Channels)
  BY <1>1, <1>2, <1>3, SumRange
<1> QED  BY <1>2, <1>3, <1>4

\* Any volume of a byte, which is what instruments may have.

LEMMA SumInt ==
  ASSUME ChannelsInv, NEW b1 \in [Channels -> Bytes], NEW b2 \in [Channels -> Bytes]
  PROVE  Sum(b1, b2) \in Int
<1>1. ASSUME NEW c \in Channels
      PROVE  Contribution(channel[c], b1[c], b2[c]) \in -512 .. 512
  BY <1>1, ChannelOf, ContributionRange
<1> DEFINE lo == -512
           hi == 512
<1>2. lo \in Int /\ hi \in Int /\ Between(b1, b2, lo, hi)
  <2>1. lo \in Int /\ hi \in Int /\ \A k \in lo .. hi : k \in Int /\ lo <= k /\ k <= hi
    OBVIOUS
  <2>2. \A c \in Channels : Contribution(channel[c], b1[c], b2[c]) \in lo .. hi
    BY <1>1
  <2> HIDE DEF lo, hi
  <2> QED  BY <2>1, <2>2 DEF Between
<1> HIDE DEF lo, hi
<1>3. Sum(b1, b2) \in lo * NumChannels .. hi * NumChannels
  BY <1>2, SumBounds
<1>4. lo * NumChannels \in Int /\ hi * NumChannels \in Int
  BY <1>2, MixerAssumption
<1> QED  BY <1>3, <1>4

LEMMA IntoInt16 == ASSUME NEW x \in Int, -32768 <= x, x <= 32767 PROVE x \in Int16
<1>1. HalfWord \in Int /\ -HalfWord <= x /\ x <= HalfWord - 1
  BY DEF HalfWord
<1> QED  BY <1>1 DEF Int16

LEMMA SignedType == ASSUME NEW x \in Int PROVE Signed16(x) \in Int16
<1>1. Signed16(x) \in Int /\ -32768 <= Signed16(x) /\ Signed16(x) <= 32767
  BY DEF Signed16, HalfWord
<1> QED  BY <1>1, IntoInt16

LEMMA SignedSame == ASSUME NEW x \in Int, -32768 <= x, x <= 32767 PROVE Signed16(x) = x
BY DEF Signed16, HalfWord

LEMMA UpperHalfType == ASSUME NEW x \in Int16 PROVE UpperHalf(x) \in Int16
<1>1. -1 \in Int16
  BY IntoInt16
<1> QED  BY <1>1 DEF UpperHalf

\* The mixer keeps its types (TypeOK): whatever the channels add up to, the samples that
\* are handed over are words.
THEOREM TypeCorrect == AudioSpec => []TypeOK
<1> DEFINE Out == left \in Int16 /\ right \in Int16
<1>1. AudioInit => Out
  BY IntoInt16 DEF AudioInit, Init
<1>2. ChannelsInv /\ Out /\ [AudioNext]_<<vars, audioVars>> => Out'
  <2> SUFFICES ASSUME ChannelsInv, Out, [AudioNext]_<<vars, audioVars>>  PROVE Out'
    OBVIOUS
  <2>1. CASE NextSample
    <3>1. PICK b1 \in [Channels -> Bytes], b2 \in [Channels -> Bytes] :
            LET sample == Signed16(Sum(b1, b2) * 32)
            IN  left' = UpperHalf(sample) /\ right' = sample
      BY <2>1 DEF NextSample, MixSample
    <3>2. Sum(b1, b2) * 32 \in Int
      BY SumInt
    <3> QED  BY <3>1, <3>2, SignedType, UpperHalfType
  <2>2. CASE Play
    <3>1. ASSUME NEW c, NEW note, NEW sample, NEW effect, Pattern(c, note, sample, effect)
          PROVE  UNCHANGED <<left, right>>
      BY <3>1, SMT DEF Pattern
    <3>2. UNCHANGED <<left, right>>
      BY <2>2, <3>1, SMT DEF Play, Script, Music, PlaySound, PatternAlone
    <3> QED  BY <3>2, Zenon
  <2>3. CASE BeginMix \/ Submit \/ Played \/ UNCHANGED <<vars, audioVars>>
    BY <2>3 DEF BeginMix, Submit, Played, vars
  <2> QED  BY <2>1, <2>2, <2>3 DEF AudioNext
<1>3. ChannelsInv /\ Out => TypeOK
  BY DEF ChannelsInv, TypeOK
<1> QED  BY <1>1, <1>2, <1>3, ChannelsInit, ChannelsNext, PTL DEF AudioSpec

\* What is sent to the right side is the sum of the channels: neither the sum of the
\* bytes nor its scaling by 32 wraps.
SamplesAreSums ==
  [][NextSample => \E b1, b2 \in [Channels -> Bytes] : right' = Sum(b1, b2) * 32]_<<vars, audioVars>>

\* mixer.cpp, "[-128,127]*4 == [-512,511]": with up to eight channels and instruments that
\* are not louder than 64 no sample wraps, whatever is played.
THEOREM NothingWraps ==
  ASSUME ModuleVolumes, NumChannels <= 8  PROVE AudioSpec => SamplesAreSums
<1>1. ASSUME ChannelsInv, NextSample
      PROVE  \E b1, b2 \in [Channels -> Bytes] : right' = Sum(b1, b2) * 32
  <2>1. PICK b1 \in [Channels -> Bytes], b2 \in [Channels -> Bytes] :
          right' = Signed16(Sum(b1, b2) * 32)
    BY <1>1 DEF NextSample, MixSample
  <2>2. ASSUME NEW c \in Channels
        PROVE  Contribution(channel[c], b1[c], b2[c]) \in SignedByte
    BY <1>1, <2>2, ChannelOf, ContributionRange
  <2> DEFINE lo == -128
             hi == 127
  <2>3. lo \in Int /\ hi \in Int /\ Between(b1, b2, lo, hi)
    BY <2>2 DEF Between, SignedByte
  <2> HIDE DEF lo, hi
  <2>4. Sum(b1, b2) \in lo * NumChannels .. hi * NumChannels
    BY <2>3, SumBounds
  <2> DEFINE x == Sum(b1, b2) * 32
  <2>5. x \in Int /\ -32768 <= x /\ x <= 32767
    BY <2>4, MixerAssumption DEF lo, hi
  <2> HIDE DEF x
  <2>6. Signed16(x) = x
    BY <2>5, SignedSame
  <2> QED  BY <2>1, <2>6 DEF x
<1>2. ChannelsInv => [NextSample => \E b1, b2 \in [Channels -> Bytes] :
                                     right' = Sum(b1, b2) * 32]_<<vars, audioVars>>
  BY <1>1
<1> QED  BY <1>2, ChannelsInit, ChannelsNext, PTL DEF AudioSpec, SamplesAreSums
=============================================================================
