-------------------------- MODULE SoundPlayerProofs --------------------------
(***************************************************************************)
(* Theorems about the sounds: for any sounds, musics and channels, and     *)
(* wherever the interrupts come.  First what SoundPlayer has, the channels *)
(* and the timer; then the place in the music, which Music adds.           *)
(***************************************************************************)
EXTENDS Music, TLAPS

\* What is known of the timer of the music at every stage of the main program.
TimerInv ==
  /\ timers \subseteq {timerId}
  /\ pc \in {"idle", "store", "forget", "stop_all", "release"} =>
       (timers = {} <=> resNum = None)
  /\ pc \in {"start", "stop_all", "release", "halted"} => timers = {}
  /\ pc = "start" => resNum # None
  /\ pc = "remove" => resNum = None
  /\ pc \in {"forget", "remove"} /\ timers = {} => late

\* A music that plays, or is about to, is loaded with its instruments.
MusicInv ==
  timers # {} \/ pc = "start" =>
    sfxMod \in Musics /\ sfxMod \in loaded /\ Instruments[sfxMod] \subseteq loaded

\* The channels play what is loaded, and a release has stopped those it passed.
ChannelInv ==
  /\ \A c \in Channels :
       channel[c].active /\ ~BeingWritten(c) =>
         channel[c].data \in loaded /\ channel[c].len \in loaded
  /\ pc = "store" =>
       /\ chunk \in loaded
       /\ "data" \notin unset => channel[chan].data \in loaded
       /\ "len" \notin unset => channel[chan].len \in loaded
  /\ pc \in {"forget", "remove"} => chan = 0
  /\ pc = "stop_all" => \A c \in Channels : c < chan => ~channel[c].active
  /\ pc = "release" => \A c \in Channels : ~channel[c].active

SafeInv == TypeOK /\ TimerInv /\ MusicInv /\ ChannelInv

\* All of it holds until a music is started over another, or without being loaded.
IndInv == TypeOK /\ (unruly \/ SafeInv)

\* What an interrupt can do to a channel.
SameSound(c) ==
  /\ channel'[c].data = channel[c].data
  /\ channel'[c].len = channel[c].len
  /\ channel'[c].pos = channel[c].pos
  /\ channel'[c].active => channel[c].active

NewNote(c) ==
  /\ timers # {}
  /\ c \in MusicChannels
  /\ channel'[c].data \in Instruments[sfxMod]
  /\ channel'[c].len = channel'[c].data
  /\ channel'[c].pos = channel'[c].data

-----------------------------------------------------------------------------
\* Records of channels.
LEMMA OffCell ==
  ASSUME NEW cell \in Cells
  PROVE  /\ Off(cell) \in Cells
         /\ ~Off(cell).active
         /\ Off(cell).data = cell.data
         /\ Off(cell).len = cell.len
         /\ Off(cell).pos = cell.pos
BY DEF Off, Cells

LEMMA PlayingCell ==
  ASSUME NEW s \in Sounds \cup {None}
  PROVE  /\ Playing(s) \in Cells
         /\ Playing(s).active
         /\ Playing(s).data = s
         /\ Playing(s).len = s
         /\ Playing(s).pos = s
BY DEF Playing, Cells

\* One write of playChannel.
LEMMA StoreEffect ==
  ASSUME TypeOK, NEW f \in Fields, StoreField(f)
  PROVE  /\ channel' \in [Channels -> Cells]
         /\ \A c \in Channels \ {chan} : channel'[c] = channel[c]
         /\ channel'[chan].data = IF f = "data" THEN chunk ELSE channel[chan].data
         /\ channel'[chan].len = IF f = "len" THEN chunk ELSE channel[chan].len
         /\ channel'[chan].pos = IF f = "pos" THEN chunk ELSE channel[chan].pos
<1> DEFINE cell == [channel[chan] EXCEPT ![f] = Playing(chunk)[f]]
<1>1. /\ chan \in Channels /\ channel \in [Channels -> Cells]
      /\ chunk \in Sounds \cup {None}
      /\ channel' = [channel EXCEPT ![chan] = cell]
  BY DEF TypeOK, StoreField
<1>2. /\ cell \in Cells
      /\ cell.data = IF f = "data" THEN chunk ELSE channel[chan].data
      /\ cell.len = IF f = "len" THEN chunk ELSE channel[chan].len
      /\ cell.pos = IF f = "pos" THEN chunk ELSE channel[chan].pos
  <2>1. /\ channel[chan] \in Cells /\ f \in {"active", "data", "len", "pos"}
        /\ chunk \in Sounds \cup {None}
    BY <1>1 DEF Fields
  <2>2. CASE f = "active"
    BY <2>1, <2>2 DEF Cells, Playing
  <2>3. CASE f = "data"
    BY <2>1, <2>3 DEF Cells, Playing
  <2>4. CASE f = "len"
    BY <2>1, <2>4 DEF Cells, Playing
  <2>5. CASE f = "pos"
    BY <2>1, <2>5 DEF Cells, Playing
  <2> QED  BY <2>1, <2>2, <2>3, <2>4, <2>5
<1> HIDE DEF cell
<1> QED  BY <1>1, <1>2

\* The patterns of a music.
LEMMA PatternEffect ==
  ASSUME TypeOK, NEW after \in AfterPatterns
  PROVE  /\ after \in [Channels -> Cells]
         /\ \A c \in Channels :
              \/ after[c] = channel[c]
              \/ after[c] = Off(channel[c])
              \/ /\ c \in MusicChannels \/ sfxMod \notin loaded
                 /\ \E s \in InstrumentsOf(sfxMod) : after[c] = Playing(s)
<1>1. InstrumentsOf(sfxMod) \subseteq Sounds
  BY SoundsAssumption DEF TypeOK, InstrumentsOf
<1>2. \A c \in Channels : AfterPattern(c) \subseteq Cells
  <2> SUFFICES ASSUME NEW c \in Channels PROVE AfterPattern(c) \subseteq Cells
    OBVIOUS
  <2>1. channel[c] \in Cells /\ Off(channel[c]) \in Cells
    BY OffCell DEF TypeOK
  <2>2. \A s \in InstrumentsOf(sfxMod) : Playing(s) \in Cells
    BY <1>1, PlayingCell
  <2> QED  BY <2>1, <2>2 DEF AfterPattern
<1>3. after \in [Channels -> UNION {AfterPattern(c) : c \in Channels}]
      /\ \A c \in Channels : after[c] \in AfterPattern(c)
  BY DEF AfterPatterns
<1>4. after \in [Channels -> Cells]
  BY <1>2, <1>3
<1> QED  BY <1>3, <1>4 DEF AfterPattern

\* An interrupt stops channels and plays instruments of the music.
LEMMA InterruptEffect ==
  ASSUME TypeOK, Interrupt
  PROVE  /\ channel' \in [Channels -> Cells]
         /\ MusicInv => \A c \in Channels : SameSound(c) \/ NewNote(c)
<1>0. \A c \in Channels : channel[c] \in Cells
  BY DEF TypeOK
<1>1. CASE Mix
  <2>1. PICK ended \in SUBSET Channels :
          channel' = [c \in Channels |-> IF c \in ended THEN Off(channel[c]) ELSE channel[c]]
    BY <1>1 DEF Mix
  <2>2. \A c \in Channels : channel'[c] \in {channel[c], Off(channel[c])}
    BY <2>1
  <2>3. channel' \in [Channels -> Cells]
    BY <1>0, <2>1, OffCell
  <2> QED  BY <1>0, <2>2, <2>3, OffCell DEF SameSound
<1>2. ASSUME timers # {}, NEW after \in AfterPatterns,
             \/ channel' = after
             \/ channel' = [c \in Channels |-> Off(after[c])]
      PROVE  /\ channel' \in [Channels -> Cells]
             /\ MusicInv => \A c \in Channels : SameSound(c) \/ NewNote(c)
  <2>1. after \in [Channels -> Cells]
    BY <1>2, PatternEffect
  <2>2. channel' \in [Channels -> Cells]
    BY <1>2, <2>1, OffCell
  <2>3. ASSUME MusicInv, NEW c \in Channels PROVE SameSound(c) \/ NewNote(c)
    <3>0. InstrumentsOf(sfxMod) = Instruments[sfxMod] /\ sfxMod \in loaded
      BY <1>2, <2>3, SoundsAssumption DEF MusicInv, InstrumentsOf
    <3>1. channel'[c] = after[c] \/ channel'[c] = Off(after[c])
      BY <1>2
    <3>2. /\ channel'[c].data = after[c].data
          /\ channel'[c].len = after[c].len
          /\ channel'[c].pos = after[c].pos
          /\ channel'[c].active => after[c].active
      BY <3>1, <2>1, OffCell
    <3>3. \/ after[c] = channel[c]
          \/ after[c] = Off(channel[c])
          \/ c \in MusicChannels /\ \E s \in Instruments[sfxMod] : after[c] = Playing(s)
      BY <1>2, <3>0, PatternEffect
    <3>4. CASE after[c] \in {channel[c], Off(channel[c])}
      BY <3>2, <3>4, <1>0, OffCell DEF SameSound
    <3>5. CASE c \in MusicChannels /\ \E s \in Instruments[sfxMod] : after[c] = Playing(s)
      <4>1. Instruments[sfxMod] \subseteq Sounds
        BY <1>2, <2>3, SoundsAssumption DEF MusicInv
      <4>2. PICK s \in Instruments[sfxMod] : after[c] = Playing(s)
        BY <3>5
      <4>3. after[c].data = s /\ after[c].len = s /\ after[c].pos = s
        BY <4>1, <4>2, PlayingCell
      <4> QED  BY <1>2, <3>2, <3>5, <4>3 DEF NewNote
    <3> QED  BY <3>3, <3>4, <3>5
  <2> QED  BY <2>2, <2>3
<1>3. CASE PlayPattern
  BY <1>3, <1>2 DEF PlayPattern
<1>4. CASE LastPattern
  BY <1>4, <1>2 DEF LastPattern
<1> QED  BY <1>1, <1>3, <1>4 DEF Interrupt

-----------------------------------------------------------------------------
\* The interrupts, wherever they come.
LEMMA InterruptInv ==
  ASSUME SafeInv, Interrupt
  PROVE  SafeInv'
<1> USE DEF SafeInv
<1>1. /\ UNCHANGED <<loaded, sfxMod, timerId, pc, argVars, unruly>>
      /\ \/ UNCHANGED <<resNum, timers, late, removedDead>>
         \/ /\ timers # {} /\ resNum' = None /\ timers' = timers \ {timerId} /\ late'
            /\ removedDead' = (removedDead \/ timerId \notin timers)
  BY DEF Interrupt, Mix, PlayPattern, LastPattern, playerVars, historyVars
<1>2. /\ channel' \in [Channels -> Cells]
      /\ \A c \in Channels : SameSound(c) \/ NewNote(c)
  BY InterruptEffect
<1>3. TypeOK'
  <2>1. late' \in BOOLEAN /\ removedDead' \in BOOLEAN
    BY <1>1 DEF Interrupt, Mix, PlayPattern, LastPattern, TypeOK, historyVars
  <2> QED  BY <1>1, <1>2, <2>1 DEF TypeOK, argVars
<1>4. TimerInv'
  BY <1>1 DEF TimerInv
<1>5. MusicInv'
  BY <1>1 DEF MusicInv
<1>6. ChannelInv'
  <2>1. \A c \in Channels : NewNote(c) =>
          /\ channel'[c].data \in loaded /\ channel'[c].len \in loaded
          /\ pc \notin {"stop_all", "release"}
    BY DEF NewNote, MusicInv, TimerInv
  <2>2. chan \in Channels
    BY DEF TypeOK
  <2>3. \A c \in Channels : channel'[c].active /\ ~BeingWritten(c)' =>
          channel'[c].data \in loaded' /\ channel'[c].len \in loaded'
    BY <1>1, <1>2, <2>1 DEF ChannelInv, SameSound, BeingWritten, argVars
  <2>4. pc' = "store" =>
          /\ chunk' \in loaded'
          /\ "data" \notin unset' => channel'[chan'].data \in loaded'
          /\ "len" \notin unset' => channel'[chan'].len \in loaded'
    BY <1>1, <1>2, <2>1, <2>2 DEF ChannelInv, SameSound, argVars
  <2>5. /\ pc' \in {"forget", "remove"} => chan' = 0
        /\ pc' = "stop_all" => \A c \in Channels : c < chan' => ~channel'[c].active
    BY <1>1, <1>2, <2>1 DEF ChannelInv, SameSound, argVars
  <2>6. pc' = "release" => \A c \in Channels : ~channel'[c].active
    BY <1>1, <1>2, <2>1 DEF ChannelInv, SameSound
  <2> QED  BY <2>3, <2>4, <2>5, <2>6 DEF ChannelInv
<1> QED  BY <1>3, <1>4, <1>5, <1>6

\* Sounds from scripts: opcodes that do not touch the music.
LEMMA SoundInv ==
  ASSUME SafeInv,
         \/ \E r \in Sounds \cup Musics : Load(r)
         \/ \E s \in Sounds, c \in EffectChannels : PlaySound(s, c)
         \/ \E c \in EffectChannels : StopSound(c)
         \/ \E f \in Fields : StoreField(f)
  PROVE  SafeInv'
<1> USE SoundsAssumption DEF SafeInv, playerVars, argVars, historyVars
<1>1. CASE \E r \in Sounds \cup Musics : Load(r)
  <2>1. TypeOK' /\ TimerInv' /\ MusicInv'
    BY <1>1 DEF Load, TypeOK, TimerInv, MusicInv
  <2>2. ChannelInv'
    BY <1>1 DEF Load, ChannelInv, BeingWritten
  <2> QED  BY <2>1, <2>2
<1>2. CASE \E s \in Sounds, c \in EffectChannels : PlaySound(s, c)
  <2>1. PICK s \in Sounds, c \in EffectChannels : PlaySound(s, c)
    BY <1>2
  <2>2. TypeOK' /\ TimerInv' /\ MusicInv'
    BY <2>1 DEF PlaySound, TypeOK, TimerInv, MusicInv
  <2>3. ChannelInv'
    BY <2>1 DEF PlaySound, ChannelInv, BeingWritten, Fields
  <2> QED  BY <2>2, <2>3
<1>3. CASE \E c \in EffectChannels : StopSound(c)
  <2>1. PICK c \in EffectChannels : StopSound(c)
    BY <1>3
  <2>2. /\ channel' \in [Channels -> Cells]
        /\ \A d \in Channels : SameSound(d)
    BY <2>1, OffCell DEF StopSound, TypeOK, SameSound
  <2>3. TypeOK' /\ TimerInv' /\ MusicInv'
    BY <2>1, <2>2 DEF StopSound, TypeOK, TimerInv, MusicInv
  <2>4. ChannelInv'
    BY <2>1, <2>2 DEF StopSound, SameSound, ChannelInv, BeingWritten
  <2> QED  BY <2>3, <2>4
<1>4. CASE \E f \in Fields : StoreField(f)
  <2>1. PICK f \in Fields : StoreField(f)
    BY <1>4
  <2>2. /\ pc = "store" /\ chunk \in loaded /\ chan \in Channels
        /\ unset' = unset \ {f} /\ pc' = IF unset' = {} THEN "idle" ELSE "store"
        /\ UNCHANGED <<loaded, playerVars, chan, chunk, releasing, historyVars>>
    BY <2>1 DEF StoreField, TypeOK, ChannelInv
  <2>3. chunk \in Sounds
    BY <2>2 DEF TypeOK
  <2>4. /\ channel' \in [Channels -> Cells]
        /\ \A c \in Channels \ {chan} : channel'[c] = channel[c]
        /\ channel'[chan].data = IF f = "data" THEN chunk ELSE channel[chan].data
        /\ channel'[chan].len = IF f = "len" THEN chunk ELSE channel[chan].len
    BY <2>1, <2>3, StoreEffect
  <2>5. TypeOK' /\ TimerInv' /\ MusicInv'
    BY <2>2, <2>4 DEF TypeOK, TimerInv, MusicInv
  <2>6. /\ "data" \notin unset' => channel'[chan].data \in loaded
        /\ "len" \notin unset' => channel'[chan].len \in loaded
    BY <2>2, <2>4 DEF ChannelInv
  <2>7. ChannelInv'
    BY <2>2, <2>4, <2>6 DEF ChannelInv, BeingWritten
  <2> QED  BY <2>5, <2>7
<1> QED  BY <1>1, <1>2, <1>3, <1>4

\* The music, and the release.
LEMMA MusicStepInv ==
  ASSUME SafeInv,
         \/ \E m \in Musics : MayStart(m) /\ LoadSfxModule(m)
         \/ Start
         \/ \E release \in BOOLEAN : Stop(release)
         \/ ForgetMusic
         \/ RemoveTimer
         \/ StopNext
         \/ Release
  PROVE  SafeInv'
<1> USE SoundsAssumption DEF SafeInv, playerVars, argVars, historyVars
<1>1. CASE \E m \in Musics : MayStart(m) /\ LoadSfxModule(m)
  <2>1. PICK m \in Musics : MayStart(m) /\ LoadSfxModule(m)
    BY <1>1
  <2>2. TypeOK' /\ TimerInv' /\ MusicInv'
    BY <2>1 DEF LoadSfxModule, MayStart, TypeOK, TimerInv, MusicInv
  <2>3. ChannelInv'
    BY <2>1 DEF LoadSfxModule, ChannelInv, BeingWritten
  <2> QED  BY <2>2, <2>3
<1>2. CASE Start
  <2>1. TypeOK' /\ TimerInv' /\ MusicInv'
    BY <1>2 DEF Start, TypeOK, TimerInv, MusicInv
  <2>2. ChannelInv'
    BY <1>2 DEF Start, ChannelInv, BeingWritten
  <2> QED  BY <2>1, <2>2
<1>3. CASE \E release \in BOOLEAN : Stop(release)
  <2>1. PICK release \in BOOLEAN : Stop(release)
    BY <1>3
  <2>2. 0 \in Channels /\ \A c \in Channels : ~(c < 0)
    BY DEF Channels
  <2>3. TypeOK' /\ TimerInv' /\ MusicInv'
    BY <2>1, <2>2 DEF Stop, AfterStop, TypeOK, TimerInv, MusicInv
  <2>4. ChannelInv'
    BY <2>1, <2>2 DEF Stop, AfterStop, ChannelInv, BeingWritten
  <2> QED  BY <2>3, <2>4
<1>4. CASE ForgetMusic
  BY <1>4 DEF ForgetMusic, TypeOK, TimerInv, MusicInv, ChannelInv, BeingWritten
<1>5. CASE RemoveTimer
  <2>1. TypeOK' /\ TimerInv' /\ MusicInv'
    BY <1>5 DEF RemoveTimer, AfterStop, TypeOK, TimerInv, MusicInv
  <2>2. ChannelInv'
    <3>1. \A c \in Channels : ~(c < 0)
      BY DEF Channels
    <3> QED  BY <1>5, <3>1 DEF RemoveTimer, AfterStop, ChannelInv, BeingWritten
  <2> QED  BY <2>1, <2>2
<1>6. CASE StopNext
  <2>1. chan \in 0 .. NumChannels - 1
    BY DEF TypeOK, Channels
  <2>2. /\ channel' \in [Channels -> Cells]
        /\ \A c \in Channels : SameSound(c)
        /\ ~channel'[chan].active
    BY <1>6, <2>1, OffCell DEF StopNext, TypeOK, SameSound, Channels
  <2>3. chan' \in Channels
    BY <1>6, <2>1 DEF StopNext, Channels
  <2>4. TypeOK' /\ TimerInv' /\ MusicInv'
    BY <1>6, <2>2, <2>3 DEF StopNext, TypeOK, TimerInv, MusicInv
  <2>5. \A c \in Channels : c < chan + 1 => ~channel'[c].active
    BY <1>6, <2>1, <2>2 DEF StopNext, ChannelInv, SameSound, Channels
  <2>6. ChannelInv'
    BY <1>6, <2>1, <2>2, <2>5 DEF StopNext, ChannelInv, SameSound, BeingWritten, Channels
  <2> QED  BY <2>4, <2>6
<1>7. CASE Release
  <2>1. TypeOK' /\ TimerInv' /\ MusicInv'
    BY <1>7 DEF Release, TypeOK, TimerInv, MusicInv
  <2>2. ChannelInv'
    BY <1>7 DEF Release, ChannelInv, BeingWritten
  <2> QED  BY <2>1, <2>2
<1> QED  BY <1>1, <1>2, <1>3, <1>4, <1>5, <1>6, <1>7

LEMMA InitInv == Init => IndInv
<1> SUFFICES ASSUME Init PROVE SafeInv
  BY DEF IndInv, SafeInv
<1>1. 0 \in Channels
  BY SoundsAssumption DEF Channels
<1>2. \A c \in Channels : channel[c] \in Cells /\ ~channel[c].active
  BY DEF Init, Cells
<1>3. channel \in [Channels -> Cells]
  BY <1>2 DEF Init
<1> QED  BY <1>1, <1>2, <1>3 DEF Init, SafeInv, TypeOK, TimerInv, MusicInv, ChannelInv

\* The types do not depend on how musics are started.
LEMMA TypeStep == TypeOK /\ [Next]_vars => TypeOK'
<1> SUFFICES ASSUME TypeOK, [Next]_vars PROVE TypeOK'
  OBVIOUS
<1> USE SoundsAssumption DEF playerVars, argVars, historyVars
<1>1. CASE Interrupt
  <2>1. channel' \in [Channels -> Cells]
    BY <1>1, InterruptEffect
  <2> QED  BY <1>1, <2>1 DEF Interrupt, Mix, PlayPattern, LastPattern, TypeOK
<1>2. ASSUME NEW d \in Channels, channel' = [channel EXCEPT ![d] = Off(@)]
      PROVE  channel' \in [Channels -> Cells]
  BY <1>2, OffCell DEF TypeOK
<1>3. ASSUME NEW c \in EffectChannels, StopSound(c)  PROVE TypeOK'
  BY <1>2, <1>3 DEF StopSound, TypeOK
<1>4. CASE StopNext
  <2>1. chan \in 0 .. NumChannels - 1
    BY DEF TypeOK, Channels
  <2>2. channel' \in [Channels -> Cells]
    BY <1>2, <1>4, <2>1 DEF StopNext, Channels
  <2>3. chan' \in Channels
    BY <1>4, <2>1 DEF StopNext, Channels
  <2> QED  BY <1>4, <2>2, <2>3 DEF StopNext, TypeOK
<1>5. ASSUME NEW f \in Fields, StoreField(f)  PROVE TypeOK'
  BY <1>5, StoreEffect DEF StoreField, TypeOK
<1>6. ASSUME NEW m \in Musics, LoadSfxModule(m)  PROVE TypeOK'
  BY <1>6 DEF LoadSfxModule, TypeOK
<1>7. ASSUME NEW s \in Sounds, NEW c \in EffectChannels, PlaySound(s, c)  PROVE TypeOK'
  BY <1>7 DEF PlaySound, TypeOK, Fields
<1>8. ASSUME NEW release \in BOOLEAN, Stop(release)  PROVE TypeOK'
  <2>1. 0 \in Channels
    BY DEF Channels
  <2> QED  BY <1>8, <2>1 DEF Stop, AfterStop, TypeOK
<1>9. CASE \E r \in Sounds \cup Musics : Load(r)
  BY <1>9 DEF Load, TypeOK
<1>10. CASE Start \/ ForgetMusic \/ RemoveTimer \/ Release
  BY <1>10 DEF Start, ForgetMusic, RemoveTimer, AfterStop, Release, TypeOK
<1>11. CASE UNCHANGED vars
  BY <1>11 DEF vars, TypeOK
<1> QED
  BY <1>1, <1>3, <1>4, <1>5, <1>6, <1>7, <1>8, <1>9, <1>10, <1>11 DEF Next, Main, ErrorLoop

LEMMA SafeStep == SafeInv /\ [Next]_vars => unruly' \/ SafeInv'
<1> SUFFICES ASSUME SafeInv, [Next]_vars, ~ unruly' PROVE SafeInv'
  OBVIOUS
<1>1. CASE \E m \in Musics : LoadSfxModule(m)
  <2>1. PICK m \in Musics : LoadSfxModule(m)
    BY <1>1
  <2>2. MayStart(m)
    BY <2>1 DEF LoadSfxModule
  <2> QED  BY <2>1, <2>2, MusicStepInv
<1>2. CASE Main /\ ~ \E m \in Musics : LoadSfxModule(m)
  BY <1>2, SoundInv, MusicStepInv DEF Main
<1>3. CASE Interrupt
  BY <1>3, InterruptInv
<1>4. CASE UNCHANGED vars
  <2> USE <1>4 DEF vars, playerVars, argVars, historyVars
  <2>1. TypeOK' /\ TimerInv' /\ MusicInv'
    BY DEF SafeInv, TypeOK, TimerInv, MusicInv
  <2>2. ChannelInv'
    BY DEF SafeInv, ChannelInv, BeingWritten
  <2> QED  BY <2>1, <2>2 DEF SafeInv
<1> QED  BY <1>1, <1>2, <1>3, <1>4 DEF Next, ErrorLoop

\* What was started as it should not be stays so.
LEMMA StaysUnruly == unruly /\ [Next]_vars => unruly'
BY DEF Next, Main, Interrupt, ErrorLoop, Mix, PlayPattern, LastPattern, Load, PlaySound,
       StopSound, StoreField, LoadSfxModule, Start, Stop, ForgetMusic, RemoveTimer,
       StopNext, Release, vars, historyVars

LEMMA StepInv == IndInv /\ [Next]_vars => IndInv'
<1> SUFFICES ASSUME IndInv, [Next]_vars PROVE IndInv'
  OBVIOUS
<1>1. TypeOK'
  BY TypeStep DEF IndInv
<1>2. unruly' \/ SafeInv'
  BY SafeStep, StaysUnruly DEF IndInv
<1> QED  BY <1>1, <1>2 DEF IndInv

THEOREM Inductive == Spec => []IndInv
BY InitInv, StepInv, PTL DEF Spec

\* Every state that the channels and the player reach has its type.
THEOREM TypeCorrect == Spec => []TypeOK
<1>1. IndInv => TypeOK
  BY DEF IndInv
<1> QED  BY <1>1, Inductive, PTL

\* After a release nothing plays what was released, wherever the interrupts
\* come: no channel and no timer (SfxPlayer::stop, Mixer::stopAll, invalidateRes);
\* for scripts that load a music before they start it and start none over another
\* (~ unruly).  This holds also where effects and musics share channels.
THEOREM ReleasedIsSilent == Spec => []NothingStale
<1>1. IndInv => NothingStale
  BY DEF IndInv, SafeInv, ChannelInv, MusicInv, NothingStale
<1> QED  BY <1>1, Inductive, PTL

\* Only a music that is started over another, or without being loaded, makes a timer
\* that the player does not know (~ unruly, in TimersOwned); the song that ends from
\* the interrupt, whenever that comes in start(), stop() or a release, does not
\* (SfxPlayer::start, SfxPlayer::stop, handleEvents).
THEOREM NoTimerIsLost == Spec => []TimersOwned
<1>1. IndInv => TimersOwned
  BY DEF IndInv, SafeInv, TimerInv, TimersOwned
<1> QED  BY <1>1, Inductive, PTL

\* stop() is given a timer that is gone only when the song ended while it was at
\* work (SfxPlayer::stop against handleEvents); until a music is started over
\* another, or without being loaded.
THEOREM TwiceOnlyLate == Spec => RemovedTwiceOnlyByLateStop
<1> DEFINE OnlyLate == ~ unruly /\ removedDead' # removedDead => pc = "remove" /\ late
<1>1. IndInv /\ [Next]_vars => [OnlyLate]_vars
  <2> SUFFICES ASSUME IndInv, Next, ~ unruly, removedDead' # removedDead
               PROVE  pc = "remove" /\ late
    OBVIOUS
  <2>0. SafeInv
    BY DEF IndInv
  <2>1. CASE Main
    <3>1. RemoveTimer
      BY <2>1 DEF Main, Load, PlaySound, StopSound, StoreField, LoadSfxModule, Start,
                  Stop, ForgetMusic, StopNext, Release, historyVars
    <3>2. pc = "remove" /\ timerId \notin timers
      BY <2>0, <3>1 DEF RemoveTimer, SafeInv, TypeOK
    <3> QED  BY <2>0, <3>2 DEF SafeInv, TimerInv
  <2>2. CASE Interrupt
    <3>1. LastPattern
      BY <2>2 DEF Interrupt, Mix, PlayPattern, historyVars
    <3>2. timers # {} /\ timerId \notin timers
      BY <2>0, <3>1 DEF LastPattern, SafeInv, TypeOK
    <3> QED  BY <2>0, <3>2 DEF SafeInv, TimerInv
  <2>3. CASE ErrorLoop
    BY <2>3 DEF ErrorLoop, vars, historyVars
  <2> QED  BY <2>1, <2>2, <2>3 DEF Next
<1>2. Spec => [][OnlyLate]_vars
  BY <1>1, Inductive, PTL DEF Spec
<1> QED  BY <1>2 DEF RemovedTwiceOnlyByLateStop

-----------------------------------------------------------------------------
\* What main.cpp asks a lock for holds without one where the scripts keep the
\* channels of their effects apart from those of the music.
Apart == EffectChannels \cap MusicChannels = {}

Coherent ==
  \A c \in Channels :
    channel[c].active /\ ~BeingWritten(c) =>
      channel[c].data = channel[c].len /\ channel[c].len = channel[c].pos

WholeChannels ==
  /\ Coherent
  /\ pc = "store" =>
       /\ chan \in EffectChannels
       /\ "data" \notin unset => channel[chan].data = chunk
       /\ "len" \notin unset => channel[chan].len = chunk
       /\ "pos" \notin unset => channel[chan].pos = chunk

LEMMA WholeStep ==
  ASSUME Apart, SafeInv, WholeChannels, [Next]_vars
  PROVE  WholeChannels'
<1> USE SoundsAssumption DEF WholeChannels
<1>1. CASE Interrupt
  <2>1. /\ UNCHANGED <<pc, argVars>>
        /\ \A c \in Channels : SameSound(c) \/ NewNote(c)
    BY <1>1, InterruptEffect
      DEF Interrupt, Mix, PlayPattern, LastPattern, SafeInv, MusicInv
  <2>2. Coherent'
    BY <2>1 DEF Coherent, BeingWritten, SameSound, NewNote, argVars
  <2>3. ASSUME pc = "store" PROVE SameSound(chan)
    BY <2>1, <2>3 DEF Apart, NewNote
  <2> QED  BY <2>1, <2>2, <2>3 DEF SameSound, argVars
<1>2. CASE \E f \in Fields : StoreField(f)
  <2>1. PICK f \in Fields : StoreField(f)
    BY <1>2
  <2>2. /\ pc = "store" /\ chan \in EffectChannels /\ chan \in Channels
        /\ unset' = unset \ {f} /\ pc' = IF unset' = {} THEN "idle" ELSE "store"
        /\ UNCHANGED <<chan, chunk>>
    BY <2>1 DEF StoreField
  <2>3. chunk \in Sounds
    BY <2>2 DEF SafeInv, TypeOK, ChannelInv
  <2>4. /\ \A c \in Channels \ {chan} : channel'[c] = channel[c]
        /\ channel'[chan].data = IF f = "data" THEN chunk ELSE channel[chan].data
        /\ channel'[chan].len = IF f = "len" THEN chunk ELSE channel[chan].len
        /\ channel'[chan].pos = IF f = "pos" THEN chunk ELSE channel[chan].pos
    BY <2>1, <2>3, StoreEffect DEF SafeInv
  <2>5. /\ "data" \notin unset' => channel'[chan].data = chunk
        /\ "len" \notin unset' => channel'[chan].len = chunk
        /\ "pos" \notin unset' => channel'[chan].pos = chunk
    BY <2>2, <2>4
  <2>6. Coherent'
    BY <2>2, <2>4, <2>5 DEF Coherent, BeingWritten
  <2> QED  BY <2>2, <2>5, <2>6
<1>3. CASE \E s \in Sounds, c \in EffectChannels : PlaySound(s, c)
  BY <1>3 DEF PlaySound, Coherent, BeingWritten, Fields
<1>4. CASE \/ \E c \in EffectChannels : StopSound(c)
           \/ StopNext
  <2>1. PICK d \in Channels : channel' = [channel EXCEPT ![d] = Off(@)]
    BY <1>4 DEF StopSound, StopNext, SafeInv, TypeOK
  <2>2. \A c \in Channels : SameSound(c)
    BY <2>1, OffCell DEF SafeInv, TypeOK, SameSound
  <2>3. pc # "store" /\ pc' # "store"
    BY <1>4 DEF StopSound, StopNext
  <2> QED  BY <2>2, <2>3 DEF Coherent, BeingWritten, SameSound
<1>5. CASE \/ \E r \in Sounds \cup Musics : Load(r)
           \/ \E m \in Musics : LoadSfxModule(m)
           \/ Start
           \/ \E release \in BOOLEAN : Stop(release)
           \/ ForgetMusic
           \/ RemoveTimer
           \/ Release
  <2>1. UNCHANGED channel /\ pc # "store" /\ pc' # "store"
    BY <1>5 DEF Load, LoadSfxModule, Start, Stop, AfterStop, ForgetMusic, RemoveTimer,
                Release
  <2> QED  BY <2>1 DEF Coherent, BeingWritten
<1>6. CASE UNCHANGED vars
  BY <1>6 DEF vars, argVars, Coherent, BeingWritten
<1> QED
  BY <1>1, <1>2, <1>3, <1>4, <1>5, <1>6 DEF Next, Main, ErrorLoop

\* A channel that nobody is writing plays one sound with its own length and from
\* its own position, if effects and musics use different channels (playChannel), and
\* for scripts that load a music before they start it and start none over another.
THEOREM ChannelsAreWhole == ASSUME Apart PROVE Spec => []ChannelsCoherent
<1>1. Init => unruly \/ WholeChannels
  BY DEF Init, WholeChannels, Coherent
<1>2. unruly \/ WholeChannels => ChannelsCoherent
  BY DEF WholeChannels, Coherent, ChannelsCoherent
<1>3. IndInv /\ (unruly \/ WholeChannels) /\ [Next]_vars => (unruly \/ WholeChannels)'
  BY WholeStep, StaysUnruly DEF IndInv
<1> QED  BY <1>1, <1>2, <1>3, Inductive, PTL DEF Spec

-----------------------------------------------------------------------------
(* Music: that it stays within its orders, for musics of any length.       *)

\* From loadSfxModule on, while there is a timer or there will be one, the order
\* is one of the music.
PositionInv ==
  /\ curOrder \in Orders /\ curPos \in 0 .. Rows - 1
  /\ (timers # {} \/ pc = "start") /\ ~ unruly => curOrder < NumOrder[sfxMod]

\* The steps of the module are steps of SoundPlayer.
LEMMA SoundStep == [MusicNext]_musicVars => [Next]_vars
<1>1. HandleEvents => Interrupt
  BY DEF HandleEvents, Interrupt
<1>2. Elsewhere => [Next]_vars
  BY DEF Elsewhere, Next, Main, Interrupt
<1>3. ASSUME NEW m \in Musics, NEW pos \in Positions[m], LoadAt(m, pos)  PROVE Next
  BY <1>3 DEF LoadAt, Next, Main
<1>4. StartMusic => Next
  BY DEF StartMusic, Next, Main
<1>5. QED
  BY <1>1, <1>2, <1>3, <1>4 DEF MusicNext, musicVars, Next

LEMMA PositionInit == MusicInit => PositionInv
BY MusicAssumption DEF MusicInit, Init, PositionInv, Orders

LEMMA AdvanceType ==
  ASSUME PositionInv, Advance
  PROVE  curOrder' \in Orders /\ curPos' \in 0 .. Rows - 1
<1>1. PICK r \in Nat \ {0}, t \in Nat \ {0} : r = Rows /\ t = OrderTable
  BY MusicAssumption
<1>2. PICK o \in 0 .. 2 * t - 1, k \in 0 .. r - 1 : o = curOrder /\ k = curPos
  BY <1>1 DEF PositionInv, Orders
<1>3. (o + 1) % (2 * t) \in 0 .. 2 * t - 1
  BY <1>1, <1>2
<1>4. curOrder' \in Orders
  BY <1>1, <1>2, <1>3 DEF Advance, NextOrder, Orders
<1>5. curPos' \in 0 .. Rows - 1
  BY <1>1, <1>2 DEF Advance, AtEndOfOrder
<1> QED  BY <1>4, <1>5

\* One turn of handleEvents in a music that is loaded.
LEMMA HandleInMusic ==
  ASSUME SafeInv, PositionInv, ~ unruly, HandleEvents
  PROVE  /\ timers # {} /\ timers \subseteq {timerId} /\ sfxMod \in Musics
         /\ UNCHANGED <<pc, sfxMod, unruly>>
         /\ curOrder < NumOrder[sfxMod] /\ NumOrder[sfxMod] \in 1 .. OrderTable
         /\ AtEndOfSong(NumOrder[sfxMod]) => timers' = {}
<1>1. timers # {} /\ UNCHANGED <<pc, sfxMod, unruly>>
  BY DEF HandleEvents, PlayPattern, LastPattern, playerVars, historyVars
<1>2. timers \subseteq {timerId} /\ sfxMod \in Musics
  BY <1>1 DEF SafeInv, TimerInv, MusicInv
<1>3. curOrder < NumOrder[sfxMod] /\ NumOrder[sfxMod] \in 1 .. OrderTable
  BY <1>1, <1>2, MusicAssumption DEF PositionInv
<1>4. NumOrders(sfxMod) = {NumOrder[sfxMod]}
  BY <1>2, SoundsAssumption DEF NumOrders
<1>5. AtEndOfSong(NumOrder[sfxMod]) => timers' = {}
  BY <1>2, <1>4 DEF HandleEvents, LastPattern
<1> QED  BY <1>1, <1>2, <1>3, <1>5

LEMMA PositionStep == IndInv /\ PositionInv /\ [MusicNext]_musicVars => PositionInv'
<1> SUFFICES ASSUME IndInv, PositionInv, [MusicNext]_musicVars  PROVE PositionInv'
  OBVIOUS
<1>0. unruly \/ SafeInv
  BY DEF IndInv
<1>1. CASE HandleEvents
  <2>1. curOrder' \in Orders /\ curPos' \in 0 .. Rows - 1
    BY <1>1, AdvanceType DEF HandleEvents
  <2>2. unruly' = unruly
    BY <1>1 DEF HandleEvents, PlayPattern, LastPattern, historyVars
  <2>3. ASSUME ~ unruly, timers' # {} \/ pc' = "start"  PROVE curOrder' < NumOrder[sfxMod']
    <3>1. SafeInv
      BY <1>0, <2>3
    <3>2. /\ timers # {} /\ sfxMod \in Musics /\ pc' = pc /\ sfxMod' = sfxMod
          /\ AtEndOfSong(NumOrder[sfxMod]) => timers' = {}
      BY <1>1, <2>3, <3>1, HandleInMusic
    <3>3. pc' # "start"
      BY <3>1, <3>2 DEF SafeInv, TimerInv
    <3>4. PICK n \in Nat, t \in Nat \ {0} : n = NumOrder[sfxMod] /\ t = OrderTable /\ n <= t /\ curOrder < n
      BY <1>1, <2>3, <3>1, HandleInMusic, MusicAssumption
    <3>5. PICK o \in Nat : o = curOrder
      BY MusicAssumption DEF PositionInv, Orders
    <3>6. ~ (AtEndOfOrder /\ NextOrder = n)
      BY <2>3, <3>2, <3>3, <3>4 DEF AtEndOfSong
    <3>7. NextOrder = o + 1
      BY <3>4, <3>5 DEF NextOrder
    <3>8. curOrder' = o \/ (curOrder' = o + 1 /\ o + 1 # n)
      BY <1>1, <3>5, <3>6, <3>7 DEF HandleEvents, Advance
    <3>9. curOrder' < n
      BY <3>4, <3>5, <3>8
    <3> QED  BY <3>2, <3>4, <3>9
  <2> QED  BY <2>1, <2>2, <2>3 DEF PositionInv
<1>2. CASE \E m \in Musics : \E pos \in Positions[m] : LoadAt(m, pos)
  <2>0. PICK m \in Musics : \E pos \in Positions[m] : LoadAt(m, pos)
    BY <1>2
  <2>1. PICK pos \in Positions[m] : LoadAt(m, pos)
    BY <2>0
  <2>2. pos \in Nat /\ pos < NumOrder[m] /\ NumOrder[m] \in 1 .. OrderTable
    BY <2>1, MusicAssumption
  <2>3. CASE m \in loaded
    <3>1. sfxMod' = m /\ curOrder' = pos /\ curPos' = 0
      BY <2>1, <2>3 DEF LoadAt, LoadSfxModule
    <3>2. pos \in Orders
      BY <2>2, MusicAssumption DEF Orders
    <3> QED  BY <2>2, <3>1, <3>2, MusicAssumption DEF PositionInv
  <2>4. CASE m \notin loaded
    <3>1. unruly' /\ UNCHANGED positionVars
      BY <2>1, <2>4 DEF LoadAt, LoadSfxModule, MayStart
    <3> QED  BY <3>1 DEF PositionInv, positionVars
  <2> QED  BY <2>3, <2>4
<1>3. CASE StartMusic
  BY <1>3, MusicAssumption DEF StartMusic, Start, PositionInv, historyVars
<1>4. CASE Elsewhere
  <2>1. /\ UNCHANGED <<curOrder, curPos, sfxMod, unruly>> /\ timers' \subseteq timers
        /\ pc' = "start" => pc = "start"
    BY <1>4 DEF Elsewhere, positionVars, playerVars, historyVars, vars, Mix, Load, PlaySound,
                StopSound, StoreField, Stop, AfterStop, ForgetMusic, RemoveTimer, StopNext,
                Release, ErrorLoop
  <2>2. QED
    BY <2>1 DEF PositionInv
<1>5. CASE UNCHANGED musicVars
  BY <1>5 DEF musicVars, vars, playerVars, historyVars, positionVars, PositionInv
<1>6. QED
  BY <1>1, <1>2, <1>3, <1>4, <1>5 DEF MusicNext

\* handleEvents never reads an order that is not of the music (OrderIsOfMusic), for
\* musics of any length up to the orders of the table, if scripts load a music before
\* they start it and start none over another.
THEOREM OrdersOfTheMusic == MusicSpec => []OrderIsOfMusic
<1>1. MusicInit => IndInv
  BY InitInv DEF MusicInit
<1>2. IndInv /\ [MusicNext]_musicVars => IndInv'
  BY StepInv, SoundStep
<1>3. PositionInv => OrderIsOfMusic
  BY DEF PositionInv, OrderIsOfMusic
<1>4. QED
  BY <1>1, <1>2, <1>3, PositionInit, PositionStep, PTL DEF MusicSpec

\* How many rows are left to play, the one that is next included.
RowsLeft == (NumOrder[sfxMod] - curOrder) * Rows - curPos

LEMMA NextTimes ==
  ASSUME NEW a \in Nat \ {0}, NEW r \in Nat
  PROVE  a * r = (a - 1) * r + r /\ a * r >= r
<1>1. PICK d \in Nat : a = d + 1
  <2>1. a - 1 \in Nat /\ a = (a - 1) + 1
    OBVIOUS
  <2> QED  BY <2>1
<1>2. a * r = d * r + r /\ d * r \in Nat /\ a - 1 = d
  BY <1>1
<1> QED  BY <1>2

\* handleEvents takes one row, or ends the music.
LEMMA RowPlayed ==
  ASSUME SafeInv, PositionInv, ~ unruly, HandleEvents
  PROVE  timers' = {} \/ (RowsLeft' = RowsLeft - 1 /\ RowsLeft' > 0)
<1>1. /\ sfxMod \in Musics /\ sfxMod' = sfxMod
      /\ AtEndOfSong(NumOrder[sfxMod]) => timers' = {}
  BY HandleInMusic
<1>2. SUFFICES ASSUME ~ AtEndOfSong(NumOrder[sfxMod])
               PROVE  RowsLeft' = RowsLeft - 1 /\ RowsLeft' > 0
  BY <1>1
<1>3. PICK n \in Nat \ {0}, t \in Nat \ {0} : n = NumOrder[sfxMod] /\ t = OrderTable /\ n <= t /\ curOrder < n
  BY HandleInMusic, MusicAssumption
<1>4. PICK r \in Nat \ {0} : r = Rows
  BY MusicAssumption
<1>5. PICK o \in Nat, k \in 0 .. r - 1 : o = curOrder /\ k = curPos /\ o < n
  BY <1>3, <1>4, MusicAssumption DEF PositionInv, Orders
<1>6. NextOrder = o + 1
  BY <1>3, <1>5 DEF NextOrder
<1>7. PICK o2 \in Nat, k2 \in Nat : o2 = curOrder' /\ k2 = curPos'
  BY <1>4, <1>5, <1>6 DEF HandleEvents, Advance
<1>8. (o2 = o /\ k2 = k + 1 /\ k2 < r) \/ (o2 = o + 1 /\ k2 = 0 /\ k + 1 = r /\ o2 < n)
  <2>1. ~ (k + 1 >= r /\ o + 1 = n)
    BY <1>2, <1>3, <1>4, <1>5, <1>6 DEF AtEndOfSong, AtEndOfOrder
  <2>2. /\ k2 = IF k + 1 >= r THEN 0 ELSE k + 1
        /\ o2 = IF k + 1 >= r THEN o + 1 ELSE o
    BY <1>4, <1>5, <1>6, <1>7 DEF HandleEvents, Advance, AtEndOfOrder
  <2> QED  BY <1>3, <1>5, <2>1, <2>2
<1>9. RowsLeft = (n - o) * r - k /\ RowsLeft' = (n - o2) * r - k2
  BY <1>1, <1>3, <1>4, <1>5, <1>7 DEF RowsLeft
<1>10. CASE o2 = o /\ k2 = k + 1 /\ k2 < r
  <2>1. PICK a \in Nat \ {0} : a = n - o
    BY <1>3, <1>5
  <2>2. a * r >= r /\ a * r \in Nat
    BY <2>1, NextTimes
  <2> QED  BY <1>5, <1>9, <1>10, <2>1, <2>2
<1>11. CASE o2 = o + 1 /\ k2 = 0 /\ k + 1 = r /\ o2 < n
  <2>1. PICK a \in Nat \ {0} : a = n - o2
    BY <1>3, <1>5, <1>11
  <2>2. n - o = a + 1 /\ a + 1 \in Nat \ {0} /\ (a + 1) - 1 = a
    BY <1>3, <1>5, <1>11, <2>1
  <2>3. (a + 1) * r = a * r + r /\ a * r >= r /\ a * r \in Nat
    BY <2>2, NextTimes
  <2> QED  BY <1>5, <1>9, <1>11, <2>1, <2>2, <2>3
<1> QED  BY <1>8, <1>10, <1>11

\* Nothing else moves a music that plays.
LEMMA RowsKept ==
  ASSUME SafeInv, [MusicNext]_musicVars, timers # {}, ~ unruly'
  PROVE  HandleEvents \/ RowsLeft' = RowsLeft
<1>1. pc # "start"
  BY DEF SafeInv, TimerInv
<1>2. ASSUME NEW m \in Musics, NEW pos \in Positions[m], LoadAt(m, pos)  PROVE FALSE
  BY <1>2 DEF LoadAt, LoadSfxModule, MayStart
<1>3. ~ StartMusic
  BY <1>1 DEF StartMusic, Start
<1>4. CASE Elsewhere
  <2>1. UNCHANGED <<curOrder, curPos, sfxMod>>
    BY <1>4 DEF Elsewhere, positionVars, playerVars, vars, Mix, Load, PlaySound, StopSound,
                StoreField, Stop, ForgetMusic, RemoveTimer, StopNext, Release, ErrorLoop
  <2> QED  BY <2>1 DEF RowsLeft
<1>5. CASE UNCHANGED musicVars
  BY <1>5 DEF musicVars, vars, playerVars, positionVars, RowsLeft
<1> QED  BY <1>2, <1>3, <1>4, <1>5 DEF MusicNext

\* handleEvents: a music gets nearer its end by a row at every call of the timer, and
\* by nothing else, until the timer is removed or the scripts start a music over
\* another or without loading it: it plays each of its rows once and neither jumps nor
\* begins again.  Only that the timer does call is not said.
THEOREM MusicGetsOn ==
  MusicSpec => [][timers # {} /\ ~ unruly' =>
                    \/ timers' = {}
                    \/ /\ HandleEvents
                       /\ RowsLeft' = RowsLeft - 1 /\ RowsLeft' > 0
                    \/ RowsLeft' = RowsLeft]_musicVars
<1>1. MusicInit => IndInv
  BY InitInv DEF MusicInit
<1>2. IndInv /\ [MusicNext]_musicVars => IndInv'
  BY StepInv, SoundStep
<1>3. ASSUME IndInv, PositionInv, [MusicNext]_musicVars, timers # {}, ~ unruly'
      PROVE  \/ timers' = {}
             \/ HandleEvents /\ RowsLeft' = RowsLeft - 1 /\ RowsLeft' > 0
             \/ RowsLeft' = RowsLeft
  <2>1. ~ unruly
    BY <1>3, SoundStep, StaysUnruly
  <2>2. SafeInv
    BY <1>3, <2>1 DEF IndInv
  <2> QED  BY <1>3, <2>1, <2>2, RowPlayed, RowsKept
<1>4. IndInv /\ PositionInv /\ [MusicNext]_musicVars =>
        [timers # {} /\ ~ unruly' =>
           \/ timers' = {}
           \/ /\ HandleEvents
              /\ RowsLeft' = RowsLeft - 1 /\ RowsLeft' > 0
           \/ RowsLeft' = RowsLeft]_musicVars
  BY <1>3
<1>5. QED
  BY <1>1, <1>2, <1>4, PositionInit, PositionStep, PTL DEF MusicSpec
=============================================================================
