----------------------------- MODULE SoundPlayer -----------------------------
(***************************************************************************)
(* Who plays what: the channels of the mixer (mixer.cpp), the music player *)
(* (sfxplayer.cpp), the sound opcodes (vm.cpp) and the two interrupts that *)
(* drive them (sysImplementation.cpp).                                     *)
(*                                                                         *)
(* The main program is preempted between any two of its writes by the      *)
(* audio interrupt, which runs mix(), and by the timer of the music, which *)
(* runs handleEvents().  An interrupt is not preempted itself.  There is   *)
(* no lock.                                                                *)
(*                                                                         *)
(* Abstractions.  Each field of a channel holds the sound its value was    *)
(* taken from: a channel whose fields disagree plays the data of a sound   *)
(* with the length or at the position of another one.  Volumes, speeds and *)
(* the positions themselves are left out, and a pattern of a music does    *)
(* anything that patterns can do to the channels.                          *)
(***************************************************************************)
EXTENDS Integers

CONSTANTS
  NumChannels,     \* AUDIO_NUM_CHANNELS
  Sounds,          \* the entries that op_playSound is given, and the instruments
  Musics,          \* the entries of type RT_MUSIC
  Instruments,     \* the sounds that prepareInstruments looks up, by music
  Looping,         \* the sounds with a loopLen that is not zero
  Timers,          \* what addTimer can return: so many timers there can be at a time
  MusicChannels,   \* the channels that the patterns of the musics use
  EffectChannels,  \* the channels that op_playSound is given
  None             \* a null pointer, or entry 0: no sound, no music, no timer

Channels == 0 .. NumChannels - 1

ASSUME SoundsAssumption ==
  /\ NumChannels \in Nat \ {0}
  /\ Instruments \in [Musics -> SUBSET Sounds]
  /\ Looping \subseteq Sounds
  /\ MusicChannels \subseteq Channels
  /\ EffectChannels \subseteq Channels
  /\ None \notin Sounds \cup Musics \cup Timers

VARIABLES
  loaded,     \* the sounds and musics whose state is MEMENTRY_STATE_LOADED
  channel,    \* _channels
  resNum,     \* _resNum
  sfxMod,     \* the music that _sfxMod was filled from
  timerId,    \* _timerId
  timers,     \* the timers that exist, and go off
  pc,         \* what is left to do of an operation of the main program
  chan,       \* the argument of playChannel, or the loop index of stopAll
  chunk,      \* the sound that playChannel is given
  unset,      \* the fields that playChannel has not written yet
  releasing,  \* stop() was called by a release, not by op_playMusic
  unruly,     \* history: a music was started over another, or without being loaded
  late,       \* history: the song has ended by itself since stop() was called
  removedDead \* history: removeTimer was given a timer that no longer exists

playerVars == <<resNum, sfxMod, timerId, timers>>
argVars == <<chan, chunk, unset, releasing>>
historyVars == <<unruly, late, removedDead>>
vars == <<loaded, channel, playerVars, pc, argVars, historyVars>>

-----------------------------------------------------------------------------
(* The mixer.                                                              *)

Fields == {"active", "data", "len", "pos"}

\* The fields of a channel that plays a sound from its beginning.
Playing(s) == [active |-> TRUE, data |-> s, len |-> s, pos |-> s]

Off(cell) == [cell EXCEPT !.active = FALSE]

\* Mutant: chunkPos is left where it is.
StoreField_NoPos(f) ==
  /\ pc = "store"
  /\ f \in unset
  /\ channel' = IF f = "pos" THEN channel
                ELSE [channel EXCEPT ![chan][f] = Playing(chunk)[f]]
  /\ unset' = unset \ {f}
  /\ pc' = IF unset' = {} THEN "idle" ELSE "store"
  /\ UNCHANGED <<loaded, playerVars, chan, chunk, releasing, historyVars>>

\* playChannel: nothing orders its writes, neither for the compiler nor for the
\* interrupts.
StoreField(f) ==
  /\ pc = "store"
  /\ f \in unset
  /\ channel' = [channel EXCEPT ![chan][f] = Playing(chunk)[f]]
  /\ unset' = unset \ {f}
  /\ pc' = IF unset' = {} THEN "idle" ELSE "store"
  /\ UNCHANGED <<loaded, playerVars, chan, chunk, releasing, historyVars>>

\* mix, when some channels that do not loop get to the end of their chunks.
Mix ==
  \E ended \in SUBSET {c \in Channels : channel[c].active} :
    /\ ended # {}
    /\ \A c \in ended : channel[c].len \in Sounds \ Looping
    /\ channel' = [c \in Channels |-> IF c \in ended THEN Off(channel[c]) ELSE channel[c]]
    /\ UNCHANGED <<loaded, playerVars, pc, argVars, historyVars>>

-----------------------------------------------------------------------------
(* The music: handleEvents, in the timer interrupt.                        *)

\* The instruments in _sfxMod, in which anything is until the first music is loaded.
InstrumentsOf(m) == IF m = None THEN Sounds ELSE Instruments[m]

\* What handlePattern can make of a channel: nothing, a stop, or a note.  Patterns
\* whose memory has been given to others are any patterns.
AfterPattern(c) ==
  {channel[c]} \cup
    IF c \in MusicChannels \/ sfxMod \notin loaded
    THEN {Off(channel[c])} \cup {Playing(s) : s \in InstrumentsOf(sfxMod)}
    ELSE {}

AfterPatterns ==
  {after \in [Channels -> UNION {AfterPattern(c) : c \in Channels}] :
     \A c \in Channels : after[c] \in AfterPattern(c)}

PlayPattern ==
  /\ timers # {}
  /\ channel' \in AfterPatterns
  /\ UNCHANGED <<loaded, playerVars, pc, argVars, historyVars>>

\* Mutant: the timer is left to stop().
LastPattern_KeepsTimer ==
  /\ timers # {}
  /\ channel' \in {[c \in Channels |-> Off(after[c])] : after \in AfterPatterns}
  /\ resNum' = None
  /\ late' = TRUE
  /\ UNCHANGED <<loaded, sfxMod, timerId, timers, pc, argVars, unruly, removedDead>>

\* Mutant: the player still takes the music for playing.
LastPattern_KeepsMusic ==
  /\ timers # {}
  /\ channel' \in {[c \in Channels |-> Off(after[c])] : after \in AfterPatterns}
  /\ timers' = timers \ {timerId}
  /\ removedDead' = (removedDead \/ timerId \notin timers)
  /\ late' = TRUE
  /\ UNCHANGED <<loaded, resNum, sfxMod, timerId, pc, argVars, unruly>>

\* The last pattern of the last order: the song ends by itself.
LastPattern ==
  /\ timers # {}
  /\ channel' \in {[c \in Channels |-> Off(after[c])] : after \in AfterPatterns}
  /\ resNum' = None
  /\ timers' = timers \ {timerId}
  /\ removedDead' = (removedDead \/ timerId \notin timers)
  /\ late' = TRUE
  /\ UNCHANGED <<loaded, sfxMod, timerId, pc, argVars, unruly>>

Interrupt == Mix \/ PlayPattern \/ LastPattern

-----------------------------------------------------------------------------
(* The main program, which only starts an operation when the one before is *)
(* done.                                                                   *)

\* op_updateMemList, and the resources that scripts get loaded.
Load(r) ==
  /\ pc = "idle"
  /\ loaded' = loaded \cup {r}
  /\ UNCHANGED <<channel, playerVars, pc, argVars, historyVars>>

\* snd_playSound with a volume.
PlaySound(s, c) ==
  /\ pc = "idle"
  /\ s \in loaded
  /\ pc' = "store"
  /\ chan' = c
  /\ chunk' = s
  /\ unset' = Fields
  /\ UNCHANGED <<loaded, channel, playerVars, releasing, historyVars>>

\* snd_playSound with no volume, for any sound that is loaded.
StopSound(c) ==
  /\ pc = "idle"
  /\ loaded \cap Sounds # {}
  /\ channel' = [channel EXCEPT ![c] = Off(@)]
  /\ UNCHANGED <<loaded, playerVars, pc, argVars, historyVars>>

\* A start as it should be: of a music that is loaded, when the one before has ended
\* or was stopped.  Nothing in the code checks it.
MayStart(m) == m \in loaded /\ resNum = None /\ timers = {}

\* loadSfxModule, which does nothing for an entry that is not loaded, or is not a
\* music; op_playMusic goes on to start() all the same.  prepareInstruments calls
\* error() if an instrument is missing.
LoadSfxModule(m) ==
  /\ pc = "idle"
  /\ timers # Timers
  /\ IF m \in loaded
     THEN /\ resNum' = m
          /\ sfxMod' = m
          /\ pc' = IF Instruments[m] \subseteq loaded THEN "start" ELSE "halted"
     ELSE /\ pc' = "start"
          /\ UNCHANGED <<resNum, sfxMod>>
  /\ unruly' = (unruly \/ ~ MayStart(m))
  /\ UNCHANGED <<loaded, channel, timerId, timers, argVars, late, removedDead>>

\* start() overwrites _timerId: a timer that is there already goes on without it.
Start ==
  /\ pc = "start"
  /\ \E t \in Timers \ timers :
       /\ timers' = timers \cup {t}
       /\ timerId' = t
  /\ pc' = "idle"
  /\ UNCHANGED <<loaded, channel, resNum, sfxMod, argVars, historyVars>>

AfterStop(release) == IF release THEN "stop_all" ELSE "idle"

\* Mutant: a release does not stop the music.
Stop_OnlyChannels(release) ==
  /\ pc = "idle"
  /\ pc' = IF resNum = None \/ release THEN AfterStop(release) ELSE "forget"
  /\ releasing' = release
  /\ chan' = 0
  /\ late' = FALSE
  /\ UNCHANGED <<loaded, channel, playerVars, chunk, unset, unruly, removedDead>>

\* stop(), called by op_playMusic or at the beginning of a release: its test.
Stop(release) ==
  /\ pc = "idle"
  /\ pc' = IF resNum = None THEN AfterStop(release) ELSE "forget"
  /\ releasing' = release
  /\ chan' = 0
  /\ late' = FALSE
  /\ UNCHANGED <<loaded, channel, playerVars, chunk, unset, unruly, removedDead>>

ForgetMusic ==
  /\ pc = "forget"
  /\ resNum' = None
  /\ pc' = "remove"
  /\ UNCHANGED <<loaded, channel, sfxMod, timerId, timers, argVars, historyVars>>

RemoveTimer ==
  /\ pc = "remove"
  /\ timers' = timers \ {timerId}
  /\ removedDead' = (removedDead \/ timerId \notin timers)
  /\ pc' = AfterStop(releasing)
  /\ UNCHANGED <<loaded, channel, resNum, sfxMod, timerId, argVars, unruly, late>>

\* stopAll, in a release.
StopNext ==
  /\ pc = "stop_all"
  /\ channel' = [channel EXCEPT ![chan] = Off(@)]
  /\ IF chan = NumChannels - 1
     THEN pc' = "release" /\ UNCHANGED chan
     ELSE chan' = chan + 1 /\ UNCHANGED pc
  /\ UNCHANGED <<loaded, playerVars, chunk, unset, releasing, historyVars>>

\* invalidateRes, for op_updateMemList, or invalidateAll, for a change of part.
\* A part that is set up again keeps its resources.
Release ==
  /\ pc = "release"
  /\ loaded' \in {{}, loaded}
  /\ pc' = "idle"
  /\ UNCHANGED <<channel, playerVars, argVars, historyVars>>

Main ==
  \/ \E r \in Sounds \cup Musics : Load(r)
  \/ \E s \in Sounds, c \in EffectChannels : PlaySound(s, c)
  \/ \E c \in EffectChannels : StopSound(c)
  \/ \E f \in Fields : StoreField(f)
  \/ \E m \in Musics : LoadSfxModule(m)
  \/ Start
  \/ \E release \in BOOLEAN : Stop(release)
  \/ ForgetMusic
  \/ RemoveTimer
  \/ StopNext
  \/ Release

\* error() never returns, but the interrupts still come.
ErrorLoop == pc = "halted" /\ UNCHANGED vars

-----------------------------------------------------------------------------
\* Mixer::init clears the channels.
Init ==
  /\ loaded = {}
  /\ channel = [c \in Channels |-> [active |-> FALSE, data |-> None, len |-> None, pos |-> None]]
  /\ resNum = None
  /\ sfxMod = None
  /\ timerId = None
  /\ timers = {}
  /\ pc = "idle"
  /\ chan = 0
  /\ chunk = None
  /\ unset = {}
  /\ releasing = FALSE
  /\ unruly = FALSE
  /\ late = FALSE
  /\ removedDead = FALSE

Next == Main \/ Interrupt \/ ErrorLoop

Spec == Init /\ [][Next]_vars

-----------------------------------------------------------------------------
(* Properties.                                                             *)

Cells == [active : BOOLEAN, data : Sounds \cup {None}, len : Sounds \cup {None},
          pos : Sounds \cup {None}]

TypeOK ==
  /\ loaded \subseteq Sounds \cup Musics
  /\ channel \in [Channels -> Cells]
  /\ resNum \in Musics \cup {None}
  /\ sfxMod \in Musics \cup {None}
  /\ timerId \in Timers \cup {None}
  /\ timers \subseteq Timers
  /\ pc \in {"idle", "store", "start", "forget", "remove", "stop_all", "release", "halted"}
  /\ chan \in Channels
  /\ chunk \in Sounds \cup {None}
  /\ unset \subseteq Fields
  /\ releasing \in BOOLEAN
  /\ unruly \in BOOLEAN
  /\ late \in BOOLEAN
  /\ removedDead \in BOOLEAN

\* playChannel is at work on this channel.
BeingWritten(c) == pc = "store" /\ c = chan

\* The properties are those of scripts that start musics as they should (MayStart):
\* once one has been started over another, or without being loaded, nothing is
\* promised any more, as a timer may be there that nobody knows.

\* Once the resources are released, and the memory goes to others, neither
\* interrupt reads them: no channel plays them and no timer goes on with the
\* music, wherever the interrupts came in the release (player->stop, then
\* mixer->stopAll, then invalidateRes).
NothingStale ==
  ~ unruly =>
    /\ \A c \in Channels :
         channel[c].active /\ ~BeingWritten(c) =>
           {channel[c].data, channel[c].len} \subseteq loaded
    /\ timers # {} => sfxMod \in loaded /\ Instruments[sfxMod] \subseteq loaded

\* A timer that the player does not know comes only from a music that was started
\* over another, or without being loaded; not from a song that ends from the
\* interrupt while main starts, stops or releases.  Until then the timer that exists
\* is _timerId, and outside of stop() and start() there is one exactly when _resNum
\* says that a music plays.
TimersOwned ==
  \/ unruly
  \/ /\ timers \subseteq {timerId}
     /\ pc \in {"idle", "store", "stop_all", "release"} => (timers = {} <=> resNum = None)

\* main.cpp: "Any read or write to an elements of the sound channels MUST be
\* synchronized with a mutex".  What that is for: a channel that plays, and that
\* the main program is not writing, has the data, the length and the position of
\* one sound.
ChannelsCoherent ==
  ~ unruly =>
    \A c \in Channels :
      channel[c].active /\ ~BeingWritten(c) =>
        channel[c].data = channel[c].len /\ channel[c].len = channel[c].pos

\* removeTimer frees what it is given.  It gets a timer that is already gone only
\* from stop(), and only if the song ended between the test of _resNum and the
\* removal.
RemovedTwiceOnlyByLateStop ==
  [][~ unruly /\ removedDead' # removedDead => pc = "remove" /\ late]_vars
=============================================================================
