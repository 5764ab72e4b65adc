-------------------------------- MODULE Game --------------------------------
(***************************************************************************)
(* The resource manager at work in the game: what the sound opcodes, the   *)
(* interrupts (sfxplayer.cpp, mixer.cpp) and the palette (video.cpp) read  *)
(* from the block of memory, while the scripts get resources loaded and    *)
(* released and change from part to part (vm.cpp).                         *)
(*                                                                         *)
(* Module SoundPlayer has the steps of a release and of the player one by  *)
(* one, with the interrupts in between; here they are one step, but the    *)
(* data are those of the block.                                            *)
(***************************************************************************)
EXTENDS ResourceMem

CONSTANTS
  Instruments,  \* the sounds that prepareInstruments looks up, by music
  Played,       \* the entries that op_playSound is given, of any type
  PaletteIds    \* the palette numbers that scripts ask for

ASSUME GameAssumption ==
  /\ DOMAIN Instruments = {e \in Entries : Type[e] = RT_MUSIC}
  /\ \A m \in DOMAIN Instruments : Instruments[m] \subseteq {e \in Entries : Type[e] = RT_SOUND}
  /\ Played \subseteq Entries
  /\ PaletteIds \subseteq 0 .. 254
  /\ \A p \in Parts : Size[MemListParts[p].palette] > 0

NO_PALETTE_CHANGE_REQUESTED == 255

VARIABLES
  heard,               \* the entries that the channels of the mixer have pointers to
  sfxMod,              \* the music that _sfxMod was filled from
  ticking,             \* a timer exists, which goes on with the music in _sfxMod
  orphaned,            \* (history) a music was started over another, or without being
                       \* loaded: there may be timers that stop() does not know
  paletteIdRequested,  \* paletteIdRequested
  colours              \* the entry that the colours of the screen were read from

soundVars == <<heard, sfxMod, ticking, orphaned>>
paletteVars == <<paletteIdRequested, colours>>
gameVars == <<vars, soundVars, paletteVars>>

-----------------------------------------------------------------------------
(* Sounds and musics.                                                      *)

IsLoaded(e) == state[e] = "LOADED"

\* Scripts run: there is a part, and nothing is being loaded.
Running == loading = "no" /\ currentPartId # 0

\* What the player has pointers to, anything before the first music is loaded.
InPlayer(m) == IF m = Nothing THEN Entries ELSE {m} \cup Instruments[m]

\* snd_playSound, with a volume: the state of the entry is looked at, not its type.
PlaySound(s) ==
  /\ Running
  /\ IsLoaded(s)
  /\ heard' = heard \cup {s}
  /\ UNCHANGED <<vars, sfxMod, ticking, orphaned, paletteVars>>

\* loadSfxModule keeps pointers to the patterns and to the instruments, and calls
\* error() if one of these is not loaded.
MissesInstrument(m) == \E s \in Instruments[m] : ~ IsLoaded(s)

\* snd_playMusic, with an entry: an entry that is no music or is not loaded leaves
\* _sfxMod as it is, but the timer starts all the same.
PlayMusic(m) ==
  LET isMusic == Type[m] = RT_MUSIC /\ IsLoaded(m) IN
  /\ Running
  /\ orphaned' = (orphaned \/ ticking \/ ~ isMusic)
  /\ sfxMod' = IF isMusic THEN m ELSE sfxMod
  /\ IF isMusic /\ MissesInstrument(m)
     THEN /\ loading' = "halted"
          /\ UNCHANGED <<state, memVars, ptrVars, segVars, partVars, ticking>>
     ELSE /\ ticking' = TRUE
          /\ UNCHANGED vars
  /\ UNCHANGED <<heard, paletteVars>>

\* removeTimer takes away the last timer that was started.  There are no others,
\* unless some music was started as it should not be.
StopTimer == ticking' \in {FALSE, ticking /\ orphaned}

\* snd_playMusic, without an entry.
StopMusic ==
  /\ Running
  /\ StopTimer
  /\ UNCHANGED <<vars, heard, sfxMod, orphaned, paletteVars>>

\* handlePattern, in the interrupt: a note.
Note(s) ==
  /\ ticking
  /\ heard' = heard \cup {s}
  /\ UNCHANGED <<vars, sfxMod, ticking, orphaned, paletteVars>>

\* handleEvents, in the interrupt: the song ends, with stopAll.
SongEnds ==
  /\ ticking
  /\ StopTimer
  /\ heard' = {}
  /\ UNCHANGED <<vars, sfxMod, orphaned, paletteVars>>

\* mix, in the interrupt: a sound ends.  stopChannel does no more.
SoundEnds(e) ==
  /\ heard' = heard \ {e}
  /\ UNCHANGED <<vars, sfxMod, ticking, orphaned, paletteVars>>

-----------------------------------------------------------------------------
(* Releases and changes of part.                                           *)

\* player->stop, then mixer->stopAll.
Silence ==
  /\ StopTimer
  /\ heard' = {}
  /\ UNCHANGED <<sfxMod, orphaned>>

\* op_updateMemList(0): the player and the mixer are stopped first.
ReleaseAll ==
  /\ Running
  /\ InvalidateRes
  /\ Silence
  /\ UNCHANGED paletteVars

\* op_updateMemList with the number of an entry or of a part.
UpdateMemList ==
  /\ Running
  /\ \/ \E id \in PartIds : RequestPart(id)
     \/ \E e \in Demanded : RequestEntry(e)
  /\ UNCHANGED <<soundVars, paletteVars>>

\* Mutant: the music and the sounds of the part before go on.
InitForPart_PlaysOn == SetupPart /\ UNCHANGED <<soundVars, paletteVars>>

\* initForPart, also for the part that is played: it is then begun again with the
\* resources that it has.
InitForPart ==
  /\ SetupPart
  /\ Silence
  /\ UNCHANGED paletteVars

Loading == Load /\ UNCHANGED <<soundVars, paletteVars>>

-----------------------------------------------------------------------------
(* The palette.                                                            *)

\* op_setPalette only notes the number, and a change of part does not clear it.
SetPalette(id) ==
  /\ Running
  /\ paletteIdRequested' = id
  /\ UNCHANGED <<vars, soundVars, colours>>

\* changePal ignores numbers behind the last palette.  The palettes of an entry are
\* not told apart.
ChangePal(id) ==
  colours' = IF id < 32 THEN contents[segPalettes] ELSE colours

\* updateDisplay.
UpdateDisplay ==
  /\ Running
  /\ paletteIdRequested # NO_PALETTE_CHANGE_REQUESTED
  /\ ChangePal(paletteIdRequested)
  /\ paletteIdRequested' = NO_PALETTE_CHANGE_REQUESTED
  /\ UNCHANGED <<vars, soundVars>>

-----------------------------------------------------------------------------
GameInit ==
  /\ Init
  /\ heard = {} /\ sfxMod = Nothing /\ ticking = FALSE /\ orphaned = FALSE
  /\ paletteIdRequested = NO_PALETTE_CHANGE_REQUESTED
  /\ colours = Nothing

GameNext ==
  \/ \E s \in Played : PlaySound(s)
  \/ \E m \in Demanded : PlayMusic(m)
  \/ StopMusic
  \/ \E s \in InPlayer(sfxMod) \ {sfxMod} : Note(s)
  \/ SongEnds
  \/ \E e \in heard : SoundEnds(e)
  \/ ReleaseAll
  \/ UpdateMemList
  \/ InitForPart
  \/ Loading
  \/ \E id \in PaletteIds : SetPalette(id)
  \/ UpdateDisplay
  \/ ErrorLoop /\ UNCHANGED <<soundVars, paletteVars>>

\* loadMarkedAsNeeded is a loop of the main program: nothing can hold it up.
GameSpec == GameInit /\ [][GameNext]_gameVars /\ WF_gameVars(Loading)

-----------------------------------------------------------------------------
(* Properties.                                                             *)

\* What the channels and the timer have pointers to.
Held == heard \cup (IF ticking THEN InPlayer(sfxMod) ELSE {})

\* What the interrupts may read at any moment, also while the next part is being
\* loaded over the one before, is still in the memory: no release, load or change
\* of part overwrites a sound or a music that is not stopped, unless some music was
\* started over another or without being loaded, whose timer nothing stops.
HeldIsIntact == ~ orphaned => \A e \in Held : IsLoaded(e) /\ Intact(e)

\* The colours of the screen are read from the palettes of the part that is played,
\* though their number may have been asked for in the part before: never from
\* what lies where these palettes were.
ColoursOfThePart ==
  [][colours' # colours => colours' = MemListParts[currentPartId].palette]_gameVars
=============================================================================
