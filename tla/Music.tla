-------------------------------- MODULE Music --------------------------------
(***************************************************************************)
(* Where a music is: the order and the row that handleEvents plays next    *)
(* (sfxplayer.cpp).  The module adds them to SoundPlayer, whose actions    *)
(* say what becomes of the channels, of the timer and of the resources.    *)
(*                                                                         *)
(* A music is a list of orders, each of which plays the rows of a          *)
(* pattern; a row has four notes, one for each channel. Time is left out,  *)
(* and with it _delay, which op_playMusic can set at any time, but which   *)
(* is only looked at when the timer is created. A timer that interrupts    *)
(* loadSfxModule, which only one that nobody knows can do, finds it done   *)
(* or not begun.                                                           *)
(***************************************************************************)
EXTENDS SoundPlayer

CONSTANTS
  OrderTable, \* 128: the orders in orderTable; curOrder has twice as many values
  NumOrder,   \* numOrder of the musics
  Rows,       \* the rows of a pattern: 1024 bytes, 16 for each row
  Positions   \* the orders that op_playMusic begins with, by music

ASSUME MusicAssumption ==
  /\ OrderTable \in Nat \ {0}
  /\ NumOrder \in [Musics -> 1 .. OrderTable]
  /\ Rows \in Nat \ {0}
  /\ Positions \in [Musics -> SUBSET Nat]
  /\ \A m \in Musics : \A pos \in Positions[m] : pos < NumOrder[m]

VARIABLES
  curOrder,   \* curOrder, of 8 bits
  curPos      \* curPos, in rows

positionVars == <<curOrder, curPos>>
musicVars == <<vars, positionVars>>

\* Mutant: the order is not advanced.
NextOrder_Same == curOrder

\* The order and the row that follow, and whether the song is over.
Orders == 0 .. 2 * OrderTable - 1
NextOrder == (curOrder + 1) % (2 * OrderTable)
AtEndOfOrder == curPos + 1 >= Rows

\* Mutant: one order too many is played.
AtEndOfSong_OneMore(numOrder) == AtEndOfOrder /\ NextOrder > numOrder

AtEndOfSong(numOrder) == AtEndOfOrder /\ NextOrder = numOrder

Advance ==
  /\ curPos' = IF AtEndOfOrder THEN 0 ELSE curPos + 1
  /\ curOrder' = IF AtEndOfOrder THEN NextOrder ELSE curOrder

\* numOrder in _sfxMod, in which anything is until the first music is loaded.
NumOrders(m) == IF m = None THEN Orders ELSE {NumOrder[m]}

\* handleEvents
HandleEvents ==
  /\ \E numOrder \in NumOrders(sfxMod) :
       IF AtEndOfSong(numOrder) THEN LastPattern ELSE PlayPattern
  /\ Advance

\* op_playMusic: loadSfxModule, whose error() leaves the position set, then start.
LoadAt(m, pos) ==
  /\ LoadSfxModule(m)
  /\ IF m \in loaded
     THEN curOrder' = pos /\ curPos' = 0
     ELSE UNCHANGED positionVars

StartMusic ==
  /\ Start
  /\ curPos' = 0
  /\ UNCHANGED curOrder

\* What does not touch the position.
Elsewhere ==
  /\ \/ Mix
     \/ \E r \in Sounds \cup Musics : Load(r)
     \/ \E s \in Sounds, c \in EffectChannels : PlaySound(s, c)
     \/ \E c \in EffectChannels : StopSound(c)
     \/ \E f \in Fields : StoreField(f)
     \/ \E release \in BOOLEAN : Stop(release)
     \/ ForgetMusic \/ RemoveTimer \/ StopNext \/ Release
     \/ ErrorLoop
  /\ UNCHANGED positionVars

MusicInit == Init /\ curOrder \in Orders /\ curPos = 0

MusicNext ==
  \/ HandleEvents
  \/ \E m \in Musics : \E pos \in Positions[m] : LoadAt(m, pos)
  \/ StartMusic
  \/ Elsewhere

\* The timer of a music goes off again and again.
MusicSpec == MusicInit /\ [][MusicNext]_musicVars /\ WF_musicVars(HandleEvents)

-----------------------------------------------------------------------------

\* handleEvents: the end of a music is only looked for by equality, but no order is
\* ever read that is not of the music, wherever the scripts let it begin, if they
\* start musics as they should.
OrderIsOfMusic ==
  /\ curOrder \in Orders /\ curPos \in 0 .. Rows - 1
  /\ timers # {} /\ ~ unruly => curOrder < NumOrder[sfxMod]

\* handleEvents: a music comes to an end, if it is not stopped before and no other one
\* is started over it.
SongsEnd == timers # {} /\ ~ unruly ~> timers = {} \/ unruly
=============================================================================
