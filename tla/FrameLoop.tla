------------------------------ MODULE FrameLoop ------------------------------
(***************************************************************************)
(* The main loop as the player meets it: the controller, the pause, the    *)
(* code key and the time for which a picture stays (engine.cpp, the inp_   *)
(* functions and op_blitFramebuffer of vm.cpp, sysImplementation.cpp).     *)
(*                                                                         *)
(* A turn of Engine::run changes the part if that was requested, scans the *)
(* controller once for the scripts and lets them run; they show a picture  *)
(* now and then, and only there are the special keys looked at.  The       *)
(* controller is not read by an interrupt: what is pressed and released    *)
(* between two scans is never seen.  The timer interrupt counts the time.  *)
(*                                                                         *)
(* Abstractions.  Scripts are what they show and which part they ask for.  *)
(* Time is counted in ticks, and from the last picture on; the turns of    *)
(* the pause loop, which sleeps between them, take any time.               *)
(***************************************************************************)
EXTENDS Integers

CONSTANTS
  Directions,      \* left, right, up, down
  A, C_up, Start,  \* the buttons for the action, the code and the pause
  Parts,           \* the game parts
  FirstPart,       \* GAME_PART_FIRST, which is GAME_PART1: the protection screen
  IntroPart,       \* GAME_PART2
  LastPart,        \* GAME_PART_LAST: the screen where codes are entered
  NoPart,          \* 0: no part is requested
  Slices,          \* the values of VM_VARIABLE_PAUSE_SLICES
  SliceTicks,      \* the ticks of a slice of 20 ms
  MaxTicks         \* bound: the longest time between two pictures

Buttons == Directions \cup {A, C_up, Start}

ASSUME LoopAssumption ==
  /\ A # C_up /\ A # Start /\ C_up # Start
  /\ Directions \cap {A, C_up, Start} = {}
  /\ FirstPart \in Parts /\ IntroPart \in Parts /\ LastPart \in Parts
  /\ NoPart \notin Parts
  /\ Slices \subseteq Nat
  /\ SliceTicks \in Nat
  /\ MaxTicks \in Nat

VARIABLES
  held,               \* the buttons that the player holds
  scanned,            \* those that were held at the last controller_scan
  dirMask,            \* input.dirMask, as the set of its directions
  button,             \* input.button
  code,               \* input.code
  pause,              \* input.pause
  part,               \* currentPartId
  requestedNextPart,  \* requestedNextPart
  phase,              \* what the main program is doing
  slices,             \* vmVariables[VM_VARIABLE_PAUSE_SLICES] at a picture, 0 before it
  shown,              \* the time since lastTimeStamp, in ticks
  timeToSleep,        \* timeToSleep, in ticks, 0 when out of scope
  slept,              \* the time since start was set in sleep
  pressed             \* history: Start was seen to go down, and has had no effect

inputVars == <<dirMask, button, code, pause>>
partVars == <<part, requestedNextPart>>
timeVars == <<slices, shown, timeToSleep, slept>>
vars == <<held, scanned, inputVars, partVars, phase, timeVars, pressed>>

-----------------------------------------------------------------------------
(* The environment.                                                        *)

\* The player presses or releases a button.
Player ==
  /\ \E b \in Buttons : held' = IF b \in held THEN held \ {b} ELSE held \cup {b}
  /\ UNCHANGED <<scanned, inputVars, partVars, phase, timeVars, pressed>>

\* tickercb.
Tick ==
  /\ shown < MaxTicks \/ (phase = "sleep" /\ slept < timeToSleep)
  /\ shown' = shown + 1
  /\ slept' = IF phase = "sleep" THEN slept + 1 ELSE slept
  /\ UNCHANGED <<held, scanned, inputVars, partVars, phase, slices, timeToSleep, pressed>>

-----------------------------------------------------------------------------
(* processEvents, which only sees what has changed since the last scan.    *)

Down == held \ scanned
Up == scanned \ held

\* Mutant: what is released is only looked at if nothing is pressed.
ProcessEvents_PressFirst ==
  /\ scanned' = held
  /\ dirMask' = IF Down # {} THEN dirMask \cup (Down \cap Directions)
                ELSE dirMask \ Up
  /\ button' = ((button \/ A \in Down) /\ (Down # {} \/ A \notin Up))
  /\ code' = (code \/ C_up \in Down)
  /\ pause' = (pause \/ Start \in Down)
  /\ pressed' = (pressed \/ Start \in Down)

\* pressed_key, then released_key.  The special keys are only set here.
ProcessEvents ==
  /\ scanned' = held
  /\ dirMask' = (dirMask \cup (Down \cap Directions)) \ Up
  /\ button' = ((button \/ A \in Down) /\ A \notin Up)
  /\ code' = (code \/ C_up \in Down)
  /\ pause' = (pause \/ Start \in Down)
  /\ pressed' = (pressed \/ Start \in Down)

-----------------------------------------------------------------------------
(* Engine::run.  Nothing sets the other inputs, so that processInput has   *)
(* nothing to do.                                                          *)

CheckThreadRequests ==
  /\ phase = "check"
  /\ part' = IF requestedNextPart = NoPart THEN part ELSE requestedNextPart
  /\ requestedNextPart' = NoPart
  /\ phase' = "input"
  /\ UNCHANGED <<held, scanned, inputVars, timeVars, pressed>>

UpdatePlayer ==
  /\ phase = "input"
  /\ ProcessEvents
  /\ phase' = "host"
  /\ UNCHANGED <<held, partVars, timeVars>>

\* A script asks for a part.
RequestPart ==
  /\ phase = "host"
  /\ requestedNextPart' \in Parts
  /\ UNCHANGED <<held, scanned, inputVars, part, phase, timeVars, pressed>>

EndFrame ==
  /\ phase = "host"
  /\ phase' = "check"
  /\ UNCHANGED <<held, scanned, inputVars, partVars, timeVars, pressed>>

-----------------------------------------------------------------------------
(* op_blitFramebuffer: inp_handleSpecialKeys, then the delay.              *)

CanPause == part \notin {FirstPart, IntroPart}

\* A script shows a picture.
Blit ==
  /\ phase = "host"
  /\ slices' \in Slices
  /\ pressed' = (pressed /\ ~pause)
  /\ pause' = FALSE
  /\ phase' = IF pause /\ CanPause THEN "paused" ELSE "code"
  /\ UNCHANGED <<held, scanned, dirMask, button, code, partVars, shown, timeToSleep, slept>>

\* Mutant: the press that ends the pause is left for the next picture.
PauseLoop_KeepsPress ==
  /\ phase = "paused"
  /\ IF pause
     THEN /\ pressed' = FALSE
          /\ phase' = "code"
          /\ UNCHANGED <<scanned, inputVars>>
     ELSE ProcessEvents /\ UNCHANGED phase
  /\ UNCHANGED <<held, partVars, timeVars>>

\* Mutant: pause is reset in the loop, not in front of it.
PauseLoop_Resets ==
  /\ phase = "paused"
  /\ IF pause
     THEN pressed' = FALSE /\ phase' = "code" /\ UNCHANGED <<scanned, inputVars>>
     ELSE /\ scanned' = held
          /\ dirMask' = (dirMask \cup (Down \cap Directions)) \ Up
          /\ button' = ((button \/ A \in Down) /\ A \notin Up)
          /\ code' = (code \/ C_up \in Down)
          /\ pause' = FALSE
          /\ UNCHANGED <<phase, pressed>>
  /\ UNCHANGED <<held, partVars, timeVars>>

\* The test of the loop, and its body.
PauseLoop ==
  /\ phase = "paused"
  /\ IF pause
     THEN /\ pause' = FALSE
          /\ pressed' = FALSE
          /\ phase' = "code"
          /\ UNCHANGED <<scanned, dirMask, button, code>>
     ELSE ProcessEvents /\ UNCHANGED phase
  /\ UNCHANGED <<held, partVars, timeVars>>

CodeKey ==
  /\ phase = "code"
  /\ code' = FALSE
  /\ requestedNextPart' = IF code /\ part \notin {FirstPart, LastPart} THEN LastPart
                          ELSE requestedNextPart
  /\ phase' = "delay"
  /\ UNCHANGED <<held, scanned, dirMask, button, pause, part, timeVars, pressed>>

\* Mutant: sleep is called whatever the time that is left.
Delay_Always ==
  /\ phase = "delay"
  /\ timeToSleep' = slices * SliceTicks - shown
  /\ phase' = "call"
  /\ UNCHANGED <<held, scanned, inputVars, partVars, slices, shown, slept, pressed>>

\* The first reading of the clock: the time that is left.
Delay ==
  /\ phase = "delay"
  /\ timeToSleep' = slices * SliceTicks - shown
  /\ phase' = IF timeToSleep' > 0 THEN "call" ELSE "stamp"
  /\ UNCHANGED <<held, scanned, inputVars, partVars, slices, shown, slept, pressed>>

\* The second one, at the beginning of sleep.
StartSleep ==
  /\ phase = "call"
  /\ slept' = 0
  /\ phase' = "sleep"
  /\ UNCHANGED <<held, scanned, inputVars, partVars, slices, shown, timeToSleep, pressed>>

\* Mutant: the loop of sleep ends a tick early.
Sleep_Early ==
  /\ phase = "sleep"
  /\ slept + 1 >= timeToSleep
  /\ phase' = "stamp"
  /\ UNCHANGED <<held, scanned, inputVars, partVars, timeVars, pressed>>

\* The end of the loop of sleep.
Sleep ==
  /\ phase = "sleep"
  /\ slept >= timeToSleep
  /\ phase' = "stamp"
  /\ UNCHANGED <<held, scanned, inputVars, partVars, timeVars, pressed>>

\* lastTimeStamp is set, the third reading, and the picture is shown.
Stamp ==
  /\ phase = "stamp"
  /\ shown' = 0
  /\ slices' = 0
  /\ timeToSleep' = 0
  /\ slept' = 0
  /\ phase' = "host"
  /\ UNCHANGED <<held, scanned, inputVars, partVars, pressed>>

-----------------------------------------------------------------------------
Init ==
  /\ held = {}
  /\ scanned = {}
  /\ dirMask = {}
  /\ button = FALSE
  /\ code = FALSE
  /\ pause = FALSE
  /\ part = FirstPart
  /\ requestedNextPart = NoPart
  /\ phase = "check"
  /\ slices = 0
  /\ shown = 0
  /\ timeToSleep = 0
  /\ slept = 0
  /\ pressed = FALSE

Show == Blit \/ PauseLoop \/ CodeKey \/ Delay \/ StartSleep \/ Sleep \/ Stamp

Next ==
  \/ Player \/ Tick
  \/ CheckThreadRequests \/ UpdatePlayer \/ RequestPart \/ EndFrame
  \/ Show

\* The program and the timer go on.  A script ends its turn in the end, as the
\* module VmThreads assumes too, however many pictures it shows in it.
Fairness ==
  /\ WF_vars(CheckThreadRequests \/ UpdatePlayer)
  /\ SF_vars(EndFrame)
  /\ WF_vars(PauseLoop) /\ WF_vars(CodeKey) /\ WF_vars(Delay)
  /\ WF_vars(StartSleep) /\ WF_vars(Sleep) /\ WF_vars(Stamp)
  /\ WF_vars(Tick)

Spec == Init /\ [][Next]_vars

FairSpec == Spec /\ Fairness

-----------------------------------------------------------------------------
Phases == {"check", "input", "host", "paused", "code", "delay", "call", "sleep", "stamp"}

\* Every variable has its type.  The duration of sleep is unsigned in the code:
\* it is never called with a time that has already passed.
TypeOK ==
  /\ held \subseteq Buttons /\ scanned \subseteq Buttons
  /\ dirMask \subseteq Directions
  /\ button \in BOOLEAN /\ code \in BOOLEAN
  /\ pause \in BOOLEAN /\ pressed \in BOOLEAN
  /\ part \in Parts
  /\ requestedNextPart \in Parts \cup {NoPart}
  /\ phase \in Phases
  /\ slices \in Slices \cup {0}
  /\ shown \in Nat
  /\ slept \in Nat
  /\ timeToSleep \in Int
  /\ phase \in {"call", "sleep"} => timeToSleep \in Nat \ {0}

\* What the scripts are told of the stick and of the action button is what the
\* controller said at the last scan, whatever was pressed and released, even
\* at once, and whoever scanned, the main loop or the pause: no button sticks.
InputTracks ==
  /\ dirMask = scanned \cap Directions
  /\ button <=> A \in scanned

\* Every press of Start does one thing at most: the press that ended a pause,
\* or that fell in a part without a pause, does not begin another one, and
\* none begins or ends without a press.
OnePressOneEffect ==
  [][(phase = "paused") # (phase' = "paused") => pressed]_vars

\* A picture follows the one before it by at least the number of slices that the
\* script has set, though the clock goes on between its three readings and
\* however long the game was paused.
FrameLives ==
  [][phase = "stamp" /\ phase' = "host" => shown >= slices * SliceTicks]_vars

\* The main loop comes round for ever, pictures or not, unless the player
\* comes to hold Start down for ever or to leave it alone for ever.
GameGoesOn ==
  \/ <>[](Start \in scanned)
  \/ <>[](Start \notin scanned)
  \/ []<>(phase = "check")
=============================================================================
