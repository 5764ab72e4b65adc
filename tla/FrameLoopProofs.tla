--------------------------- MODULE FrameLoopProofs ---------------------------
(* What holds of the main loop for any buttons, parts and times.           *)
EXTENDS FrameLoop, TLAPS

USE LoopAssumption DEF LoopAssumption, Buttons, Phases

-----------------------------------------------------------------------------
(* The input.                                                              *)

\* A scan leaves the masks in step with the controller.
LEMMA ScanTracks ==
  ASSUME TypeOK, InputTracks, ProcessEvents
  PROVE  InputTracks'
BY DEF TypeOK, InputTracks, ProcessEvents, Down, Up

\* Every variable keeps its type, and sleep is never called for a time that is
\* over.
THEOREM TypeCorrect == Spec => []TypeOK
<1>1. Init => TypeOK
  <2> SUFFICES ASSUME Init PROVE TypeOK
    OBVIOUS
  <2>1. button \in BOOLEAN /\ code \in BOOLEAN /\ pause \in BOOLEAN /\ pressed \in BOOLEAN
    BY Zenon DEF Init
  <2>2. shown \in Nat /\ slept \in Nat /\ timeToSleep \in Int /\ slices = 0
    BY DEF Init
  <2> QED
    BY <2>1, <2>2 DEF Init, TypeOK
<1>2. TypeOK /\ [Next]_vars => TypeOK'
  <2> SUFFICES ASSUME TypeOK, [Next]_vars PROVE TypeOK'
    OBVIOUS
  <2> USE DEF TypeOK, vars, inputVars, partVars, timeVars
  <2>1. CASE Player
    BY <2>1 DEF Player
  <2>2. CASE Tick
    BY <2>2 DEF Tick
  <2>3. CASE CheckThreadRequests
    BY <2>3 DEF CheckThreadRequests
  <2>4. CASE UpdatePlayer
    BY <2>4 DEF UpdatePlayer, ProcessEvents, Down, Up
  <2>5. CASE RequestPart
    BY <2>5 DEF RequestPart
  <2>6. CASE EndFrame
    BY <2>6 DEF EndFrame
  <2>7. CASE Blit
    BY <2>7 DEF Blit
  <2>8. CASE PauseLoop
    BY <2>8 DEF PauseLoop, ProcessEvents, Down, Up
  <2>9. CASE CodeKey
    BY <2>9 DEF CodeKey
  <2>10. CASE Delay
    BY <2>10 DEF Delay
  <2>11. CASE StartSleep
    BY <2>11 DEF StartSleep
  <2>12. CASE Sleep
    BY <2>12 DEF Sleep
  <2>13. CASE Stamp
    BY <2>13 DEF Stamp
  <2>14. CASE UNCHANGED vars
    BY <2>14
  <2> QED
    BY <2>1, <2>2, <2>3, <2>4, <2>5, <2>6, <2>7, <2>8, <2>9, <2>10, <2>11, <2>12,
       <2>13, <2>14 DEF Next, Show
<1> QED
  BY <1>1, <1>2, PTL DEF Spec

\* The scripts are told what the controller said at the last scan.
THEOREM InputFollowsController == Spec => []InputTracks
<1>1. Init => InputTracks
  BY DEF Init, InputTracks
<1>2. TypeOK /\ InputTracks /\ [Next]_vars => InputTracks'
  <2> SUFFICES ASSUME TypeOK, InputTracks, [Next]_vars PROVE InputTracks'
    OBVIOUS
  <2>1. CASE UpdatePlayer
    BY <2>1, ScanTracks DEF UpdatePlayer
  <2>2. CASE PauseLoop
    <3>1. CASE pause
      BY <2>2, <3>1 DEF PauseLoop, InputTracks
    <3>2. CASE ~pause
      BY <2>2, <3>2, ScanTracks DEF PauseLoop
    <3> QED
      BY <3>1, <3>2
  <2>3. CASE Player \/ Tick \/ CheckThreadRequests \/ RequestPart \/ EndFrame
    BY <2>3 DEF Player, Tick, CheckThreadRequests, RequestPart, EndFrame, InputTracks, inputVars
  <2>4. CASE Blit \/ CodeKey \/ Delay \/ StartSleep \/ Sleep \/ Stamp
    BY <2>4 DEF Blit, CodeKey, Delay, StartSleep, Sleep, Stamp, InputTracks, inputVars
  <2>5. CASE UNCHANGED vars
    BY <2>5 DEF vars, InputTracks, inputVars
  <2> QED
    BY <2>1, <2>2, <2>3, <2>4, <2>5 DEF Next, Show
<1> QED
  BY <1>1, <1>2, TypeCorrect, PTL DEF Spec

-----------------------------------------------------------------------------
(* The pause.                                                              *)

\* A pause that is asked for comes from a press that has had no effect yet.
PauseIsPressed == pause => pressed

LEMMA PauseFromPress == Spec => []PauseIsPressed
<1>1. Init => PauseIsPressed
  BY DEF Init, PauseIsPressed
<1>2. PauseIsPressed /\ [Next]_vars => PauseIsPressed'
  <2> SUFFICES ASSUME PauseIsPressed, [Next]_vars PROVE PauseIsPressed'
    OBVIOUS
  <2> USE DEF PauseIsPressed, inputVars
  <2>1. CASE UpdatePlayer \/ PauseLoop
    BY <2>1 DEF UpdatePlayer, PauseLoop, ProcessEvents
  <2>2. CASE Player \/ Tick \/ CheckThreadRequests \/ RequestPart \/ EndFrame
    BY <2>2 DEF Player, Tick, CheckThreadRequests, RequestPart, EndFrame
  <2>3. CASE Blit \/ CodeKey \/ Delay \/ StartSleep \/ Sleep \/ Stamp
    BY <2>3 DEF Blit, CodeKey, Delay, StartSleep, Sleep, Stamp
  <2>4. CASE UNCHANGED vars
    BY <2>4 DEF vars
  <2> QED
    BY <2>1, <2>2, <2>3, <2>4 DEF Next, Show
<1> QED
  BY <1>1, <1>2, PTL DEF Spec

\* A press of Start begins or ends one pause at most, and nothing else does.
THEOREM OnePressOnePause == Spec => OnePressOneEffect
<1>1. PauseIsPressed /\ [Next]_vars
        => [(phase = "paused") # (phase' = "paused") => pressed]_vars
  <2> SUFFICES ASSUME PauseIsPressed, [Next]_vars, (phase = "paused") # (phase' = "paused")
               PROVE  pressed
    OBVIOUS
  <2> USE DEF PauseIsPressed
  <2>1. CASE UpdatePlayer \/ PauseLoop
    BY <2>1 DEF UpdatePlayer, PauseLoop
  <2>2. CASE Player \/ Tick \/ CheckThreadRequests \/ RequestPart \/ EndFrame
    BY <2>2 DEF Player, Tick, CheckThreadRequests, RequestPart, EndFrame
  <2>3. CASE Blit
    BY <2>3 DEF Blit
  <2>4. CASE CodeKey \/ Delay \/ StartSleep \/ Sleep \/ Stamp
    BY <2>4 DEF CodeKey, Delay, StartSleep, Sleep, Stamp
  <2>5. CASE UNCHANGED vars
    BY <2>5 DEF vars
  <2> QED
    BY <2>1, <2>2, <2>3, <2>4, <2>5 DEF Next, Show
<1> QED
  BY <1>1, PauseFromPress, PTL DEF Spec, OnePressOneEffect

-----------------------------------------------------------------------------
(* The time of a picture.                                                  *)

\* What has been slept and what remains make up the slices, at every stage of
\* the delay; ticks that fall between the readings of the clock only add to it.
DelaySuffices ==
  /\ phase = "call" => shown + timeToSleep >= slices * SliceTicks
  /\ phase = "sleep" => shown + timeToSleep >= slices * SliceTicks + slept
  /\ phase = "stamp" => shown >= slices * SliceTicks

LEMMA DelayLongEnough == Spec => []DelaySuffices
<1>1. Init => DelaySuffices
  BY DEF Init, DelaySuffices
<1>2. TypeOK /\ DelaySuffices /\ [Next]_vars => DelaySuffices'
  <2> SUFFICES ASSUME TypeOK, DelaySuffices, [Next]_vars PROVE DelaySuffices'
    OBVIOUS
  <2> DEFINE due == slices * SliceTicks
  <2>0. due \in Nat /\ shown \in Nat /\ slept \in Nat /\ timeToSleep \in Int
    BY DEF TypeOK
  <2>1. CASE Tick
    BY <2>0, <2>1 DEF Tick, DelaySuffices
  <2>2. CASE Delay
    BY <2>0, <2>2 DEF Delay, DelaySuffices
  <2>3. CASE StartSleep
    BY <2>0, <2>3 DEF StartSleep, DelaySuffices
  <2>4. CASE Sleep
    BY <2>0, <2>4 DEF Sleep, DelaySuffices, timeVars
  <2>5. CASE Player \/ CheckThreadRequests \/ UpdatePlayer \/ RequestPart \/ EndFrame
    BY <2>5 DEF Player, CheckThreadRequests, UpdatePlayer, RequestPart, EndFrame,
                DelaySuffices, timeVars
  <2>6. CASE Blit \/ PauseLoop \/ CodeKey \/ Stamp
    BY <2>6 DEF Blit, PauseLoop, CodeKey, Stamp, DelaySuffices
  <2>7. CASE UNCHANGED vars
    BY <2>7 DEF vars, DelaySuffices, timeVars
  <2> QED
    BY <2>1, <2>2, <2>3, <2>4, <2>5, <2>6, <2>7 DEF Next, Show
<1> QED
  BY <1>1, <1>2, TypeCorrect, PTL DEF Spec

\* A picture stays for the slices that the script has set, or longer.
THEOREM PicturesStay == Spec => FrameLives
<1>1. DelaySuffices /\ [Next]_vars
        => [phase = "stamp" /\ phase' = "host" => shown >= slices * SliceTicks]_vars
  BY DEF DelaySuffices
<1> QED
  BY <1>1, DelayLongEnough, PTL DEF Spec, FrameLives
=============================================================================
