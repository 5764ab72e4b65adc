------------------------------ MODULE AudioOut ------------------------------
(***************************************************************************)
(* Where the samples go: the_audio_callback (sysImplementation.cpp), which *)
(* a timer calls, mixes into one of two buffers and hands it to the audio  *)
(* interface of the N64, which reads the buffers it is given by itself and *)
(* holds two of them at most.                                              *)
(*                                                                         *)
(* The callback is not preempted by the scripts or the music, but the      *)
(* audio interface goes on meanwhile.                                      *)
(***************************************************************************)
EXTENDS Mixer, Sequences

CONSTANT NumSamples  \* NUM_SAMPLES

ASSUME AudioAssumption == NumSamples \in Nat \ {0}

VARIABLES
  pcmflip,  \* pcmflip: pcmbuf is pcmout[pcmflip]
  ai,       \* the buffers that the audio interface holds, in order: it reads the first
  j         \* how many samples of pcmbuf mix has done, or Idle

Idle == -1
audioVars == <<pcmflip, ai, j>>

-----------------------------------------------------------------------------
\* Mutant: the status is not looked at.
BeginMix_Full ==
  /\ j = Idle
  /\ j' = 0
  /\ UNCHANGED <<vars, pcmflip, ai>>

\* The status is not AI_STATUS_FULL.  While it is, the callback returns at once.
BeginMix ==
  /\ j = Idle
  /\ Len(ai) < 2
  /\ j' = 0
  /\ UNCHANGED <<vars, pcmflip, ai>>

NextSample ==
  /\ j \in 0 .. NumSamples - 1
  /\ MixSample
  /\ j' = j + 1
  /\ UNCHANGED <<pcmflip, ai>>

Submit ==
  /\ j = NumSamples
  /\ ai' = Append(ai, pcmflip)
  /\ pcmflip' = 1 - pcmflip
  /\ j' = Idle
  /\ UNCHANGED vars

\* The audio interface has come to the end of a buffer.
Played ==
  /\ ai # <<>>
  /\ ai' = Tail(ai)
  /\ UNCHANGED <<vars, pcmflip, j>>

\* The scripts and the music change the channels between two calls of mix.
Play == j = Idle /\ (Script \/ Music) /\ UNCHANGED audioVars

-----------------------------------------------------------------------------
AudioInit == Init /\ pcmflip = 0 /\ ai = <<>> /\ j = Idle

AudioNext == Play \/ BeginMix \/ NextSample \/ Submit \/ Played

\* The timer calls for ever, what it calls comes to its end, and the audio interface
\* plays what it is given.
AudioSpec ==
  /\ AudioInit /\ [][AudioNext]_<<vars, audioVars>>
  /\ WF_<<vars, audioVars>>(BeginMix)
  /\ WF_<<vars, audioVars>>(NextSample \/ Submit)
  /\ WF_<<vars, audioVars>>(Played)

-----------------------------------------------------------------------------
(* Properties.                                                             *)

\* mix clears and fills a buffer that the audio interface does not hold: nobody hears
\* a buffer that is half mixed, although nothing but the status keeps the callback
\* and the interface apart.
MixesUnheard == j # Idle => \A i \in 1 .. Len(ai) : ai[i] # pcmflip
=============================================================================
