--------------------------- MODULE FrameScheduler ---------------------------
(***************************************************************************)
(* What the virtual machine promises to the scripts about its threads,     *)
(* without the stack, the program counter or the loop of the code.         *)
(*                                                                         *)
(* Time is cut into frames.  The threads of a frame are chosen when it     *)
(* begins; each of them runs once, in the order of their indices, and      *)
(* decides when it gives up control.  A running thread can only post       *)
(* requests: a jump or a kill of any thread, a freeze or thaw, a change of *)
(* game part.  They take effect together when the next frame begins.       *)
(***************************************************************************)
EXTENDS Integers

CONSTANTS
  Threads,     \* a set of integers
  Addresses,   \* where a thread may be
  Parts        \* the game parts

Inactive == 65535
Kill == 65534
NoRequest == 65535
NoThread == -1
NoPart == 0

VARIABLES
  pc,           \* where each thread goes on
  frozen,       \* the threads that do not run
  wantedPc,     \* the jump or kill posted for each thread
  wantedFrozen, \* the threads to be frozen in the next frame
  part,         \* the game part that is played
  wantedPart,   \* the game part that was asked for
  todo,         \* the threads that are still to run in this frame
  running,      \* the thread that runs
  stopped       \* the program has given up

vars == <<pc, frozen, wantedPc, wantedFrozen, part, wantedPart,
          todo, running, stopped>>

FreshPcs == [t \in Threads |-> IF t = 0 THEN 0 ELSE Inactive]
NoneWanted == [t \in Threads |-> NoRequest]

Init ==
  /\ pc = FreshPcs
  /\ frozen = {}
  /\ wantedPc = NoneWanted
  /\ wantedFrozen = {}
  /\ part \in Parts
  /\ wantedPart = NoPart
  /\ todo = {}
  /\ running = NoThread
  /\ stopped = FALSE

Runnable(pcs, held) == {t \in Threads \ held : pcs[t] # Inactive}

Obey(at, request) ==
  CASE request = NoRequest -> at
    [] request = Kill -> Inactive
    [] OTHER -> request

BetweenFrames == ~stopped /\ running = NoThread /\ todo = {}

NextFrame ==
  /\ BetweenFrames
  /\ wantedPart = NoPart
  /\ pc' = [t \in Threads |-> Obey(pc[t], wantedPc[t])]
  /\ frozen' = wantedFrozen
  /\ wantedPc' = NoneWanted
  /\ todo' = Runnable(pc', frozen')
  /\ UNCHANGED <<wantedFrozen, part, wantedPart, running, stopped>>

\* Nothing of the old part is left: not even what its last frame asked for.
NextPart ==
  /\ BetweenFrames
  /\ wantedPart \in Parts
  /\ part' = wantedPart
  /\ wantedPart' = NoPart
  /\ pc' = FreshPcs
  /\ wantedPc' = NoneWanted
  /\ frozen' = {}
  /\ wantedFrozen' = {}
  /\ todo' = {0}
  /\ UNCHANGED <<running, stopped>>

Grant(t) ==
  /\ ~stopped
  /\ running = NoThread
  /\ t \in todo
  /\ \A u \in todo : t <= u
  /\ running' = t
  /\ todo' = todo \ {t}
  /\ UNCHANGED <<pc, frozen, wantedPc, wantedFrozen, part, wantedPart, stopped>>

Post ==
  /\ running # NoThread
  /\ wantedPc' \in [Threads -> Addresses \cup {Kill, NoRequest}]
  /\ wantedFrozen' \in SUBSET Threads
  /\ UNCHANGED <<pc, frozen, part, wantedPart, todo, running, stopped>>

AskForPart ==
  /\ running # NoThread
  /\ wantedPart' \in Nat \ {NoPart}
  /\ UNCHANGED <<pc, frozen, wantedPc, wantedFrozen, part, todo, running, stopped>>

Yield(p) ==
  /\ running # NoThread
  /\ pc' = [pc EXCEPT ![running] = p]
  /\ running' = NoThread
  /\ UNCHANGED <<frozen, wantedPc, wantedFrozen, part, wantedPart, todo, stopped>>

\* A part that is unknown or cannot be loaded, or a running thread that calls or
\* returns too often.
GiveUp ==
  /\ ~stopped
  /\ \/ running # NoThread
     \/ BetweenFrames /\ wantedPart \notin {part, NoPart}
  /\ stopped' = TRUE
  /\ running' = NoThread
  /\ todo' = {}
  /\ UNCHANGED <<pc, frozen, wantedPc, wantedFrozen, part, wantedPart>>

Next ==
  \/ NextFrame
  \/ NextPart
  \/ \E t \in Threads : Grant(t)
  \/ Post
  \/ AskForPart
  \/ \E p \in Addresses \cup {Inactive} : Yield(p)
  \/ GiveUp

Spec == Init /\ [][Next]_vars
=============================================================================
