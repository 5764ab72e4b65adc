------------------------------ MODULE VmThreads ------------------------------
(***************************************************************************)
(* The cooperative threads of the virtual machine (vm.cpp, vm.h).          *)
(*                                                                         *)
(* Engine::run alternates checkThreadRequests, which applies what was      *)
(* requested during the previous frame (a change of game part, a jump or a *)
(* kill of a thread, a freeze), with hostFrame, which gives every thread   *)
(* that is neither inactive nor frozen one slice, in index order.  In its  *)
(* slice a thread executes bytecode until a break or a kill.               *)
(*                                                                         *)
(* Abstractions.  The bytecode is data: any instruction may be the next    *)
(* one, so what is shown holds for every script.  An instruction takes one *)
(* address, whatever the number of its operand bytes.  vmVariables and the *)
(* drawing and sound instructions do not touch the state of the threads:   *)
(* to this module they are straight-line, and a conditional jump is either *)
(* taken or not.                                                           *)
(***************************************************************************)
EXTENDS Integers, Sequences

CONSTANTS
  NumThreads,   \* VM_NUM_THREADS, which is also the length of _scriptStackCalls
  StackLimit,   \* the value of _stackPtr at which op_call reports an overflow
  CodeSize,     \* number of addresses of the bytecode segment
  FirstPart,    \* GAME_PART_FIRST
  LastPart,     \* GAME_PART_LAST
  PartIds,      \* the part ids that scripts request, valid or not
  CallDepth     \* bound: the deepest nesting of calls that the scripts reach

ASSUME ThreadsAssumption == NumThreads \in Nat \ {0}
ASSUME CodeAssumption == CodeSize \in Nat \ {0} /\ CodeSize <= 65534
ASSUME StackAssumption ==
  /\ StackLimit \in NumThreads .. 4 * NumThreads - 1
  /\ CallDepth \in Nat
ASSUME PartsAssumption ==
  /\ FirstPart \in Nat \ {0}
  /\ LastPart \in Nat
  /\ FirstPart <= LastPart
  /\ PartIds \subseteq Nat \ {0}

Threads == 0 .. NumThreads - 1
Code == 0 .. CodeSize - 1
Parts == FirstPart .. LastPart

VM_NO_SETVEC_REQUESTED == 65535
VM_INACTIVE_THREAD == 65535
KILL_REQUEST == 65534            \* the 0xFFFE of op_resetThread

VARIABLES
  pcOffset,           \* threadsData[PC_OFFSET]
  requestedPc,        \* threadsData[REQUESTED_PC_OFFSET]
  currState,          \* vmIsChannelActive[CURR_STATE]: non-zero is frozen
  requestedState,     \* vmIsChannelActive[REQUESTED_STATE]
  scriptStackCalls,   \* _scriptStackCalls
  stackPtr,           \* _stackPtr
  scriptPc,           \* _scriptPtr.pc - segBytecode
  gotoNextThread,     \* gotoNextThread
  threadId,           \* the loop index of hostFrame
  currentPartId,      \* res->currentPartId
  requestedNextPart,  \* res->requestedNextPart
  phase,              \* where Engine::run is; "halted" is the loop of error()
  eligible,           \* history: the threads that could run when the frame began
  ran,                \* history: the threads given a slice in this frame
  callers             \* history: the return addresses of the calls of this slice

threadVars == <<pcOffset, requestedPc, currState, requestedState>>
sliceVars == <<scriptStackCalls, stackPtr, scriptPc, gotoNextThread, threadId>>
partVars == <<currentPartId, requestedNextPart>>
historyVars == <<eligible, ran, callers>>
vars == <<threadVars, sliceVars, partVars, phase, historyVars>>

-----------------------------------------------------------------------------
(* Frame boundary: initForPart and checkThreadRequests.                    *)

\* initForPart: every thread inactive, then thread 0 at the start of the code.
InitialPcs == [t \in Threads |-> IF t = 0 THEN 0 ELSE VM_INACTIVE_THREAD]
NoRequests == [t \in Threads |-> VM_NO_SETVEC_REQUESTED]
Unfrozen == [t \in Threads |-> 0]

\* Mutant: hostFrame looks at the program counter alone.
CanRun_Frozen(pcs, states) == {t \in Threads : pcs[t] # VM_INACTIVE_THREAD}

CanRun(pcs, states) ==
  {t \in Threads : states[t] = 0 /\ pcs[t] # VM_INACTIVE_THREAD}

\* Mutant: a thread that is down cannot be started by a jump.
JumpTo_OnlyIfAlive(pc, request) ==
  IF request = VM_NO_SETVEC_REQUESTED \/ pc = VM_INACTIVE_THREAD THEN pc
  ELSE IF request = KILL_REQUEST THEN VM_INACTIVE_THREAD
  ELSE request

JumpTo(pc, request) ==
  IF request = VM_NO_SETVEC_REQUESTED THEN pc
  ELSE IF request = KILL_REQUEST THEN VM_INACTIVE_THREAD
  ELSE request

\* The loop over the threads that ends checkThreadRequests.
ApplyRequests(pcs, requests, states) ==
  /\ pcOffset' = [t \in Threads |-> JumpTo(pcs[t], requests[t])]
  /\ requestedPc' = NoRequests
  /\ currState' = states
  /\ requestedState' = states

BeginFrame ==
  /\ phase' = "host"
  /\ threadId' = 0
  /\ eligible' = CanRun(pcOffset', currState')
  /\ ran' = {}
  /\ UNCHANGED <<scriptStackCalls, stackPtr, scriptPc, gotoNextThread, callers>>

SamePart ==
  /\ requestedNextPart = 0
  /\ ApplyRequests(pcOffset, requestedPc, requestedState)
  /\ UNCHANGED partVars

\* Mutant: the requests of the old part are applied to the threads of the new.
SwitchPart_KeepsRequests ==
  /\ requestedNextPart \in Parts
  /\ ApplyRequests(InitialPcs, requestedPc, Unfrozen)
  /\ currentPartId' = requestedNextPart
  /\ requestedNextPart' = 0

\* initForPart clears all four arrays before the requests are looked at.
SwitchPart ==
  /\ requestedNextPart \in Parts
  /\ ApplyRequests(InitialPcs, NoRequests, Unfrozen)
  /\ currentPartId' = requestedNextPart
  /\ requestedNextPart' = 0

CheckThreadRequests ==
  /\ phase = "check"
  /\ SamePart \/ SwitchPart
  /\ BeginFrame

\* Resource::setupPart calls error(), which never returns: for a part that does not
\* exist, and when a segment of a new part cannot be read from its bank.
RefusePart ==
  /\ phase = "check"
  /\ requestedNextPart \notin {0, currentPartId}
  /\ phase' = "halted"
  /\ UNCHANGED <<threadVars, sliceVars, partVars, historyVars>>

-----------------------------------------------------------------------------
(* hostFrame: one slice per runnable thread.                               *)

SkipThread ==
  /\ phase = "host"
  /\ threadId \in Threads
  /\ threadId \notin CanRun(pcOffset, currState)
  /\ threadId' = threadId + 1
  /\ UNCHANGED <<threadVars, scriptStackCalls, stackPtr, scriptPc,
                 gotoNextThread, partVars, phase, historyVars>>

StartSlice ==
  /\ phase = "host"
  /\ threadId \in CanRun(pcOffset, currState)
  /\ scriptPc' = pcOffset[threadId]
  /\ stackPtr' = 0
  /\ gotoNextThread' = FALSE
  /\ phase' = "exec"
  /\ callers' = <<>>
  /\ ran' = ran \cup {threadId}
  /\ UNCHANGED <<threadVars, scriptStackCalls, threadId, partVars, eligible>>

EndSlice ==
  /\ phase = "exec"
  /\ gotoNextThread
  /\ pcOffset' = [pcOffset EXCEPT ![threadId] = scriptPc]
  /\ threadId' = threadId + 1
  /\ phase' = "host"
  /\ UNCHANGED <<requestedPc, currState, requestedState, scriptStackCalls,
                 stackPtr, scriptPc, gotoNextThread, partVars, historyVars>>

EndFrame ==
  /\ phase = "host"
  /\ threadId = NumThreads
  /\ phase' = "check"
  /\ UNCHANGED <<threadVars, sliceVars, partVars, historyVars>>

-----------------------------------------------------------------------------
(* executeThread: the instructions.                                        *)

\* The loop condition of executeThread.
Fetch ==
  /\ phase = "exec"
  /\ ~gotoNextThread
  /\ scriptPc \in Code

\* An instruction that is not the last one of the code segment: scripts do not
\* run past its end.
FetchInner == Fetch /\ scriptPc + 1 \in Code

\* Instructions that leave the threads alone: variables, drawing, sound,
\* resources, and a conditional jump that is not taken.
Straight ==
  /\ FetchInner
  /\ scriptPc' = scriptPc + 1
  /\ UNCHANGED <<threadVars, scriptStackCalls, stackPtr, gotoNextThread,
                 threadId, partVars, phase, historyVars>>

Jmp(target) ==
  /\ Fetch
  /\ scriptPc' = target
  /\ UNCHANGED <<threadVars, scriptStackCalls, stackPtr, gotoNextThread,
                 threadId, partVars, phase, historyVars>>

\* _scriptStackCalls has NumThreads cells, and _stackPtr may go up to
\* StackLimit.  The cells after it are, in the order of the declarations of
\* vm.h, those of threadsData[0], threadsData[1] and vmIsChannelActive, whose
\* bytes pair up, high byte first.
ChannelByte(k) ==
  IF k < NumThreads THEN currState[k] ELSE requestedState[k - NumThreads]

StackCell(i) ==
  CASE i < NumThreads -> scriptStackCalls[i]
    [] i \in NumThreads .. 2 * NumThreads - 1 -> pcOffset[i - NumThreads]
    [] i \in 2 * NumThreads .. 3 * NumThreads - 1 ->
         requestedPc[i - 2 * NumThreads]
    [] OTHER -> LET k == 2 * (i - 3 * NumThreads)
                IN  256 * ChannelByte(k) + ChannelByte(k + 1)

StoredByte(i, value, k, old) ==
  IF k = 2 * (i - 3 * NumThreads) THEN value \div 256
  ELSE IF k = 2 * (i - 3 * NumThreads) + 1 THEN value % 256
  ELSE old

StoreStackCell(i, value) ==
  /\ scriptStackCalls' =
       [t \in Threads |-> IF t = i THEN value ELSE scriptStackCalls[t]]
  /\ pcOffset' =
       [t \in Threads |-> IF NumThreads + t = i THEN value ELSE pcOffset[t]]
  /\ requestedPc' =
       [t \in Threads |-> IF 2 * NumThreads + t = i THEN value ELSE requestedPc[t]]
  /\ currState' =
       [t \in Threads |-> StoredByte(i, value, t, currState[t])]
  /\ requestedState' =
       [t \in Threads |-> StoredByte(i, value, NumThreads + t, requestedState[t])]

\* The return address is stored before the limit is tested.
Call(target) ==
  /\ FetchInner
  /\ stackPtr < CallDepth
  /\ StoreStackCell(stackPtr, scriptPc + 1)
  /\ IF stackPtr = StackLimit
     THEN /\ phase' = "halted"
          /\ UNCHANGED <<stackPtr, scriptPc, callers>>
     ELSE /\ stackPtr' = stackPtr + 1
          /\ scriptPc' = target
          /\ callers' = Append(callers, scriptPc + 1)
          /\ UNCHANGED phase
  /\ UNCHANGED <<gotoNextThread, threadId, partVars, eligible, ran>>

\* Mutant: the cell is read before _stackPtr is decremented.
Ret_ReadsAbove ==
  /\ Fetch
  /\ IF stackPtr = 0
     THEN /\ phase' = "halted"
          /\ UNCHANGED <<stackPtr, scriptPc, callers>>
     ELSE /\ stackPtr' = stackPtr - 1
          /\ scriptPc' = StackCell(stackPtr)
          /\ callers' = SubSeq(callers, 1, Len(callers) - 1)
          /\ UNCHANGED phase
  /\ UNCHANGED <<threadVars, scriptStackCalls, gotoNextThread, threadId,
                 partVars, eligible, ran>>

Ret ==
  /\ Fetch
  /\ IF stackPtr = 0
     THEN /\ phase' = "halted"
          /\ UNCHANGED <<stackPtr, scriptPc, callers>>
     ELSE /\ stackPtr' = stackPtr - 1
          /\ scriptPc' = StackCell(stackPtr - 1)
          /\ callers' = SubSeq(callers, 1, Len(callers) - 1)
          /\ UNCHANGED phase
  /\ UNCHANGED <<threadVars, scriptStackCalls, gotoNextThread, threadId,
                 partVars, eligible, ran>>

PauseThread ==
  /\ FetchInner
  /\ scriptPc' = scriptPc + 1
  /\ gotoNextThread' = TRUE
  /\ UNCHANGED <<threadVars, scriptStackCalls, stackPtr, threadId, partVars,
                 phase, historyVars>>

KillThread ==
  /\ Fetch
  /\ scriptPc' = VM_INACTIVE_THREAD
  /\ gotoNextThread' = TRUE
  /\ UNCHANGED <<threadVars, scriptStackCalls, stackPtr, threadId, partVars,
                 phase, historyVars>>

\* Mutant: the jump is made at once.
SetVect_AtOnce(t, request) ==
  /\ FetchInner
  /\ pcOffset' = [pcOffset EXCEPT ![t] = JumpTo(@, request)]
  /\ scriptPc' = scriptPc + 1
  /\ UNCHANGED <<requestedPc, currState, requestedState, scriptStackCalls, stackPtr,
                 gotoNextThread, threadId, partVars, phase, historyVars>>

SetVect(t, request) ==
  /\ FetchInner
  /\ requestedPc' = [requestedPc EXCEPT ![t] = request]
  /\ scriptPc' = scriptPc + 1
  /\ UNCHANGED <<pcOffset, currState, requestedState, scriptStackCalls, stackPtr,
                 gotoNextThread, threadId, partVars, phase, historyVars>>

\* Mutant: the threads are frozen or thawed at once.
ResetThread_AtOnce(first, last, a) ==
  /\ FetchInner
  /\ scriptPc' = scriptPc + 1
  /\ currState' =
       [t \in Threads |-> IF t \in first .. last /\ a < 2 THEN a ELSE currState[t]]
  /\ UNCHANGED <<pcOffset, requestedPc, requestedState, scriptStackCalls, stackPtr,
                 gotoNextThread, threadId, partVars, phase, historyVars>>

\* An empty range (last before first) is refused with a warning, and a third
\* operand above 2 does nothing.
ResetThread(first, last, a) ==
  /\ FetchInner
  /\ scriptPc' = scriptPc + 1
  /\ requestedPc' =
       [t \in Threads |-> IF t \in first .. last /\ a = 2 THEN KILL_REQUEST
                          ELSE requestedPc[t]]
  /\ requestedState' =
       [t \in Threads |-> IF t \in first .. last /\ a < 2 THEN a
                          ELSE requestedState[t]]
  /\ UNCHANGED <<pcOffset, currState, scriptStackCalls, stackPtr, gotoNextThread,
                 threadId, partVars, phase, historyVars>>

\* op_updateMemList with an id above the last entry of the memlist.
RequestPart(part) ==
  /\ FetchInner
  /\ requestedNextPart' = part
  /\ scriptPc' = scriptPc + 1
  /\ UNCHANGED <<threadVars, scriptStackCalls, stackPtr, gotoNextThread, threadId,
                 currentPartId, phase, historyVars>>

\* op_blitFramebuffer, when inp_handleSpecialKeys finds that the code key was
\* pressed: a second writer of the part request.
CodeKey ==
  /\ FetchInner
  /\ currentPartId \notin {FirstPart, LastPart}
  /\ requestedNextPart' = LastPart
  /\ scriptPc' = scriptPc + 1
  /\ UNCHANGED <<threadVars, scriptStackCalls, stackPtr, gotoNextThread, threadId,
                 currentPartId, phase, historyVars>>

\* An opcode above 0x1A that is none of the drawing ones, or an instruction that
\* gets to error() in another component: a bank that cannot be read.
InvalidOpcode ==
  /\ Fetch
  /\ phase' = "halted"
  /\ UNCHANGED <<threadVars, sliceVars, partVars, historyVars>>

\* The instructions that give up control, and those that do not.
Release == PauseThread \/ KillThread

Execute ==
  \/ Straight
  \/ \E target \in Code : Jmp(target) \/ Call(target)
  \/ Ret
  \/ \E t \in Threads, request \in Code \cup {KILL_REQUEST, VM_NO_SETVEC_REQUESTED} :
        SetVect(t, request)
  \/ \E first, last \in Threads, a \in 0 .. 3 : ResetThread(first, last, a)
  \/ \E part \in PartIds : RequestPart(part)
  \/ CodeKey
  \/ InvalidOpcode

-----------------------------------------------------------------------------
\* Engine::init ends with initForPart(GAME_PART_FIRST); the Engine object comes
\* from new, so the call stack holds anything.
Init ==
  /\ pcOffset = InitialPcs
  /\ requestedPc = NoRequests
  /\ currState = Unfrozen
  /\ requestedState = Unfrozen
  /\ scriptStackCalls \in [Threads -> Code]
  /\ stackPtr = 0
  /\ scriptPc = 0
  /\ gotoNextThread = FALSE
  /\ threadId = 0
  /\ currentPartId = FirstPart
  /\ requestedNextPart = 0
  /\ phase = "check"
  /\ eligible = {}
  /\ ran = {}
  /\ callers = <<>>

HostFrame == SkipThread \/ StartSlice \/ EndSlice \/ EndFrame

\* error() prints its message and then loops for ever.
ErrorLoop == phase = "halted" /\ UNCHANGED vars

Next ==
  \/ CheckThreadRequests
  \/ RefusePart
  \/ HostFrame
  \/ Release
  \/ Execute
  \/ ErrorLoop

Spec == Init /\ [][Next]_vars

\* The interpreter never stops by itself, and (vm.cpp, hostFrame) "a thread
\* must feature a break opcode so the interpreter can move to the next thread".
Fairness ==
  /\ WF_vars(CheckThreadRequests \/ RefusePart)
  /\ WF_vars(HostFrame)
  /\ WF_vars(Release)

FairSpec == Spec /\ Fairness

-----------------------------------------------------------------------------
(* Properties.                                                             *)

TypeOK ==
  /\ pcOffset \in [Threads -> Code \cup {VM_INACTIVE_THREAD}]
  /\ requestedPc \in [Threads -> Code \cup {KILL_REQUEST, VM_NO_SETVEC_REQUESTED}]
  /\ currState \in [Threads -> 0 .. 255]
  /\ requestedState \in [Threads -> 0 .. 255]
  /\ scriptStackCalls \in [Threads -> Code]
  /\ stackPtr \in 0 .. NumThreads
  /\ scriptPc \in Code \cup {VM_INACTIVE_THREAD}
  /\ gotoNextThread \in BOOLEAN
  /\ threadId \in 0 .. NumThreads
  /\ currentPartId \in Parts
  /\ requestedNextPart \in Nat
  /\ phase \in {"check", "host", "exec", "halted"}
  /\ eligible \subseteq Threads
  /\ ran \subseteq Threads
  /\ callers \in Seq(Code)

\* Whatever the scripts do to one another, a frame gives one slice to each
\* thread that was neither inactive nor frozen when it began, in the order of
\* the indices, and none to the others (hostFrame reads pcOffset and currState
\* long after checkThreadRequests wrote them).
FrameRunsEligible ==
  LET before == {t \in eligible : t < threadId}
  IN  /\ phase = "check" => ran = eligible
      /\ phase = "host" => ran = before
      /\ phase = "exec" => threadId \in eligible /\ ran = before \cup {threadId}

\* Between two calls of checkThreadRequests no thread is frozen or thawed, and
\* the only program counter written is that of a thread that gives up control:
\* vm.h, on threadsData, "to save the channel's instruction pointer when the
\* channel release control (this happens on a break)".
SliceIsolation ==
  [][(phase \in {"host", "exec"}) =>
       /\ currState' = currState
       /\ \A t \in Threads :
            pcOffset'[t] # pcOffset[t] =>
              phase = "exec" /\ gotoNextThread /\ t = threadId]_vars

\* The cells below _stackPtr hold the return addresses of the calls that this
\* slice has made and not returned from, whatever earlier slices left there.
CallStackSound ==
  phase = "exec" =>
    /\ stackPtr = Len(callers)
    /\ \A i \in 1 .. Len(callers) : StackCell(i - 1) = callers[i]

\* op_ret goes back to the instruction after the last call of this slice that
\* has not returned, and reports an underflow if there is none.
ReturnsToCaller ==
  [][stackPtr' < stackPtr /\ phase = "exec" =>
       /\ callers # <<>>
       /\ scriptPc' = callers[Len(callers)]
       /\ Len(callers') = Len(callers) - 1]_vars

\* When a part begins, thread 0 is the only one to run, from address 0: what the
\* last frame of the old part asked for (a jump, a kill, a freeze) is forgotten,
\* since the addresses mean nothing in the new bytecode.
NoRequestCrossesParts ==
  [][phase = "check" /\ phase' = "host" /\ requestedNextPart # 0 =>
       /\ eligible' = {0}
       /\ pcOffset'[0] = 0
       /\ \A t \in Threads :
            requestedPc'[t] = VM_NO_SETVEC_REQUESTED /\ requestedState'[t] = 0]_vars

\* A jump requested for a thread is made in the next frame, and from the address
\* requested, even if the thread was inactive: unless the thread is being frozen
\* or the part changes.
JumpsAreMade ==
  \A t \in Threads, target \in Code :
    (/\ phase = "check"
     /\ requestedPc[t] = target
     /\ requestedState[t] = 0
     /\ requestedNextPart = 0)
    ~> \/ phase = "exec" /\ threadId = t /\ scriptPc = target
       \/ phase = "halted"

-----------------------------------------------------------------------------
(* The scheduler that scripts may rely on.                                 *)

FS == INSTANCE FrameScheduler WITH
  Addresses <- Code,
  pc <- pcOffset,
  frozen <- {t \in Threads : currState[t] # 0},
  wantedPc <- requestedPc,
  wantedFrozen <- {t \in Threads : requestedState[t] # 0},
  part <- currentPartId,
  wantedPart <- requestedNextPart,
  todo <- CASE phase = "host" ->
                 {t \in CanRun(pcOffset, currState) : t >= threadId}
            [] phase = "exec" ->
                 {t \in CanRun(pcOffset, currState) : t > threadId}
            [] OTHER -> {},
  running <- IF phase = "exec" THEN threadId ELSE -1,
  stopped <- phase = "halted"

\* The loop over the threads, with its re-reading of pcOffset and currState and
\* its single call stack, implements the choice of the threads at the beginning
\* of the frame.
ImplementsFrameScheduler == FS!Spec
=============================================================================
