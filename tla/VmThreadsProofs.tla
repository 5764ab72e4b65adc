--------------------------- MODULE VmThreadsProofs ---------------------------
(***************************************************************************)
(* Proofs about VmThreads for every number of threads and every code size. *)
(* Everything is proved for scripts that nest at most NumThreads calls:    *)
(* beyond that op_call writes outside of _scriptStackCalls, and the run    *)
(* vm_stack_spill shows what it breaks.                                    *)
(***************************************************************************)
EXTENDS VmThreads, TLAPS

ShallowCalls == CallDepth <= NumThreads

\* hostFrame re-reads pcOffset and currState, thread by thread; for the threads
\* it has not reached yet they are still what they were when the frame began.
RestOfFrame ==
  /\ phase = "host" =>
       \A t \in Threads : t >= threadId =>
         (t \in eligible <=> t \in CanRun(pcOffset, currState))
  /\ phase = "exec" =>
       /\ threadId \in Threads
       /\ \A t \in Threads : t > threadId =>
            (t \in eligible <=> t \in CanRun(pcOffset, currState))

\* CallStackSound, in terms of _scriptStackCalls alone.
ShallowStack ==
  phase = "exec" =>
    /\ stackPtr = Len(callers)
    /\ \A i \in 1 .. Len(callers) : scriptStackCalls[i - 1] = callers[i]

IndInv ==
  /\ TypeOK
  /\ RestOfFrame
  /\ FrameRunsEligible
  /\ ShallowStack

-----------------------------------------------------------------------------
\* Storing a return address inside _scriptStackCalls changes nothing else.
LEMMA ShallowStore ==
  ASSUME TypeOK, NEW i \in Threads, NEW value \in Code, StoreStackCell(i, value)
  PROVE  /\ UNCHANGED threadVars
         /\ scriptStackCalls' = [scriptStackCalls EXCEPT ![i] = value]
<1>1. \A t \in Threads : NumThreads + t # i /\ 2 * NumThreads + t # i
  BY ThreadsAssumption DEF Threads
<1>2. \A k \in 0 .. 2 * NumThreads : k # 2 * (i - 3 * NumThreads)
                                     /\ k # 2 * (i - 3 * NumThreads) + 1
  BY ThreadsAssumption DEF Threads
<1>3. pcOffset' = pcOffset /\ requestedPc' = requestedPc
  BY <1>1 DEF StoreStackCell, TypeOK
<1>4. currState' = currState /\ requestedState' = requestedState
  <2>1. \A t \in Threads : t \in 0 .. 2 * NumThreads
                           /\ NumThreads + t \in 0 .. 2 * NumThreads
    BY ThreadsAssumption DEF Threads
  <2>2. \A t \in Threads : /\ StoredByte(i, value, t, currState[t]) = currState[t]
                           /\ StoredByte(i, value, NumThreads + t, requestedState[t])
                                = requestedState[t]
    BY <1>2, <2>1 DEF StoredByte
  <2> QED  BY <2>2 DEF StoreStackCell, TypeOK
<1>5. scriptStackCalls' = [scriptStackCalls EXCEPT ![i] = value]
  BY DEF StoreStackCell, TypeOK
<1> QED  BY <1>3, <1>4, <1>5 DEF threadVars

\* The cells inside _scriptStackCalls are read as they were stored.
LEMMA ShallowCell ==
  ASSUME NEW i \in Threads
  PROVE  StackCell(i) = scriptStackCalls[i]
BY ThreadsAssumption DEF Threads, StackCell

\* The loop over the requests keeps the arrays in their types.
LEMMA ApplyRequestsType ==
  ASSUME NEW pcs \in [Threads -> Code \cup {VM_INACTIVE_THREAD}],
         NEW requests \in [Threads -> Code \cup {KILL_REQUEST, VM_NO_SETVEC_REQUESTED}],
         NEW states \in [Threads -> 0 .. 255],
         ApplyRequests(pcs, requests, states)
  PROVE  /\ pcOffset' \in [Threads -> Code \cup {VM_INACTIVE_THREAD}]
         /\ requestedPc' \in [Threads -> Code \cup {KILL_REQUEST, VM_NO_SETVEC_REQUESTED}]
         /\ currState' \in [Threads -> 0 .. 255]
         /\ requestedState' \in [Threads -> 0 .. 255]
<1>1. \A t \in Threads : JumpTo(pcs[t], requests[t]) \in Code \cup {VM_INACTIVE_THREAD}
  BY DEF JumpTo
<1> QED  BY <1>1 DEF ApplyRequests, NoRequests

\* Every thread can start at the first address of the bytecode.
LEMMA ZeroInCode == 0 \in Code
<1>1. CodeSize \in Int /\ 1 <= CodeSize
  BY CodeAssumption
<1> QED  BY <1>1 DEF Code

LEMMA InitialArraysType ==
  /\ InitialPcs \in [Threads -> Code \cup {VM_INACTIVE_THREAD}]
  /\ NoRequests \in [Threads -> Code \cup {KILL_REQUEST, VM_NO_SETVEC_REQUESTED}]
  /\ Unfrozen \in [Threads -> 0 .. 255]
<1>1. InitialPcs \in [Threads -> Code \cup {VM_INACTIVE_THREAD}]
  BY ZeroInCode DEF InitialPcs
<1>2. NoRequests \in [Threads -> Code \cup {KILL_REQUEST, VM_NO_SETVEC_REQUESTED}]
  BY DEF NoRequests
<1>3. Unfrozen \in [Threads -> 0 .. 255]
  BY SMT DEF Unfrozen
<1> QED  BY <1>1, <1>2, <1>3

-----------------------------------------------------------------------------
\* An instruction that leaves the loop of hostFrame alone does not disturb what
\* is known of the frame, nor one that leaves the stack alone the stack.
LEMMA FrameKept ==
  ASSUME RestOfFrame, FrameRunsEligible, phase = "exec",
         phase' \in {"exec", "halted"},
         UNCHANGED <<pcOffset, currState, threadId, eligible, ran>>
  PROVE  RestOfFrame' /\ FrameRunsEligible'
BY DEF RestOfFrame, FrameRunsEligible, CanRun

LEMMA StackKept ==
  ASSUME ShallowStack, phase = "exec",
         UNCHANGED <<scriptStackCalls, stackPtr, callers>>
  PROVE  ShallowStack'
BY DEF ShallowStack

LEMMA InitInv == Init => IndInv
<1> SUFFICES ASSUME Init PROVE IndInv
  OBVIOUS
<1>1. TypeOK
  <2>1. 0 \in Code /\ 0 \in 0 .. NumThreads
    BY ZeroInCode, ThreadsAssumption
  <2>2. FirstPart \in Parts
    BY PartsAssumption DEF Parts
  <2>3. callers \in Seq(Code)
    BY DEF Init
  <2> QED  BY <2>1, <2>2, <2>3, InitialArraysType DEF Init, TypeOK
<1>2. RestOfFrame /\ FrameRunsEligible /\ ShallowStack
  BY DEF Init, RestOfFrame, FrameRunsEligible, ShallowStack
<1> QED  BY <1>1, <1>2 DEF IndInv

-----------------------------------------------------------------------------
\* The steps of the frame boundary and of hostFrame.
LEMMA BoundaryStep ==
  ASSUME IndInv, CheckThreadRequests
  PROVE  IndInv'
<1> USE DEF IndInv
<1>1. /\ pcOffset' \in [Threads -> Code \cup {VM_INACTIVE_THREAD}]
      /\ requestedPc' \in [Threads -> Code \cup {KILL_REQUEST, VM_NO_SETVEC_REQUESTED}]
      /\ currState' \in [Threads -> 0 .. 255]
      /\ requestedState' \in [Threads -> 0 .. 255]
  <2>1. CASE SamePart
    BY <2>1, ApplyRequestsType DEF SamePart, TypeOK
  <2>2. CASE SwitchPart
    BY <2>2, ApplyRequestsType, InitialArraysType DEF SwitchPart
  <2> QED  BY <2>1, <2>2 DEF CheckThreadRequests
<1>2. currentPartId' \in Parts /\ requestedNextPart' \in Nat
  BY DEF CheckThreadRequests, SamePart, SwitchPart, partVars, TypeOK
<1>3. /\ threadId' \in 0 .. NumThreads
      /\ eligible' \subseteq Threads /\ ran' \subseteq Threads
  BY ThreadsAssumption DEF CheckThreadRequests, BeginFrame, CanRun
<1>4. TypeOK'
  BY <1>1, <1>2, <1>3 DEF CheckThreadRequests, BeginFrame, TypeOK
<1>5. RestOfFrame'
  BY DEF CheckThreadRequests, BeginFrame, RestOfFrame
<1>6. FrameRunsEligible'
  BY DEF CheckThreadRequests, BeginFrame, FrameRunsEligible, CanRun, Threads
<1>7. ShallowStack'
  BY DEF CheckThreadRequests, BeginFrame, ShallowStack
<1> QED  BY <1>4, <1>5, <1>6, <1>7

LEMMA HostFrameStep ==
  ASSUME IndInv, HostFrame
  PROVE  IndInv'
<1> USE DEF IndInv, vars, threadVars, sliceVars, partVars, historyVars
<1>1. CASE SkipThread
  <2>1. TypeOK'
    <3>1. threadId' \in 0 .. NumThreads
      BY <1>1, ThreadsAssumption DEF SkipThread, Threads
    <3> QED  BY <1>1, <3>1 DEF SkipThread, TypeOK
  <2>2. RestOfFrame'
    BY <1>1 DEF SkipThread, RestOfFrame, CanRun, TypeOK, Threads
  <2>3. FrameRunsEligible'
    <3>1. threadId \in Threads /\ threadId \notin eligible
      BY <1>1, ThreadsAssumption DEF SkipThread, RestOfFrame, Threads
    <3>2. {t \in eligible : t < threadId + 1} = {t \in eligible : t < threadId}
      <4>1. threadId \in Int /\ \A t \in eligible : t \in Int
        BY ThreadsAssumption DEF TypeOK, Threads
      <4> QED  BY <3>1, <4>1
    <3> QED  BY <1>1, <3>2 DEF SkipThread, FrameRunsEligible
  <2>4. ShallowStack'
    BY <1>1 DEF SkipThread, ShallowStack
  <2> QED  BY <2>1, <2>2, <2>3, <2>4
<1>2. CASE StartSlice
  <2>1. threadId \in Threads
    BY <1>2 DEF StartSlice, CanRun
  <2>2. TypeOK'
    <3>1. scriptPc' \in Code \cup {VM_INACTIVE_THREAD}
      BY <1>2, <2>1 DEF StartSlice, TypeOK
    <3>2. stackPtr' \in 0 .. NumThreads
      BY <1>2, ThreadsAssumption DEF StartSlice
    <3>3. callers' \in Seq(Code)
      BY <1>2 DEF StartSlice
    <3> QED  BY <1>2, <2>1, <3>1, <3>2, <3>3 DEF StartSlice, TypeOK
  <2>3. RestOfFrame'
    BY <1>2, <2>1 DEF StartSlice, RestOfFrame, CanRun, TypeOK, Threads
  <2>4. FrameRunsEligible'
    BY <1>2, <2>1 DEF StartSlice, RestOfFrame, FrameRunsEligible, TypeOK, Threads
  <2>5. ShallowStack'
    BY <1>2 DEF StartSlice, ShallowStack
  <2> QED  BY <2>2, <2>3, <2>4, <2>5
<1>3. CASE EndSlice
  <2>1. threadId \in Threads
    BY <1>3 DEF EndSlice, RestOfFrame
  <2>2. TypeOK'
    <3>1. threadId' \in 0 .. NumThreads
      BY <1>3, <2>1, ThreadsAssumption DEF EndSlice, Threads
    <3>2. pcOffset' \in [Threads -> Code \cup {VM_INACTIVE_THREAD}]
      BY <1>3 DEF EndSlice, TypeOK
    <3> QED  BY <1>3, <3>1, <3>2 DEF EndSlice, TypeOK
  <2>3. RestOfFrame'
    BY <1>3, <2>1 DEF EndSlice, RestOfFrame, CanRun, TypeOK, Threads
  <2>4. FrameRunsEligible'
    <3>1. threadId \in eligible /\ ran = {t \in eligible : t < threadId} \cup {threadId}
      BY <1>3 DEF EndSlice, FrameRunsEligible
    <3>2. {t \in eligible : t < threadId + 1}
            = {t \in eligible : t < threadId} \cup {threadId}
      <4>1. threadId \in Int /\ \A t \in eligible : t \in Int
        BY ThreadsAssumption DEF TypeOK, Threads
      <4>2. \A t \in eligible : t < threadId + 1 <=> t < threadId \/ t = threadId
        BY <4>1
      <4> QED  BY <3>1, <4>2
    <3> QED  BY <1>3, <3>1, <3>2 DEF EndSlice, FrameRunsEligible
  <2>5. ShallowStack'
    BY <1>3 DEF EndSlice, ShallowStack
  <2> QED  BY <2>2, <2>3, <2>4, <2>5
<1>4. CASE EndFrame
  <2>1. TypeOK'
    BY <1>4 DEF EndFrame, TypeOK
  <2>2. RestOfFrame' /\ ShallowStack'
    BY <1>4 DEF EndFrame, RestOfFrame, ShallowStack
  <2>3. FrameRunsEligible'
    <3>1. {t \in eligible : t < NumThreads} = eligible
      <4>1. \A t \in eligible : t < NumThreads
        BY ThreadsAssumption DEF TypeOK, Threads
      <4> QED  BY <4>1
    <3> QED  BY <1>4, <3>1 DEF EndFrame, FrameRunsEligible
  <2> QED  BY <2>1, <2>2, <2>3
<1> QED  BY <1>1, <1>2, <1>3, <1>4 DEF HostFrame

-----------------------------------------------------------------------------
\* The instructions.  Those that touch neither the stack nor the program counter
\* of a thread only have to keep the types.
LEMMA ReleaseStep ==
  ASSUME IndInv, Release
  PROVE  IndInv'
<1> USE DEF IndInv, threadVars, partVars, historyVars
<1>1. TypeOK'
  <2>1. CASE PauseThread
    BY <2>1 DEF PauseThread, FetchInner, TypeOK
  <2>2. CASE KillThread
    BY <2>2 DEF KillThread, TypeOK
  <2> QED  BY <2>1, <2>2 DEF Release
<1>2. RestOfFrame' /\ FrameRunsEligible'
  BY FrameKept DEF Release, PauseThread, KillThread, FetchInner, Fetch
<1>3. ShallowStack'
  BY StackKept DEF Release, PauseThread, KillThread, FetchInner, Fetch
<1> QED  BY <1>1, <1>2, <1>3

LEMMA CallStep ==
  ASSUME ShallowCalls, IndInv, NEW target \in Code, Call(target)
  PROVE  IndInv'
<1> USE DEF IndInv
<1>1. /\ phase = "exec" /\ scriptPc + 1 \in Code
      /\ stackPtr < CallDepth /\ StoreStackCell(stackPtr, scriptPc + 1)
  BY DEF Call, FetchInner, Fetch
<1>2. stackPtr \in Threads /\ stackPtr + 1 \in 0 .. NumThreads
  BY <1>1, ThreadsAssumption, StackAssumption DEF ShallowCalls, TypeOK, Threads
<1>3. /\ UNCHANGED threadVars
      /\ scriptStackCalls' = [scriptStackCalls EXCEPT ![stackPtr] = scriptPc + 1]
  BY <1>1, <1>2, ShallowStore
<1>4. stackPtr # StackLimit
  BY <1>2, ThreadsAssumption, StackAssumption DEF Threads
<1>5. /\ stackPtr' = stackPtr + 1 /\ scriptPc' = target /\ phase' = phase
      /\ callers' = Append(callers, scriptPc + 1)
      /\ UNCHANGED <<gotoNextThread, threadId, partVars, eligible, ran>>
  BY <1>4 DEF Call
<1>6. TypeOK'
  <2>1. callers' \in Seq(Code)
    BY <1>1, <1>5 DEF TypeOK
  <2>2. scriptStackCalls' \in [Threads -> Code]
    BY <1>1, <1>3 DEF TypeOK
  <2> QED  BY <1>1, <1>2, <1>3, <1>5, <2>1, <2>2 DEF TypeOK, threadVars, partVars
<1>7. RestOfFrame' /\ FrameRunsEligible'
  BY <1>1, <1>3, <1>5, FrameKept DEF threadVars
<1>8. ShallowStack'
  <2>1. Len(callers') = Len(callers) + 1 /\ stackPtr = Len(callers)
    BY <1>1, <1>5 DEF ShallowStack, TypeOK
  <2>2. ASSUME NEW i \in 1 .. Len(callers')
        PROVE  scriptStackCalls'[i - 1] = callers'[i]
    <3>1. CASE i = Len(callers')
      BY <3>1, <2>1, <1>2, <1>3, <1>5 DEF TypeOK
    <3>2. CASE i # Len(callers')
      <4>1. i \in 1 .. Len(callers) /\ i - 1 # stackPtr /\ i - 1 \in Threads
        BY <3>2, <2>1, <1>2, ThreadsAssumption DEF Threads
      <4>2. callers'[i] = callers[i]
        BY <4>1, <1>1, <1>5 DEF TypeOK
      <4> QED  BY <4>1, <4>2, <1>1, <1>3 DEF ShallowStack, TypeOK
    <3> QED  BY <3>1, <3>2
  <2> QED  BY <1>5, <2>1, <2>2 DEF ShallowStack
<1> QED  BY <1>6, <1>7, <1>8

LEMMA RetStep ==
  ASSUME IndInv, Ret
  PROVE  IndInv'
<1> USE DEF IndInv
<1>1. /\ phase = "exec"
      /\ UNCHANGED <<threadVars, scriptStackCalls, gotoNextThread, threadId,
                     partVars, eligible, ran>>
  BY DEF Ret, Fetch
<1>2. CASE stackPtr = 0
  <2>1. phase' = "halted" /\ UNCHANGED <<stackPtr, scriptPc, callers>>
    BY <1>2 DEF Ret
  <2> QED  BY <1>1, <2>1, FrameKept, StackKept DEF TypeOK, threadVars, partVars
<1>3. CASE stackPtr # 0
  <2>1. /\ stackPtr' = stackPtr - 1 /\ scriptPc' = StackCell(stackPtr - 1)
        /\ callers' = SubSeq(callers, 1, Len(callers) - 1) /\ phase' = phase
    BY <1>3 DEF Ret
  <2>2. stackPtr - 1 \in Threads /\ stackPtr - 1 \in 0 .. NumThreads
    BY <1>3, ThreadsAssumption DEF TypeOK, Threads
  <2>3. scriptPc' \in Code
    BY <2>1, <2>2, ShallowCell DEF TypeOK
  <2>4. /\ callers' \in Seq(Code) /\ Len(callers') = Len(callers) - 1
        /\ \A i \in 1 .. Len(callers') : callers'[i] = callers[i]
    BY <2>1, <2>2, <1>1, <1>3 DEF TypeOK, ShallowStack
  <2>5. TypeOK'
    BY <1>1, <2>1, <2>2, <2>3, <2>4 DEF TypeOK, threadVars, partVars
  <2>6. RestOfFrame' /\ FrameRunsEligible'
    BY <1>1, <2>1, FrameKept DEF threadVars
  <2>7. ShallowStack'
    BY <1>1, <2>1, <2>4 DEF ShallowStack, TypeOK
  <2> QED  BY <2>5, <2>6, <2>7
<1> QED  BY <1>2, <1>3

\* The instructions that post requests, and those that only move scriptPc.
LEMMA OtherStep ==
  ASSUME IndInv,
         \/ Straight
         \/ \E target \in Code : Jmp(target)
         \/ \E t \in Threads, request \in Code \cup {KILL_REQUEST, VM_NO_SETVEC_REQUESTED} :
               SetVect(t, request)
         \/ \E first, last \in Threads, a \in 0 .. 3 : ResetThread(first, last, a)
         \/ \E part \in PartIds : RequestPart(part)
         \/ CodeKey
  PROVE  IndInv'
<1> USE DEF IndInv
<1> DEFINE Quiet ==
      /\ phase = "exec" /\ phase' = "exec" /\ scriptPc' \in Code
      /\ UNCHANGED <<pcOffset, currState, scriptStackCalls, stackPtr,
                     gotoNextThread, threadId, currentPartId, historyVars>>
<1>1. Quiet /\ TypeOK'
  <2>0. CASE Straight
    BY <2>0 DEF Straight, FetchInner, Fetch, TypeOK, threadVars, partVars, historyVars
  <2>1. CASE \E target \in Code : Jmp(target)
    <3>1. PICK target \in Code : Jmp(target)
      BY <2>1
    <3> QED  BY <3>1 DEF Jmp, Fetch, TypeOK, threadVars, partVars, historyVars
  <2>2. CASE \E t \in Threads, request \in Code \cup {KILL_REQUEST, VM_NO_SETVEC_REQUESTED} :
               SetVect(t, request)
    <3>1. PICK t \in Threads, request \in Code \cup {KILL_REQUEST, VM_NO_SETVEC_REQUESTED} :
            SetVect(t, request)
      BY <2>2
    <3>2. requestedPc' \in [Threads -> Code \cup {KILL_REQUEST, VM_NO_SETVEC_REQUESTED}]
      BY <3>1 DEF SetVect, TypeOK
    <3> QED  BY <3>1, <3>2 DEF SetVect, FetchInner, Fetch, TypeOK, partVars, historyVars
  <2>3. CASE \E first, last \in Threads, a \in 0 .. 3 : ResetThread(first, last, a)
    <3>1. PICK first \in Threads, last \in Threads, a \in 0 .. 3 :
            ResetThread(first, last, a)
      BY <2>3
    <3>2. requestedPc' \in [Threads -> Code \cup {KILL_REQUEST, VM_NO_SETVEC_REQUESTED}]
      BY <3>1 DEF ResetThread, TypeOK
    <3>3. requestedState' \in [Threads -> 0 .. 255]
      BY <3>1 DEF ResetThread, TypeOK
    <3> QED  BY <3>1, <3>2, <3>3 DEF ResetThread, FetchInner, Fetch, TypeOK, partVars,
                                     historyVars
  <2>4. CASE \E part \in PartIds : RequestPart(part)
    <3>1. PICK part \in PartIds : RequestPart(part)
      BY <2>4
    <3>2. requestedNextPart' \in Nat
      BY <3>1, PartsAssumption DEF RequestPart
    <3> QED  BY <3>1, <3>2 DEF RequestPart, FetchInner, Fetch, TypeOK, threadVars, historyVars
  <2>5. CASE CodeKey
    BY <2>5, PartsAssumption DEF CodeKey, FetchInner, Fetch, TypeOK, threadVars,
                                 historyVars
  <2> QED  BY <2>0, <2>1, <2>2, <2>3, <2>4, <2>5
<1>2. RestOfFrame' /\ FrameRunsEligible'
  BY <1>1, FrameKept DEF historyVars
<1>3. ShallowStack'
  BY <1>1, StackKept DEF historyVars
<1> QED  BY <1>1, <1>2, <1>3

LEMMA StepInv ==
  ASSUME ShallowCalls, IndInv, [Next]_vars
  PROVE  IndInv'
<1>1. CASE RefusePart
  BY <1>1 DEF RefusePart, IndInv, TypeOK, RestOfFrame, FrameRunsEligible,
              ShallowStack, threadVars, sliceVars, partVars, historyVars
<1>2. CASE InvalidOpcode
  BY <1>2, FrameKept, StackKept
    DEF InvalidOpcode, Fetch, IndInv, TypeOK, threadVars, sliceVars, partVars, historyVars
<1>3. CASE Execute
  BY <1>2, <1>3, CallStep, RetStep, OtherStep DEF Execute
<1>4. CASE UNCHANGED vars
  <2> USE <1>4 DEF vars, threadVars, sliceVars, partVars, historyVars
  <2>1. TypeOK'
    BY DEF IndInv, TypeOK
  <2>2. RestOfFrame'
    BY DEF IndInv, RestOfFrame, CanRun
  <2>3. FrameRunsEligible'
    BY DEF IndInv, FrameRunsEligible
  <2>4. ShallowStack'
    BY DEF IndInv, ShallowStack
  <2> QED  BY <2>1, <2>2, <2>3, <2>4 DEF IndInv
<1> QED
  BY <1>1, <1>3, <1>4, BoundaryStep, HostFrameStep, ReleaseStep DEF Next, ErrorLoop

-----------------------------------------------------------------------------
THEOREM Inductive == ASSUME ShallowCalls PROVE Spec => []IndInv
BY InitInv, StepInv, PTL DEF Spec

\* Every state that the interpreter reaches has its type: in particular the
\* program counter of a slice is an address of the bytecode, or 0xFFFF when the
\* thread kills itself.
THEOREM TypeCorrect == ASSUME ShallowCalls PROVE Spec => []TypeOK
<1>1. IndInv => TypeOK
  BY DEF IndInv
<1> QED  BY <1>1, Inductive, PTL

\* A frame runs the threads that were eligible when it began, each once, in
\* order, for any number of threads (hostFrame, checkThreadRequests).
THEOREM FrameComplete == ASSUME ShallowCalls PROVE Spec => []FrameRunsEligible
<1>1. IndInv => FrameRunsEligible
  BY DEF IndInv
<1> QED  BY <1>1, Inductive, PTL

\* The call stack of the interpreter belongs to the slice, although the threads
\* share it (op_call, op_ret, hostFrame).
THEOREM StackOfTheSlice == ASSUME ShallowCalls PROVE Spec => []CallStackSound
<1>1. ASSUME IndInv PROVE CallStackSound
  <2> SUFFICES ASSUME phase = "exec", NEW i \in 1 .. Len(callers)
               PROVE  stackPtr = Len(callers) /\ StackCell(i - 1) = callers[i]
    BY <1>1 DEF CallStackSound, IndInv, ShallowStack
  <2>1. stackPtr = Len(callers) /\ scriptStackCalls[i - 1] = callers[i]
    BY <1>1 DEF IndInv, ShallowStack
  <2>2. i - 1 \in Threads
    BY <1>1, <2>1, ThreadsAssumption DEF IndInv, TypeOK, Threads
  <2> QED  BY <2>1, <2>2, ShallowCell
<1> QED  BY <1>1, Inductive, PTL

\* No instruction takes the turn of a thread, or moves or freezes it, at once.
LEMMA InstructionKeeps ==
  ASSUME ShallowCalls, IndInv, Execute \/ Release
  PROVE  /\ UNCHANGED <<pcOffset, currState, threadId>>
         /\ phase = "exec" /\ phase' \in {"exec", "halted"}
<1>1. UNCHANGED threadId /\ phase = "exec" /\ phase' \in {"exec", "halted"}
  BY DEF Execute, Release, PauseThread, KillThread, Straight, Jmp, Call, Ret, SetVect,
         ResetThread, RequestPart, CodeKey, InvalidOpcode, Fetch, FetchInner, sliceVars
<1>2. ASSUME NEW target \in Code, Call(target)
      PROVE  UNCHANGED threadVars
  <2>1. stackPtr \in Threads
    BY <1>2, ThreadsAssumption, StackAssumption DEF Call, ShallowCalls, IndInv, TypeOK, Threads
  <2>2. scriptPc + 1 \in Code /\ StoreStackCell(stackPtr, scriptPc + 1)
    BY <1>2 DEF Call, FetchInner
  <2> QED  BY <2>1, <2>2, ShallowStore DEF IndInv
<1>3. UNCHANGED <<pcOffset, currState>>
  BY <1>2 DEF Execute, Release, PauseThread, KillThread, Straight, Jmp, Ret, SetVect,
              ResetThread, RequestPart, CodeKey, InvalidOpcode, threadVars
<1> QED  BY <1>1, <1>3

\* No step of a frame freezes, thaws or moves a thread other than the one that
\* gives up control.
THEOREM Isolation == ASSUME ShallowCalls PROVE Spec => SliceIsolation
<1> DEFINE Isolated ==
      (phase \in {"host", "exec"}) =>
        /\ currState' = currState
        /\ \A t \in Threads :
             pcOffset'[t] # pcOffset[t] =>
               phase = "exec" /\ gotoNextThread /\ t = threadId
<1>1. ASSUME IndInv, [Next]_vars PROVE Isolated
  <2>1. CASE UNCHANGED vars
    BY <2>1 DEF vars, threadVars
  <2>2. CASE CheckThreadRequests \/ RefusePart \/ ErrorLoop
    BY <2>2 DEF CheckThreadRequests, RefusePart, ErrorLoop
  <2>3. CASE HostFrame
    <3>1. CASE EndSlice
      BY <1>1, <3>1 DEF EndSlice, IndInv, TypeOK
    <3>2. CASE SkipThread \/ StartSlice \/ EndFrame
      BY <3>2 DEF SkipThread, StartSlice, EndFrame, threadVars
    <3> QED  BY <2>3, <3>1, <3>2 DEF HostFrame
  <2>4. CASE Execute \/ Release
    BY <1>1, <2>4, InstructionKeeps
  <2> QED
    BY <1>1, <2>1, <2>2, <2>3, <2>4 DEF Next
<1> QED  BY <1>1, Inductive, PTL DEF Spec, SliceIsolation

\* A jump that is going to be made: it is requested, or thread t is at the target and
\* its turn in this frame is still to come.
JumpDue(t, target) ==
  \/ /\ phase = "check" /\ requestedNextPart = 0
     /\ requestedPc[t] = target /\ requestedState[t] = 0
  \/ /\ \/ phase = "host" /\ threadId <= t
        \/ phase = "exec" /\ threadId < t
     /\ pcOffset[t] = target /\ currState[t] = 0

JumpMadeNext(t, target) == phase' = "exec" /\ threadId' = t /\ scriptPc' = target

\* A jump to an address of the code starts a thread.
LEMMA TargetRuns ==
  ASSUME NEW target \in Code
  PROVE  /\ target # VM_NO_SETVEC_REQUESTED /\ target # KILL_REQUEST
         /\ target # VM_INACTIVE_THREAD
BY CodeAssumption DEF Code, VM_NO_SETVEC_REQUESTED, KILL_REQUEST, VM_INACTIVE_THREAD

LEMMA JumpNotLost ==
  ASSUME ShallowCalls, IndInv, Next, NEW t \in Threads, NEW target \in Code, JumpDue(t, target)
  PROVE  JumpDue(t, target)' \/ JumpMadeNext(t, target) \/ phase' = "halted"
<1>0. t \in Nat /\ t < NumThreads /\ threadId \in Nat
  BY ThreadsAssumption DEF Threads, IndInv, TypeOK
<1>1. CASE CheckThreadRequests
  <2>1. /\ requestedNextPart = 0 /\ requestedPc[t] = target /\ requestedState[t] = 0
    BY <1>1 DEF CheckThreadRequests, JumpDue
  <2>2. SamePart /\ BeginFrame
    BY <1>1, <2>1, PartsAssumption DEF CheckThreadRequests, SwitchPart, Parts
  <2>3. pcOffset'[t] = JumpTo(pcOffset[t], target) /\ currState'[t] = 0
    BY <2>1, <2>2 DEF SamePart, ApplyRequests
  <2>4. pcOffset'[t] = target
    BY <2>3, TargetRuns DEF JumpTo
  <2>5. phase' = "host" /\ threadId' = 0 /\ 0 <= t
    BY <1>0, <2>2 DEF BeginFrame
  <2> QED  BY <2>3, <2>4, <2>5 DEF JumpDue
<1>2. CASE RefusePart \/ ErrorLoop
  BY <1>2 DEF RefusePart, ErrorLoop, JumpDue, vars
<1>3. CASE SkipThread
  <2>1. phase = "host" /\ threadId <= t /\ pcOffset[t] = target /\ currState[t] = 0
    BY <1>3 DEF SkipThread, JumpDue
  <2>2. t \in CanRun(pcOffset, currState)
    BY <2>1, TargetRuns DEF CanRun
  <2>3. threadId # t /\ threadId' = threadId + 1
    BY <1>3, <2>2 DEF SkipThread
  <2>4. threadId' <= t
    BY <1>0, <2>1, <2>3
  <2>5. phase' = "host" /\ UNCHANGED <<pcOffset, currState>>
    BY <1>3, <2>1 DEF SkipThread, threadVars
  <2> QED  BY <2>1, <2>4, <2>5 DEF JumpDue
<1>4. CASE StartSlice
  <2>1. phase = "host" /\ threadId <= t /\ pcOffset[t] = target /\ currState[t] = 0
    BY <1>4 DEF StartSlice, JumpDue
  <2>2. /\ scriptPc' = pcOffset[threadId] /\ phase' = "exec"
        /\ UNCHANGED <<pcOffset, currState, threadId>>
    BY <1>4 DEF StartSlice, threadVars
  <2>3. CASE threadId = t
    BY <2>1, <2>2, <2>3 DEF JumpMadeNext
  <2>4. CASE threadId # t
    <3>1. threadId < t
      BY <1>0, <2>1, <2>4
    <3> QED  BY <2>1, <2>2, <3>1 DEF JumpDue
  <2> QED  BY <2>3, <2>4
<1>5. CASE EndSlice
  <2>1. phase = "exec" /\ threadId < t /\ pcOffset[t] = target /\ currState[t] = 0
    BY <1>5 DEF EndSlice, JumpDue
  <2>2. threadId' = threadId + 1 /\ phase' = "host" /\ currState' = currState
    BY <1>5 DEF EndSlice
  <2>3. threadId # t /\ threadId' <= t
    BY <1>0, <2>1, <2>2
  <2>4. pcOffset'[t] = target
    BY <1>5, <2>1, <2>3 DEF EndSlice, IndInv, TypeOK
  <2> QED  BY <2>1, <2>2, <2>3, <2>4 DEF JumpDue
<1>6. CASE EndFrame
  <2>1. threadId <= t /\ threadId = NumThreads
    BY <1>6 DEF EndFrame, JumpDue
  <2> QED  BY <1>0, <2>1
<1>7. CASE Execute \/ Release
  <2>1. /\ UNCHANGED <<pcOffset, currState, threadId>>
        /\ phase = "exec" /\ phase' \in {"exec", "halted"}
    BY <1>7, InstructionKeeps
  <2> QED  BY <2>1 DEF JumpDue
<1> QED
  BY <1>1, <1>2, <1>3, <1>4, <1>5, <1>6, <1>7 DEF Next, HostFrame

\* checkThreadRequests, hostFrame: once a frame is about to begin in which a jump is
\* due (JumpsAreMade), no other thread, and no instruction that asks for something else
\* meanwhile, can take it back, delay it or change its target: it stays due until
\* the thread runs from there, and the frame cannot end before.  That the frame goes on
\* is what only fairness gives.
THEOREM JumpsAreKept ==
  ASSUME ShallowCalls
  PROVE  Spec => [][\A t \in Threads, target \in Code :
                      JumpDue(t, target) => \/ JumpDue(t, target)'
                                            \/ JumpMadeNext(t, target)
                                            \/ phase' = "halted"]_vars
<1>1. IndInv /\ [Next]_vars =>
        [\A t \in Threads, target \in Code :
           JumpDue(t, target) => \/ JumpDue(t, target)'
                                 \/ JumpMadeNext(t, target)
                                 \/ phase' = "halted"]_vars
  BY JumpNotLost
<1> QED  BY <1>1, Inductive, PTL DEF Spec

\* initForPart, checkThreadRequests: whatever the last frame of a part has asked for,
\* the next part begins with thread 0 alone, for scripts that nest any number of
\* calls, as the four arrays are all cleared at once.
THEOREM PartsBeginClean == Spec => NoRequestCrossesParts
<1> DEFINE Clean ==
      phase = "check" /\ phase' = "host" /\ requestedNextPart # 0 =>
        /\ eligible' = {0}
        /\ pcOffset'[0] = 0
        /\ \A t \in Threads :
             requestedPc'[t] = VM_NO_SETVEC_REQUESTED /\ requestedState'[t] = 0
<1>1. ASSUME [Next]_vars PROVE Clean
  <2> SUFFICES ASSUME phase = "check", phase' = "host", requestedNextPart # 0 PROVE Clean
    OBVIOUS
  <2>1. SwitchPart /\ BeginFrame
    BY <1>1 DEF Next, vars, CheckThreadRequests, SamePart, RefusePart, HostFrame, SkipThread,
                StartSlice, EndSlice, EndFrame, Release, PauseThread, KillThread, Execute,
                Straight, Jmp, Call, Ret, SetVect, ResetThread, RequestPart, CodeKey,
                InvalidOpcode, FetchInner, Fetch, ErrorLoop
  <2>2. /\ requestedPc' = NoRequests /\ currState' = Unfrozen /\ requestedState' = Unfrozen
        /\ pcOffset' = [t \in Threads |-> JumpTo(InitialPcs[t], NoRequests[t])]
    BY <2>1 DEF SwitchPart, ApplyRequests
  <2>3. \A t \in Threads : pcOffset'[t] = IF t = 0 THEN 0 ELSE VM_INACTIVE_THREAD
    BY <2>2 DEF JumpTo, InitialPcs, NoRequests
  <2>4. 0 \in Threads /\ VM_INACTIVE_THREAD # 0
    BY ThreadsAssumption DEF Threads, VM_INACTIVE_THREAD
  <2>5. eligible' = {0}
    BY <2>1, <2>2, <2>3, <2>4 DEF BeginFrame, CanRun, Unfrozen
  <2> QED  BY <2>2, <2>3, <2>4, <2>5 DEF NoRequests, Unfrozen
<1> QED  BY <1>1, PTL DEF Spec, NoRequestCrossesParts

\* op_ret returns to the last call of its own slice.
THEOREM Returns == ASSUME ShallowCalls PROVE Spec => ReturnsToCaller
<1> DEFINE Matched ==
      stackPtr' < stackPtr /\ phase = "exec" =>
        /\ callers # <<>>
        /\ scriptPc' = callers[Len(callers)]
        /\ Len(callers') = Len(callers) - 1
<1>1. ASSUME IndInv, [Next]_vars PROVE Matched
  <2> SUFFICES ASSUME stackPtr' < stackPtr, phase = "exec" PROVE Matched
    OBVIOUS
  <2>0. stackPtr \in Nat
    BY <1>1, ThreadsAssumption DEF IndInv, TypeOK
  <2>1. stackPtr' # stackPtr /\ stackPtr' # stackPtr + 1
    BY <2>0
  <2>2. Ret
    <3>1. ~HostFrame
      BY <2>1 DEF HostFrame, SkipThread, StartSlice, EndSlice, EndFrame, sliceVars
    <3>2. ~CheckThreadRequests /\ ~RefusePart /\ ~ErrorLoop /\ ~Release
      BY <2>1 DEF CheckThreadRequests, RefusePart, ErrorLoop, Release, PauseThread,
                  KillThread
    <3>3. \A target \in Code : ~Call(target)
      BY <2>1 DEF Call
    <3>4. ~UNCHANGED vars
      BY <2>1 DEF vars, sliceVars
    <3> QED
      BY <1>1, <2>1, <3>1, <3>2, <3>3, <3>4
        DEF Next, Execute, Straight, Jmp, SetVect, ResetThread, RequestPart, CodeKey,
            InvalidOpcode, sliceVars
  <2>3. /\ stackPtr # 0 /\ scriptPc' = StackCell(stackPtr - 1)
        /\ callers' = SubSeq(callers, 1, Len(callers) - 1)
    BY <2>1, <2>2 DEF Ret
  <2>4. /\ stackPtr = Len(callers) /\ callers \in Seq(Code)
        /\ scriptStackCalls[stackPtr - 1] = callers[Len(callers)]
    BY <1>1, <2>0, <2>3 DEF IndInv, TypeOK, ShallowStack
  <2>5. stackPtr - 1 \in Threads
    BY <1>1, <2>3, ThreadsAssumption DEF IndInv, TypeOK, Threads
  <2>6. callers # <<>>
    BY <2>3, <2>4
  <2>7. Len(callers') = Len(callers) - 1
    BY <2>0, <2>3, <2>4
  <2> QED  BY <2>3, <2>4, <2>5, <2>6, <2>7, ShallowCell
<1> QED  BY <1>1, Inductive, PTL DEF Spec, ReturnsToCaller

-----------------------------------------------------------------------------
(* The interpreter implements FrameScheduler.                              *)

LEMMA AbstractInit == Init => FS!Init
<1> SUFFICES ASSUME Init PROVE FS!Init
  OBVIOUS
<1>1. {t \in Threads : currState[t] # 0} = {} /\ {t \in Threads : requestedState[t] # 0} = {}
  BY DEF Init, Unfrozen
<1>2. pcOffset = FS!FreshPcs /\ requestedPc = FS!NoneWanted
  BY SMT DEF Init, InitialPcs, NoRequests, FS!FreshPcs, FS!NoneWanted, FS!Inactive,
             FS!NoRequest, VM_INACTIVE_THREAD, VM_NO_SETVEC_REQUESTED
<1>3. currentPartId \in Parts
  BY PartsAssumption DEF Init, Parts
<1> QED  BY <1>1, <1>2, <1>3 DEF Init, FS!Init, FS!NoPart, FS!NoThread

\* What has to be shown of a step that is not a step of the scheduler.
LEMMA AbstractStutter ==
  ASSUME UNCHANGED <<threadVars, partVars>>,
         phase' = phase, phase # "host" => threadId' = threadId,
         phase = "host" =>
           {t \in CanRun(pcOffset, currState) : t >= threadId'}
             = {t \in CanRun(pcOffset, currState) : t >= threadId}
  PROVE  UNCHANGED FS!vars
BY DEF threadVars, partVars, CanRun, FS!vars

LEMMA AbstractBoundary ==
  ASSUME IndInv, CheckThreadRequests
  PROVE  FS!Next
<1> DEFINE todo1 == {t \in CanRun(pcOffset', currState') : t >= 0}
<1>1. /\ phase = "check" /\ phase' = "host" /\ threadId' = 0
  BY DEF CheckThreadRequests, BeginFrame
<1>2. todo1 = CanRun(pcOffset', currState')
  BY ThreadsAssumption DEF CanRun, Threads
<1>3. CanRun(pcOffset', currState')
        = FS!Runnable(pcOffset', {t \in Threads : currState'[t] # 0})
  BY DEF CanRun, FS!Runnable, VM_INACTIVE_THREAD, FS!Inactive
<1>4. FS!BetweenFrames
  BY <1>1 DEF FS!BetweenFrames, FS!NoThread
<1>5. CASE SamePart
  <2>1. \A t \in Threads :
          JumpTo(pcOffset[t], requestedPc[t]) = FS!Obey(pcOffset[t], requestedPc[t])
    BY SMT DEF JumpTo, FS!Obey, FS!NoRequest, FS!Kill, FS!Inactive,
               VM_NO_SETVEC_REQUESTED, KILL_REQUEST, VM_INACTIVE_THREAD
  <2>2. pcOffset' = [t \in Threads |-> FS!Obey(pcOffset[t], requestedPc[t])]
    BY <1>5, <2>1 DEF SamePart, ApplyRequests
  <2>3. requestedPc' = FS!NoneWanted
    BY <1>5 DEF SamePart, ApplyRequests, NoRequests, FS!NoneWanted, FS!NoRequest,
                VM_NO_SETVEC_REQUESTED
  <2>4. /\ {t \in Threads : currState'[t] # 0} = {t \in Threads : requestedState[t] # 0}
        /\ {t \in Threads : requestedState'[t] # 0} = {t \in Threads : requestedState[t] # 0}
        /\ requestedNextPart = 0 /\ UNCHANGED <<currentPartId, requestedNextPart>>
    BY <1>5 DEF SamePart, ApplyRequests, partVars
  <2>5. FS!NextFrame
    BY <1>1, <1>2, <1>3, <1>4, <2>2, <2>3, <2>4 DEF FS!NextFrame, FS!NoPart
  <2> QED  BY <2>5 DEF FS!Next
<1>6. CASE SwitchPart
  <2>1. \A t \in Threads : JumpTo(InitialPcs[t], NoRequests[t]) = InitialPcs[t]
    BY DEF JumpTo, NoRequests
  <2>2. pcOffset' = FS!FreshPcs
    BY <1>6, <2>1 DEF SwitchPart, ApplyRequests, InitialPcs, FS!FreshPcs,
                      VM_INACTIVE_THREAD, FS!Inactive
  <2>3. requestedPc' = FS!NoneWanted
    BY <1>6 DEF SwitchPart, ApplyRequests, NoRequests, FS!NoneWanted, FS!NoRequest,
                VM_NO_SETVEC_REQUESTED
  <2>4. /\ {t \in Threads : currState'[t] # 0} = {}
        /\ {t \in Threads : requestedState'[t] # 0} = {}
    BY <1>6 DEF SwitchPart, ApplyRequests, Unfrozen
  <2>5. CanRun(pcOffset', currState') = {0}
    BY <2>2, <2>4, ThreadsAssumption, SMT
      DEF CanRun, Threads, FS!FreshPcs, FS!Inactive, VM_INACTIVE_THREAD
  <2>6. FS!NextPart
    BY <1>1, <1>2, <1>4, <1>6, <2>2, <2>3, <2>4, <2>5
      DEF SwitchPart, FS!NextPart, FS!NoPart
  <2> QED  BY <2>6 DEF FS!Next
<1> QED  BY <1>5, <1>6 DEF CheckThreadRequests

LEMMA AbstractHostFrame ==
  ASSUME IndInv, HostFrame
  PROVE  [FS!Next]_FS!vars
<1> DEFINE todo0 == {t \in CanRun(pcOffset, currState) : t >= threadId}
           todo1 == {t \in CanRun(pcOffset, currState) : t > threadId}
<1>0. threadId \in Int /\ \A t \in Threads : t \in Int
  BY ThreadsAssumption DEF IndInv, TypeOK, Threads
<1>1. CASE SkipThread
  <2>1. \A t \in CanRun(pcOffset, currState) : t >= threadId <=> t >= threadId + 1
    BY <1>0, <1>1 DEF SkipThread, CanRun
  <2> QED  BY <1>1, <2>1, AbstractStutter DEF SkipThread
<1>2. CASE StartSlice
  <2>1. threadId \in Threads /\ threadId \in todo0
    BY <1>0, <1>2 DEF StartSlice, CanRun
  <2>2. \A u \in todo0 : threadId <= u
    BY <1>0 DEF CanRun
  <2>3. todo1 = todo0 \ {threadId}
    BY <1>0 DEF CanRun
  <2>4. threadId # -1
    BY <2>1, ThreadsAssumption DEF Threads
  <2>5. FS!Grant(threadId)
    BY <1>2, <2>1, <2>2, <2>3 DEF StartSlice, FS!Grant, FS!NoThread, threadVars, partVars
  <2> QED  BY <2>1, <2>5 DEF FS!Next, FS!Grant
<1>3. CASE EndSlice
  <2>1. /\ phase = "exec" /\ phase' = "host" /\ threadId' = threadId + 1
        /\ threadId \in Threads
        /\ scriptPc \in Code \cup {VM_INACTIVE_THREAD}
        /\ pcOffset' = [pcOffset EXCEPT ![threadId] = scriptPc]
        /\ UNCHANGED <<requestedPc, currState, requestedState, partVars>>
    BY <1>3 DEF EndSlice, IndInv, RestOfFrame, TypeOK
  <2>2. threadId # -1
    BY <2>1, ThreadsAssumption DEF Threads
  <2>3. \A t \in Threads : t >= threadId + 1 <=> t > threadId
    BY <1>0
  <2>4. \A t \in Threads : t > threadId => pcOffset'[t] = pcOffset[t]
    BY <1>0, <2>1 DEF IndInv, TypeOK
  <2>5. {t \in CanRun(pcOffset', currState') : t >= threadId'} = todo1
    BY <2>1, <2>3, <2>4 DEF CanRun
  <2>6. FS!Yield(scriptPc)
    BY <2>1, <2>2, <2>5 DEF FS!Yield, FS!NoThread, partVars
  <2> QED  BY <2>1, <2>6 DEF FS!Next, VM_INACTIVE_THREAD, FS!Inactive
<1>4. CASE EndFrame
  <2>1. todo0 = {}
    BY <1>4, ThreadsAssumption DEF EndFrame, CanRun, Threads
  <2> QED  BY <1>4, <2>1 DEF EndFrame, threadVars, sliceVars, partVars, FS!vars
<1> QED  BY <1>1, <1>2, <1>3, <1>4 DEF HostFrame

LEMMA AbstractExec ==
  ASSUME ShallowCalls, IndInv, Release \/ Execute
  PROVE  [FS!Next]_FS!vars
<1> DEFINE Still == UNCHANGED <<threadVars, partVars, threadId, phase>>
<1>0. /\ phase = "exec" /\ threadId \in Threads /\ threadId # -1
  <2>1. phase = "exec"
    BY DEF Release, PauseThread, KillThread, Execute, Straight, Jmp, Call, Ret, SetVect,
           ResetThread, RequestPart, CodeKey, InvalidOpcode, FetchInner, Fetch
  <2> QED  BY <2>1, ThreadsAssumption DEF IndInv, RestOfFrame, Threads
<1>1. ASSUME Still PROVE UNCHANGED FS!vars
  BY <1>0, <1>1, AbstractStutter
<1>2. ASSUME phase' = "halted", UNCHANGED <<threadVars, partVars>>
      PROVE  FS!GiveUp
  BY <1>0, <1>2 DEF FS!GiveUp, FS!NoThread, threadVars, partVars
<1>3. CASE Release \/ Straight \/ \E target \in Code : Jmp(target)
  BY <1>1, <1>3 DEF Release, PauseThread, KillThread, Straight, Jmp
<1>4. CASE \E target \in Code : Call(target)
  <2>1. stackPtr \in Threads /\ scriptPc + 1 \in Code
        /\ StoreStackCell(stackPtr, scriptPc + 1)
    BY <1>4, ThreadsAssumption, StackAssumption
      DEF Call, FetchInner, ShallowCalls, IndInv, TypeOK, Threads
  <2>2. UNCHANGED threadVars
    BY <2>1, ShallowStore DEF IndInv
  <2>3. stackPtr # StackLimit
    BY <2>1, ThreadsAssumption, StackAssumption DEF Threads
  <2> QED  BY <1>1, <1>4, <2>2, <2>3 DEF Call
<1>5. CASE Ret
  <2>1. CASE stackPtr = 0
    BY <1>2, <1>5, <2>1 DEF Ret, FS!Next
  <2>2. CASE stackPtr # 0
    BY <1>1, <1>5, <2>2 DEF Ret
  <2> QED  BY <2>1, <2>2
<1>6. CASE \E t \in Threads, request \in Code \cup {KILL_REQUEST, VM_NO_SETVEC_REQUESTED} :
             SetVect(t, request)
  <2>1. /\ phase' = "exec" /\ threadId' = threadId
        /\ UNCHANGED <<pcOffset, currState, requestedState, partVars>>
    BY <1>0, <1>6 DEF SetVect
  <2>2. requestedPc' \in [Threads -> Code \cup {KILL_REQUEST, VM_NO_SETVEC_REQUESTED}]
    BY <1>6 DEF SetVect, IndInv, TypeOK
  <2>3. FS!Post
    BY <1>0, <2>1, <2>2
      DEF FS!Post, FS!NoThread, FS!Kill, FS!NoRequest, KILL_REQUEST,
          VM_NO_SETVEC_REQUESTED, partVars, CanRun
  <2> QED  BY <2>3 DEF FS!Next
<1>7. CASE \E first, last \in Threads, a \in 0 .. 3 : ResetThread(first, last, a)
  <2>1. /\ phase' = "exec" /\ threadId' = threadId
        /\ UNCHANGED <<pcOffset, currState, partVars>>
    BY <1>0, <1>7 DEF ResetThread
  <2>2. requestedPc' \in [Threads -> Code \cup {KILL_REQUEST, VM_NO_SETVEC_REQUESTED}]
    BY <1>7 DEF ResetThread, IndInv, TypeOK
  <2>3. FS!Post
    BY <1>0, <2>1, <2>2
      DEF FS!Post, FS!NoThread, FS!Kill, FS!NoRequest, KILL_REQUEST,
          VM_NO_SETVEC_REQUESTED, partVars, CanRun
  <2> QED  BY <2>3 DEF FS!Next
<1>8. CASE (\E part \in PartIds : RequestPart(part)) \/ CodeKey
  <2>1. /\ phase' = "exec" /\ UNCHANGED <<threadVars, threadId, currentPartId>>
        /\ requestedNextPart' \in Nat \ {0}
    BY <1>0, <1>8, PartsAssumption DEF RequestPart, CodeKey
  <2>2. FS!AskForPart
    BY <1>0, <2>1 DEF FS!AskForPart, FS!NoThread, FS!NoPart, threadVars, CanRun
  <2> QED  BY <2>2 DEF FS!Next
<1>9. CASE InvalidOpcode
  BY <1>2, <1>9 DEF InvalidOpcode, FS!Next
<1> QED
  BY <1>3, <1>4, <1>5, <1>6, <1>7, <1>8, <1>9 DEF Execute

\* The interpreter implements the scheduler: what its scripts can tell of it is
\* that the threads of a frame are chosen when the frame begins and run once, in
\* order, and that everything they ask for happens at the next boundary.
THEOREM Refinement == ASSUME ShallowCalls PROVE Spec => ImplementsFrameScheduler
<1>1. ASSUME IndInv, [Next]_vars PROVE [FS!Next]_FS!vars
  <2>1. CASE UNCHANGED vars
    BY <2>1 DEF vars, threadVars, sliceVars, partVars, CanRun, FS!vars
  <2>2. CASE ErrorLoop
    BY <2>1, <2>2 DEF ErrorLoop
  <2>3. CASE RefusePart
    <3>1. FS!BetweenFrames
      BY <2>3 DEF RefusePart, FS!BetweenFrames, FS!NoThread
    <3>2. FS!GiveUp
      BY <2>3, <3>1 DEF RefusePart, threadVars, partVars, sliceVars, FS!GiveUp,
                        FS!NoThread, FS!NoPart
    <3> QED  BY <3>2 DEF FS!Next
  <2> QED
    BY <1>1, <2>1, <2>2, <2>3, AbstractBoundary, AbstractHostFrame, AbstractExec DEF Next
<1> QED  BY <1>1, AbstractInit, Inductive, PTL DEF Spec, ImplementsFrameScheduler, FS!Spec
=============================================================================
