----------------------------- MODULE ResourceMem -----------------------------
(***************************************************************************)
(* The resource manager (resource.cpp, resource.h): one block of memory    *)
(* that is filled from the bottom with the resources of the banks.         *)
(*                                                                         *)
(* setupPart empties the block, loads the segments of a game part (its     *)
(* palettes, bytecode and polygons) and sets _scriptBakPtr above them.     *)
(* The scripts then demand resources, which are loaded above that mark,    *)
(* and release them all, which moves _scriptCurPtr back to the mark.       *)
(* Nothing is ever freed one by one, and the rest of the engine keeps raw  *)
(* pointers into the block.                                                *)
(*                                                                         *)
(* Pointers are offsets from _memPtrStart.  The contents of a cell is the  *)
(* entry that was read into it last.  The picture area (_vidCurPtr) is     *)
(* beyond the script area and only ever holds a picture on its way to      *)
(* page 0: _vidCurPtr and _vidBakPtr never change.                         *)
(***************************************************************************)
EXTENDS Integers, FiniteSets

CONSTANTS
  NumMemList,     \* _numMemList
  Type,           \* MemEntry::type, by entry
  Size,           \* MemEntry::size, by entry
  Rank,           \* MemEntry::rankNum, by entry
  BankId,         \* MemEntry::bankId, by entry
  MemSize,        \* _vidBakPtr: the end of the script area
  FirstPart,      \* GAME_PART_FIRST
  LastPart,       \* GAME_PART_LAST
  MemListParts,   \* memListParts, by part: a record of four entries
  Demanded,       \* the ids of entries that scripts demand
  PartIds         \* the part ids that scripts request, valid or not

Entries == 0 .. NumMemList - 1
Parts == FirstPart .. LastPart
MEMLIST_PART_NONE == 0

RT_SOUND == 0
RT_MUSIC == 1
RT_POLY_ANIM == 2

\* The entries that make up a part.
Segments(p) ==
  LET m == MemListParts[p]
  IN  {m.palette, m.code, m.cinematic}
        \cup (IF m.video2 = MEMLIST_PART_NONE THEN {} ELSE {m.video2})

\* The types that invalidateRes does not touch.
KeptType(e) == Type[e] \in RT_POLY_ANIM + 1 .. 6

ASSUME EntriesAssumption ==
  /\ NumMemList \in Nat \ {0}
  /\ Type \in [Entries -> 0 .. 255]
  /\ Size \in [Entries -> Nat]
  /\ Rank \in [Entries -> 0 .. 255]
  /\ BankId \in [Entries -> 0 .. 255]
  /\ MemSize \in Nat
ASSUME PartsAssumption ==
  /\ FirstPart \in Nat \ {0}
  /\ LastPart \in Nat
  /\ FirstPart <= LastPart
  /\ MemListParts \in [Parts -> [{"palette", "code", "cinematic", "video2"} -> Entries]]
  /\ PartIds \subseteq Nat \ 0 .. NumMemList
\* Scripts demand sounds, musics and pictures: what invalidateRes releases.
ASSUME DemandAssumption ==
  /\ Demanded \subseteq Entries \ {0}
  /\ \A e \in Demanded : ~KeptType(e)
ASSUME SegmentsAssumption ==
  \A p \in Parts : \A e \in Segments(p) : KeptType(e) /\ BankId[e] # 0

NULL == -1
Nothing == -1
Pointer == 0 .. MemSize \cup {NULL}

VARIABLES
  state,              \* MemEntry::state, by entry
  bufPtr,             \* MemEntry::bufPtr, by entry
  scriptCurPtr,       \* _scriptCurPtr
  scriptBakPtr,       \* _scriptBakPtr
  contents,           \* the script area: which entry's data each cell holds
  picture,            \* the entry whose picture was last copied to page 0
  segPalettes, segBytecode, segCinematic, segVideo2,
  currentPartId,      \* currentPartId
  requestedNextPart,  \* requestedNextPart
  loading             \* what loadMarkedAsNeeded is at work for: "no", "entry",
                      \* "part" or, once error() is called, "halted"

segVars == <<segPalettes, segBytecode, segCinematic, segVideo2>>
memVars == <<bufPtr, contents, picture>>
ptrVars == <<scriptCurPtr, scriptBakPtr>>
partVars == <<currentPartId, requestedNextPart>>
vars == <<state, memVars, ptrVars, segVars, partVars, loading>>

Block(e) == bufPtr[e] .. bufPtr[e] + Size[e] - 1

-----------------------------------------------------------------------------
(* loadPartsOrMemoryEntry and the releases.                                *)

RequestPart(id) ==
  /\ loading = "no"
  /\ requestedNextPart' = id
  /\ UNCHANGED <<state, memVars, ptrVars, segVars, currentPartId, loading>>

\* Mutant: an entry that is there already is loaded again.
RequestEntry_Again(e) ==
  /\ loading = "no"
  /\ state' = [state EXCEPT ![e] = "LOAD_ME"]
  /\ loading' = "entry"
  /\ UNCHANGED <<memVars, ptrVars, segVars, partVars>>

\* An entry that is there already is not loaded again.
RequestEntry(e) ==
  /\ loading = "no"
  /\ state[e] = "NOT_NEEDED"
  /\ state' = [state EXCEPT ![e] = "LOAD_ME"]
  /\ loading' = "entry"
  /\ UNCHANGED <<memVars, ptrVars, segVars, partVars>>

\* Mutant: only sounds and musics are dropped by rewinding, not marked so.
InvalidateRes_KeepsState ==
  /\ loading = "no"
  /\ scriptCurPtr' = scriptBakPtr
  /\ UNCHANGED <<state, memVars, scriptBakPtr, segVars, partVars, loading>>

\* Mutant: the mark is ignored, as in invalidateAll.
InvalidateRes_ToStart ==
  /\ loading = "no"
  /\ state' = [e \in Entries |-> IF KeptType(e) THEN state[e] ELSE "NOT_NEEDED"]
  /\ scriptCurPtr' = 0
  /\ UNCHANGED <<memVars, scriptBakPtr, segVars, partVars, loading>>

InvalidateRes ==
  /\ loading = "no"
  /\ state' = [e \in Entries |-> IF KeptType(e) THEN state[e] ELSE "NOT_NEEDED"]
  /\ scriptCurPtr' = scriptBakPtr
  /\ UNCHANGED <<memVars, scriptBakPtr, segVars, partVars, loading>>

-----------------------------------------------------------------------------
(* setupPart, up to the call of loadMarkedAsNeeded.  It is called with the *)
(* requested part between two frames, and by Engine::init with the first   *)
(* one, which Init takes for a request.                                    *)

SamePart ==
  /\ requestedNextPart = currentPartId
  /\ requestedNextPart' = 0
  /\ UNCHANGED <<state, memVars, ptrVars, segVars, currentPartId, loading>>

RefusePart ==
  /\ requestedNextPart \notin Parts \cup {currentPartId}
  /\ loading' = "halted"
  /\ UNCHANGED <<state, memVars, ptrVars, segVars, partVars>>

\* invalidateAll, then the segments of the part are marked.
EnterPart ==
  /\ requestedNextPart \in Parts \ {currentPartId}
  /\ state' = [e \in Entries |-> IF e \in Segments(requestedNextPart)
                                 THEN "LOAD_ME" ELSE "NOT_NEEDED"]
  /\ scriptCurPtr' = 0
  /\ loading' = "part"
  /\ UNCHANGED <<memVars, scriptBakPtr, segVars, partVars>>

SetupPart ==
  /\ loading = "no"
  /\ requestedNextPart # 0
  /\ SamePart \/ RefusePart \/ EnterPart

-----------------------------------------------------------------------------
(* loadMarkedAsNeeded: one step per turn of its loop.                      *)

Marked == {e \in Entries : state[e] = "LOAD_ME"}

\* The last one of those with the highest rank.
NextToLoad(e) ==
  /\ e \in Marked
  /\ \A f \in Marked : Rank[f] < Rank[e] \/ (Rank[f] = Rank[e] /\ f <= e)

TooBig(e) == Type[e] # RT_POLY_ANIM /\ Size[e] > MemSize - scriptCurPtr

\* Mutant: an entry that does not fit stays marked.
Drop_StaysMarked(e) ==
  /\ TooBig(e) \/ BankId[e] = 0
  /\ UNCHANGED vars

\* Two warnings: not enough memory, and no bank.
Drop(e) ==
  /\ TooBig(e) \/ BankId[e] = 0
  /\ state' = [state EXCEPT ![e] = "NOT_NEEDED"]
  /\ UNCHANGED <<memVars, ptrVars, segVars, partVars, loading>>

LoadPicture(e) ==
  /\ Type[e] = RT_POLY_ANIM
  /\ BankId[e] # 0
  /\ picture' = e
  /\ state' = [state EXCEPT ![e] = "NOT_NEEDED"]
  /\ UNCHANGED <<bufPtr, contents, ptrVars, segVars, partVars, loading>>

LoadBlock(e) ==
  /\ Type[e] # RT_POLY_ANIM
  /\ ~TooBig(e)
  /\ BankId[e] # 0
  /\ contents' = [c \in 0 .. MemSize - 1 |->
                    IF c \in scriptCurPtr .. scriptCurPtr + Size[e] - 1 THEN e
                    ELSE contents[c]]
  /\ bufPtr' = [bufPtr EXCEPT ![e] = scriptCurPtr]
  /\ state' = [state EXCEPT ![e] = "LOADED"]
  /\ scriptCurPtr' = scriptCurPtr + Size[e]
  /\ UNCHANGED <<picture, scriptBakPtr, segVars, partVars, loading>>

\* readBank calls error() when the bank cannot be opened or its checksum is wrong.
BankFails(e) ==
  /\ ~TooBig(e)
  /\ BankId[e] # 0
  /\ loading' = "halted"
  /\ UNCHANGED <<state, memVars, ptrVars, segVars, partVars>>

LoadOne ==
  /\ loading \in {"entry", "part"}
  /\ \E e \in Entries :
       /\ NextToLoad(e)
       /\ Drop(e) \/ LoadPicture(e) \/ LoadBlock(e) \/ BankFails(e)

EntryDone ==
  /\ loading = "entry"
  /\ Marked = {}
  /\ loading' = "no"
  /\ UNCHANGED <<state, memVars, ptrVars, segVars, partVars>>

\* Mutant: the mark is not moved.
PartDone_KeepsMark ==
  /\ loading = "part"
  /\ Marked = {}
  /\ LET m == MemListParts[requestedNextPart]
     IN  /\ segPalettes' = bufPtr[m.palette]
         /\ segBytecode' = bufPtr[m.code]
         /\ segCinematic' = bufPtr[m.cinematic]
         /\ segVideo2' = IF m.video2 = MEMLIST_PART_NONE THEN segVideo2
                         ELSE bufPtr[m.video2]
  /\ currentPartId' = requestedNextPart
  /\ requestedNextPart' = 0
  /\ loading' = "no"
  /\ UNCHANGED <<state, memVars, ptrVars>>

\* The rest of setupPart, and of the test in checkThreadRequests.  A part without
\* a second polygon segment keeps the pointer of the part before.
PartDone ==
  /\ loading = "part"
  /\ Marked = {}
  /\ LET m == MemListParts[requestedNextPart]
     IN  /\ segPalettes' = bufPtr[m.palette]
         /\ segBytecode' = bufPtr[m.code]
         /\ segCinematic' = bufPtr[m.cinematic]
         /\ segVideo2' = IF m.video2 = MEMLIST_PART_NONE THEN segVideo2
                         ELSE bufPtr[m.video2]
  /\ currentPartId' = requestedNextPart
  /\ requestedNextPart' = 0
  /\ scriptBakPtr' = scriptCurPtr
  /\ loading' = "no"
  /\ UNCHANGED <<state, memVars, scriptCurPtr>>

ErrorLoop == loading = "halted" /\ UNCHANGED vars

-----------------------------------------------------------------------------
\* allocMemBlock and readEntries, before the first initForPart.
Init ==
  /\ state = [e \in Entries |-> "NOT_NEEDED"]
  /\ bufPtr = [e \in Entries |-> NULL]
  /\ scriptCurPtr = 0
  /\ scriptBakPtr = 0
  /\ contents = [c \in 0 .. MemSize - 1 |-> Nothing]
  /\ picture = Nothing
  /\ segPalettes = NULL /\ segBytecode = NULL
  /\ segCinematic = NULL /\ segVideo2 = NULL
  /\ currentPartId = 0
  /\ requestedNextPart = FirstPart
  /\ loading = "no"

\* Scripts run only once there is a part.
Script ==
  /\ currentPartId # 0
  /\ \/ \E id \in PartIds : RequestPart(id)
     \/ \E e \in Demanded : RequestEntry(e)
     \/ InvalidateRes

Load == LoadOne \/ EntryDone \/ PartDone

Next == Script \/ SetupPart \/ Load \/ ErrorLoop

Spec == Init /\ [][Next]_vars

-----------------------------------------------------------------------------
(* Properties.                                                             *)

TypeOK ==
  /\ state \in [Entries -> {"NOT_NEEDED", "LOAD_ME", "LOADED"}]
  /\ bufPtr \in [Entries -> Pointer]
  /\ scriptCurPtr \in 0 .. MemSize
  /\ scriptBakPtr \in 0 .. MemSize
  /\ contents \in [0 .. MemSize - 1 -> Entries \cup {Nothing}]
  /\ picture \in Entries \cup {Nothing}
  /\ {segPalettes, segBytecode, segCinematic, segVideo2} \subseteq Pointer
  /\ currentPartId \in Parts \cup {0}
  /\ requestedNextPart \in Nat
  /\ loading \in {"no", "entry", "part", "halted"}

\* The data of an entry are where bufPtr says.
Intact(e) == \A c \in Block(e) : c \in 0 .. MemSize - 1 /\ contents[c] = e

\* What is LOADED can be read: no later load, release or change of part puts
\* other data in the block of an entry whose state still is LOADED.
LoadedIntact == \A e \in Entries : state[e] = "LOADED" => Intact(e)

\* The blocks of the LOADED entries fill the memory up to _scriptCurPtr without a
\* gap: nothing leaks, and saveOrLoad, which walks from block to block, meets
\* them all.
NoGaps ==
  \A c \in 0 .. scriptCurPtr - 1 :
    \E e \in Entries : state[e] = "LOADED" /\ c \in Block(e)

\* The four segment pointers of the part that is played point to its entries,
\* which are whole and lie below the mark, whatever the scripts demand and
\* release.
SegmentAt(pointer, e) ==
  /\ pointer = bufPtr[e]
  /\ state[e] = "LOADED" /\ Intact(e)
  /\ bufPtr[e] + Size[e] <= scriptBakPtr
SegmentsIntact ==
  loading \in {"no", "entry"} /\ currentPartId # 0 =>
    LET m == MemListParts[currentPartId]
    IN  /\ SegmentAt(segPalettes, m.palette)
        /\ SegmentAt(segBytecode, m.code)
        /\ SegmentAt(segCinematic, m.cinematic)
        /\ m.video2 # MEMLIST_PART_NONE => SegmentAt(segVideo2, m.video2)

\* loadMarkedAsNeeded ends, although it only looks at the states to know whether
\* something is left to load and may not be able to load it.
LoadingEnds == loading \in {"entry", "part"} ~> loading \in {"no", "halted"}

-----------------------------------------------------------------------------
\* Here a resource is readable if its data are really there.
RS == INSTANCE ResourceStore WITH
  Resources <- Entries,
  SegmentsOf <- Segments,
  NoPart <- 0,
  readable <- {e \in Entries : state[e] = "LOADED" /\ Intact(e)},
  part <- currentPartId,
  switchingTo <- IF loading = "part" THEN requestedNextPart ELSE 0,
  failed <- loading = "halted"

\* The block of memory with its two pointers implements the store, for parts
\* that fit in the memory.
ImplementsResourceStore == RS!Spec
=============================================================================
