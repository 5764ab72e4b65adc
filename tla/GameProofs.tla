----------------------------- MODULE GameProofs -----------------------------
(***************************************************************************)
(* Proofs about the block of memory, for every memlist, every memory size  *)
(* and every table of parts: first of the resource manager alone (module   *)
(* ResourceMem), from the assumptions of that module only; then of the     *)
(* manager in the game (module Game), from the same invariant MemInv:      *)
(* whatever the interrupts may read is LOADED, and so whole.               *)
(***************************************************************************)
EXTENDS Game, FiniteSetTheorems, WellFoundedInduction, TLAPS

\* The blocks of the LOADED entries hold their data, below _scriptCurPtr.
BlocksBelow ==
  \A e \in Entries : state[e] = "LOADED" =>
    /\ bufPtr[e] \in 0 .. MemSize
    /\ bufPtr[e] + Size[e] <= scriptCurPtr
    /\ \A c \in Block(e) : contents[c] = e

\* While a part is brought in, only its segments are there; afterwards they fill
\* the memory below the mark, and what the scripts demand goes above it.
KeptBelow ==
  /\ loading = "part" =>
       /\ requestedNextPart \in Parts
       /\ \A e \in Entries : state[e] # "NOT_NEEDED" => KeptType(e)
  /\ loading \in {"no", "entry"} =>
       /\ scriptBakPtr <= scriptCurPtr
       /\ \A e \in Entries :
            state[e] = "LOADED" /\ KeptType(e) => bufPtr[e] + Size[e] <= scriptBakPtr
       /\ \A c \in 0 .. scriptBakPtr - 1 : \E e \in Entries :
            state[e] = "LOADED" /\ KeptType(e) /\ c \in Block(e)
       /\ \A e \in Marked : loading = "entry" /\ ~KeptType(e)

MemInv == TypeOK /\ BlocksBelow /\ KeptBelow /\ NoGaps

-----------------------------------------------------------------------------
LEMMA InitMem == Init => MemInv
<1> SUFFICES ASSUME Init PROVE MemInv
  OBVIOUS
<1>1. TypeOK
  <2>1. NULL \in Pointer /\ 0 \in 0 .. MemSize
    BY EntriesAssumption DEF Pointer
  <2>2. FirstPart \in Nat
    BY PartsAssumption
  <2> QED  BY <2>1, <2>2 DEF Init, TypeOK
<1>2. BlocksBelow /\ KeptBelow /\ NoGaps
  BY DEF Init, BlocksBelow, KeptBelow, NoGaps, Marked
<1> QED  BY <1>1, <1>2 DEF MemInv

\* A step that leaves alone the memory and what is known of it.
LEMMA SameMemory ==
  ASSUME BlocksBelow, NoGaps, UNCHANGED <<state, bufPtr, contents, scriptCurPtr>>
  PROVE  BlocksBelow' /\ NoGaps'
BY DEF BlocksBelow, NoGaps, Block

LEMMA ScriptMem ==
  ASSUME MemInv, Script
  PROVE  MemInv'
<1> USE DEF MemInv, memVars, ptrVars, segVars, partVars
<1>1. CASE \E id \in PartIds : RequestPart(id)
  <2>1. TypeOK'
    BY <1>1, PartsAssumption DEF RequestPart, TypeOK
  <2>2. KeptBelow'
    BY <1>1 DEF RequestPart, KeptBelow, Marked, Block
  <2> QED  BY <1>1, <2>1, <2>2, SameMemory DEF RequestPart
<1>2. CASE \E e \in Demanded : RequestEntry(e)
  <2>1. PICK d \in Demanded : RequestEntry(d)
    BY <1>2
  <2>2. d \in Entries /\ ~KeptType(d)
    BY DemandAssumption
  <2>3. TypeOK'
    BY <2>1, <2>2 DEF RequestEntry, TypeOK
  <2>4. \A e \in Entries : state'[e] = "LOADED" <=> state[e] = "LOADED"
    BY <2>1, <2>2 DEF RequestEntry, TypeOK
  <2>5. BlocksBelow' /\ NoGaps'
    BY <2>1, <2>4 DEF RequestEntry, BlocksBelow, NoGaps, Block
  <2>6. \A e \in Marked' : e = d
    BY <2>1, <2>2 DEF RequestEntry, KeptBelow, Marked, TypeOK
  <2>7. KeptBelow'
    BY <2>1, <2>2, <2>4, <2>6 DEF RequestEntry, KeptBelow, KeptType, Block
  <2> QED  BY <2>3, <2>5, <2>7
<1>3. CASE InvalidateRes
  <2>1. TypeOK'
    BY <1>3 DEF InvalidateRes, TypeOK
  <2>2. \A e \in Entries : state'[e] = "LOADED" <=> state[e] = "LOADED" /\ KeptType(e)
    BY <1>3 DEF InvalidateRes, TypeOK
  <2>3. BlocksBelow'
    BY <1>3, <2>2 DEF InvalidateRes, BlocksBelow, KeptBelow, Block
  <2>4. NoGaps'
    BY <1>3, <2>2 DEF InvalidateRes, NoGaps, KeptBelow, Block
  <2>5. scriptBakPtr \in Int
    BY DEF TypeOK
  <2>6. Marked' = {}
    BY <1>3 DEF InvalidateRes, KeptBelow, Marked
  <2>7. KeptBelow'
    <3>1. /\ loading = "no" /\ loading' = "no"
          /\ UNCHANGED <<bufPtr, scriptBakPtr>> /\ scriptCurPtr' = scriptBakPtr
      BY <1>3 DEF InvalidateRes
    <3>2. \A e \in Entries : state'[e] = "LOADED" /\ KeptType(e) =>
            bufPtr[e] + Size[e] <= scriptBakPtr
      BY <2>2, <3>1 DEF KeptBelow
    <3>3. \A c \in 0 .. scriptBakPtr - 1 : \E e \in Entries :
            state'[e] = "LOADED" /\ KeptType(e) /\ c \in bufPtr[e] .. bufPtr[e] + Size[e] - 1
      BY <2>2, <3>1 DEF KeptBelow, Block
    <3> QED  BY <2>5, <2>6, <3>1, <3>2, <3>3 DEF KeptBelow, KeptType, Block
  <2> QED  BY <2>1, <2>3, <2>4, <2>7
<1> QED  BY <1>1, <1>2, <1>3 DEF Script

LEMMA SetupMem ==
  ASSUME MemInv, SetupPart
  PROVE  MemInv'
<1> USE DEF MemInv, memVars, ptrVars, segVars, partVars
<1>1. CASE SamePart \/ RefusePart
  <2>1. TypeOK' /\ KeptBelow'
    BY <1>1 DEF SetupPart, SamePart, RefusePart, TypeOK, KeptBelow, Marked, Block
  <2> QED  BY <1>1, <2>1, SameMemory DEF SamePart, RefusePart
<1>2. CASE EnterPart
  <2>1. TypeOK'
    <3>1. 0 \in 0 .. MemSize
      BY EntriesAssumption
    <3>2. state' \in [Entries -> {"NOT_NEEDED", "LOAD_ME", "LOADED"}]
      BY <1>2 DEF EnterPart
    <3> QED  BY <1>2, <3>1, <3>2 DEF EnterPart, TypeOK
  <2>2. \A e \in Entries : state'[e] # "LOADED"
    BY <1>2 DEF EnterPart
  <2>3. BlocksBelow' /\ NoGaps'
    BY <1>2, <2>2 DEF EnterPart, BlocksBelow, NoGaps
  <2>4. KeptBelow'
    BY <1>2, SegmentsAssumption DEF EnterPart, KeptBelow, KeptType
  <2> QED  BY <2>1, <2>3, <2>4
<1> QED  BY <1>1, <1>2 DEF SetupPart

\* Loading a block above the others: the heart of the matter.
LEMMA LoadBlockMem ==
  ASSUME MemInv, loading \in {"entry", "part"}, NEW e \in Marked, LoadBlock(e)
  PROVE  MemInv'
<1> USE DEF MemInv
<1>1. /\ e \in Entries /\ state[e] = "LOAD_ME" /\ Size[e] \in Nat
      /\ scriptCurPtr \in 0 .. MemSize /\ scriptCurPtr + Size[e] <= MemSize
      /\ MemSize \in Nat
  <2>1. e \in Entries /\ state[e] = "LOAD_ME"
    BY DEF Marked
  <2>2. Size[e] \in Nat /\ MemSize \in Nat
    BY <2>1, EntriesAssumption
  <2>3. scriptCurPtr \in 0 .. MemSize
    BY DEF TypeOK
  <2>4. ~(Size[e] > MemSize - scriptCurPtr)
    BY DEF LoadBlock, TooBig
  <2> QED  BY <2>1, <2>2, <2>3, <2>4
<1>2. /\ bufPtr' = [bufPtr EXCEPT ![e] = scriptCurPtr]
      /\ state' = [state EXCEPT ![e] = "LOADED"]
      /\ scriptCurPtr' = scriptCurPtr + Size[e]
      /\ UNCHANGED <<picture, scriptBakPtr, segVars, partVars, loading>>
  BY DEF LoadBlock
<1>3. /\ \A c \in scriptCurPtr .. scriptCurPtr + Size[e] - 1 : contents'[c] = e
      /\ \A c \in 0 .. scriptCurPtr - 1 : contents'[c] = contents[c]
      /\ contents' \in [0 .. MemSize - 1 -> Entries \cup {Nothing}]
  BY <1>1 DEF LoadBlock, TypeOK
<1>4. TypeOK'
  BY <1>1, <1>2, <1>3 DEF TypeOK, Pointer, segVars, partVars
<1>5. \A f \in Entries \ {e} : state'[f] = state[f] /\ bufPtr'[f] = bufPtr[f]
  BY <1>1, <1>2 DEF TypeOK
<1>6. state'[e] = "LOADED" /\ bufPtr'[e] = scriptCurPtr
  BY <1>1, <1>2 DEF TypeOK
<1>7. BlocksBelow'
  <2> SUFFICES ASSUME NEW f \in Entries, state'[f] = "LOADED"
               PROVE  /\ bufPtr'[f] \in 0 .. MemSize
                      /\ bufPtr'[f] + Size[f] <= scriptCurPtr'
                      /\ \A c \in bufPtr'[f] .. bufPtr'[f] + Size[f] - 1 :
                           contents'[c] = f
    BY DEF BlocksBelow, Block
  <2>1. CASE f = e
    BY <2>1, <1>1, <1>2, <1>3, <1>6
  <2>2. CASE f # e
    <3>1. /\ bufPtr'[f] = bufPtr[f] /\ bufPtr[f] \in 0 .. MemSize /\ Size[f] \in Nat
          /\ bufPtr[f] + Size[f] <= scriptCurPtr
          /\ \A c \in bufPtr[f] .. bufPtr[f] + Size[f] - 1 : contents[c] = f
      <4>1. Size[f] \in Nat
        BY EntriesAssumption
      <4>2. state[f] = "LOADED" /\ bufPtr'[f] = bufPtr[f]
        BY <2>2, <1>5
      <4> QED  BY <4>1, <4>2 DEF BlocksBelow, Block
    <3>2. bufPtr'[f] + Size[f] <= scriptCurPtr'
      BY <3>1, <1>1, <1>2
    <3>3. \A c \in bufPtr[f] .. bufPtr[f] + Size[f] - 1 : c \in 0 .. scriptCurPtr - 1
      BY <3>1, <1>1
    <3> QED  BY <3>1, <3>2, <3>3, <1>3
  <2> QED  BY <2>1, <2>2
<1>8. NoGaps'
  <2> SUFFICES ASSUME NEW c \in 0 .. scriptCurPtr' - 1
               PROVE  \E f \in Entries : state'[f] = "LOADED" /\
                        c \in bufPtr'[f] .. bufPtr'[f] + Size[f] - 1
    BY DEF NoGaps, Block
  <2>1. CASE c \in 0 .. scriptCurPtr - 1
    <3>1. PICK f \in Entries : state[f] = "LOADED" /\ c \in Block(f)
      BY <2>1 DEF NoGaps
    <3>2. f # e
      BY <1>1, <3>1
    <3> QED  BY <3>1, <3>2, <1>5 DEF Block
  <2>2. CASE c \notin 0 .. scriptCurPtr - 1
    <3>1. c \in scriptCurPtr .. scriptCurPtr + Size[e] - 1
      BY <2>2, <1>1, <1>2
    <3> QED  BY <3>1, <1>1, <1>6
  <2> QED  BY <2>1, <2>2
<1>9. KeptBelow'
  <2>1. CASE loading = "part"
    <3>1. KeptType(e) /\ \A f \in Entries : state'[f] # "NOT_NEEDED" => KeptType(f)
      BY <2>1, <1>1, <1>5 DEF KeptBelow
    <3>2. loading' = "part" /\ requestedNextPart' \in Parts
      BY <2>1, <1>2 DEF KeptBelow, partVars
    <3> QED  BY <3>1, <3>2 DEF KeptBelow, KeptType
  <2>2. CASE loading = "entry"
    <3>1. ~KeptType(e) /\ scriptBakPtr <= scriptCurPtr'
      BY <2>2, <1>1, <1>2 DEF KeptBelow, TypeOK
    <3>2. \A f \in Entries : state'[f] = "LOADED" /\ KeptType(f) =>
            f # e /\ bufPtr'[f] + Size[f] <= scriptBakPtr
      BY <2>2, <3>1, <1>5 DEF KeptBelow
    <3>3. \A c \in 0 .. scriptBakPtr - 1 : \E f \in Entries :
            state'[f] = "LOADED" /\ KeptType(f)
              /\ c \in bufPtr'[f] .. bufPtr'[f] + Size[f] - 1
      BY <2>2, <1>1, <1>5 DEF KeptBelow, Block
    <3>4. \A f \in Marked' : ~KeptType(f)
      BY <2>2, <1>5, <1>6 DEF KeptBelow, Marked
    <3> QED  BY <2>2, <1>2, <3>1, <3>2, <3>3, <3>4 DEF KeptBelow, KeptType, Block
  <2> QED  BY <2>1, <2>2
<1> QED  BY <1>4, <1>7, <1>8, <1>9

\* The other turns of the loop only take a mark away.
LEMMA UnmarkMem ==
  ASSUME MemInv, loading \in {"entry", "part"}, NEW e \in Marked,
         Drop(e) \/ LoadPicture(e)
  PROVE  MemInv'
<1> USE DEF MemInv, memVars, ptrVars, segVars, partVars
<1>1. e \in Entries /\ state[e] = "LOAD_ME"
  BY DEF Marked
<1>2. /\ state' = [state EXCEPT ![e] = "NOT_NEEDED"]
      /\ UNCHANGED <<bufPtr, contents, ptrVars, segVars, partVars, loading>>
      /\ picture' \in {picture, e}
  BY DEF Drop, LoadPicture
<1>3. TypeOK'
  BY <1>1, <1>2 DEF TypeOK
<1>4. /\ \A f \in Entries : state'[f] = "LOADED" <=> state[f] = "LOADED"
      /\ \A f \in Entries : state'[f] # "NOT_NEEDED" => state[f] # "NOT_NEEDED"
      /\ Marked' \subseteq Marked
  BY <1>1, <1>2 DEF TypeOK, Marked
<1>5. BlocksBelow' /\ NoGaps'
  BY <1>2, <1>4 DEF BlocksBelow, NoGaps, Block
<1>6. KeptBelow'
  BY <1>2, <1>4 DEF KeptBelow, KeptType, Block
<1> QED  BY <1>3, <1>5, <1>6

LEMMA LoadMem ==
  ASSUME MemInv, Load
  PROVE  MemInv'
<1> USE DEF MemInv, memVars, ptrVars, segVars, partVars
<1>1. CASE LoadOne
  <2>1. PICK e \in Entries :
          /\ NextToLoad(e)
          /\ Drop(e) \/ LoadPicture(e) \/ LoadBlock(e) \/ BankFails(e)
    BY <1>1 DEF LoadOne
  <2>2. e \in Marked /\ loading \in {"entry", "part"}
    BY <1>1, <2>1 DEF LoadOne, NextToLoad
  <2>3. CASE BankFails(e)
    <3>1. TypeOK' /\ KeptBelow'
      BY <2>3 DEF BankFails, TypeOK, KeptBelow
    <3> QED  BY <2>3, <3>1, SameMemory DEF BankFails
  <2> QED  BY <2>1, <2>2, <2>3, UnmarkMem, LoadBlockMem
<1>2. CASE EntryDone
  <2>1. TypeOK' /\ KeptBelow'
    BY <1>2 DEF EntryDone, TypeOK, KeptBelow, Marked, Block
  <2> QED  BY <1>2, <2>1, SameMemory DEF EntryDone
<1>3. CASE PartDone
  <2>1. /\ loading = "part" /\ Marked = {} /\ loading' = "no"
        /\ scriptBakPtr' = scriptCurPtr
        /\ UNCHANGED <<state, memVars, scriptCurPtr>>
    BY <1>3 DEF PartDone
  <2>2. BlocksBelow' /\ NoGaps'
    BY <2>1, SameMemory
  <2>3. TypeOK'
    <3>1. requestedNextPart \in Parts
      BY <2>1 DEF KeptBelow
    <3>2. MemListParts[requestedNextPart]
            \in [{"palette", "code", "cinematic", "video2"} -> Entries]
      BY <3>1, PartsAssumption
    <3> DEFINE m == MemListParts[requestedNextPart]
    <3>3. /\ bufPtr[m.palette] \in Pointer /\ bufPtr[m.code] \in Pointer
          /\ bufPtr[m.cinematic] \in Pointer /\ bufPtr[m.video2] \in Pointer
      BY <3>2 DEF TypeOK
    <3>4. /\ segPalettes' \in Pointer /\ segBytecode' \in Pointer
          /\ segCinematic' \in Pointer /\ segVideo2' \in Pointer
      BY <1>3, <3>3 DEF PartDone, TypeOK
    <3>5. currentPartId' \in Parts /\ requestedNextPart' = 0
      BY <1>3, <3>1 DEF PartDone
    <3> QED  BY <2>1, <3>4, <3>5 DEF TypeOK
  <2>4. scriptCurPtr \in Int
    BY DEF TypeOK
  <2>5. KeptBelow'
    <3>1. \A e \in Entries : state[e] = "LOADED" => KeptType(e)
      BY <2>1 DEF KeptBelow
    <3>2. \A e \in Entries : state[e] = "LOADED" => bufPtr[e] + Size[e] <= scriptCurPtr
      BY DEF BlocksBelow
    <3>3. \A c \in 0 .. scriptCurPtr - 1 : \E e \in Entries :
            state[e] = "LOADED" /\ KeptType(e) /\ c \in bufPtr[e] .. bufPtr[e] + Size[e] - 1
      BY <3>1 DEF NoGaps, Block
    <3>4. Marked' = {}
      BY <2>1 DEF Marked
    <3> QED  BY <2>1, <2>4, <3>2, <3>3, <3>4 DEF KeptBelow, KeptType, Block
  <2> QED  BY <2>2, <2>3, <2>5
<1> QED  BY <1>1, <1>2, <1>3 DEF Load

LEMMA StepMem ==
  ASSUME MemInv, [Next]_vars
  PROVE  MemInv'
<1>1. CASE UNCHANGED vars
  BY <1>1, SameMemory
    DEF MemInv, TypeOK, KeptBelow, Marked, Block, vars, memVars, ptrVars, segVars, partVars
<1> QED
  BY <1>1, ScriptMem, SetupMem, LoadMem DEF Next, ErrorLoop

THEOREM Inductive == Spec => []MemInv
BY InitMem, StepMem, PTL DEF Spec

\* Every reachable state has its type: in particular the pointers stay in the
\* block of memory.
THEOREM TypeCorrect == Spec => []TypeOK
<1>1. MemInv => TypeOK
  BY DEF MemInv
<1> QED  BY <1>1, Inductive, PTL

LEMMA IntactWhenLoaded ==
  ASSUME MemInv
  PROVE  LoadedIntact
<1> SUFFICES ASSUME NEW e \in Entries, state[e] = "LOADED", NEW c \in Block(e)
             PROVE  c \in 0 .. MemSize - 1 /\ contents[c] = e
  BY DEF LoadedIntact, Intact
<1>1. /\ bufPtr[e] \in 0 .. MemSize /\ bufPtr[e] + Size[e] <= scriptCurPtr
      /\ contents[c] = e /\ scriptCurPtr \in 0 .. MemSize
  BY DEF MemInv, BlocksBelow, TypeOK
<1>2. Size[e] \in Nat /\ MemSize \in Nat
  BY EntriesAssumption
<1> QED  BY <1>1, <1>2 DEF Block

\* What is LOADED is whole, for every memlist and every order of demands, releases
\* and changes of part (loadMarkedAsNeeded, invalidateRes, setupPart).
THEOREM LoadedStaysIntact == Spec => []LoadedIntact
BY IntactWhenLoaded, Inductive, PTL

\* The memory below _scriptCurPtr is covered by the blocks of LOADED entries: a
\* release gives back all that was demanded.
THEOREM NothingLeaks == Spec => []NoGaps
<1>1. MemInv => NoGaps
  BY DEF MemInv
<1> QED  BY <1>1, Inductive, PTL

-----------------------------------------------------------------------------
(* That the loop of loadMarkedAsNeeded comes to its end.                   *)

LEMMA MoreTimes ==
  ASSUME NEW a \in Nat, NEW b \in Nat, NEW m \in Nat, b < a
  PROVE  a * m >= b * m + m
<1>1. PICK d \in Nat : a = b + 1 + d
  <2>1. a - b - 1 \in Nat /\ a = b + 1 + (a - b - 1)
    OBVIOUS
  <2> QED  BY <2>1
<1>2. a * m = b * m + m + d * m
  BY <1>1
<1>3. b * m \in Nat /\ d * m \in Nat
  OBVIOUS
<1> QED  BY <1>2, <1>3

\* One of the marked entries is the last of those with the highest rank.
LEMMA SomeIsNext ==
  ASSUME Marked # {}
  PROVE  \E e \in Entries : NextToLoad(e)
<1> DEFINE n == NumMemList
           key(e) == 256 * n - (Rank[e] * n + e)
           Keys == {k \in Nat : \E e \in Marked : k = key(e)}
<1>1. n \in Nat \ {0} /\ \A e \in Marked : e \in 0 .. n - 1 /\ Rank[e] \in 0 .. 255
  BY EntriesAssumption DEF Entries, Marked
<1>2. ASSUME NEW e \in Marked  PROVE key(e) \in Keys
  <2>1. PICK r \in 0 .. 255 : r = Rank[e]
    BY <1>1
  <2>2. PICK m \in Nat \ {0} : m = n
    BY <1>1
  <2>3. PICK i \in 0 .. m - 1 : i = e
    BY <1>1, <2>2
  <2>4. r * m <= 255 * m
    BY <2>1, <2>2
  <2>5. 256 * m - (r * m + i) \in Nat
    BY <2>1, <2>2, <2>3, <2>4
  <2> QED  BY <2>1, <2>2, <2>3, <2>5
<1>3. Keys # {} /\ Keys \subseteq Nat
  BY <1>2
<1> HIDE DEF Keys
<1>4. PICK k \in Keys : \A l \in Keys : ~ (<<l, k>> \in OpToRel(<, Nat))
  BY <1>3, NatLessThanWellFounded, WFMin
<1>5. \A l \in Keys : k <= l
  <2> SUFFICES ASSUME NEW l \in Keys, l < k  PROVE FALSE
    BY <1>3
  <2>1. <<l, k>> \in Nat \X Nat /\ <<l, k>>[1] < <<l, k>>[2]
    BY <1>3
  <2>2. <<l, k>> \in OpToRel(<, Nat)
    BY <2>1 DEF OpToRel
  <2> QED  BY <1>4, <2>2
<1>6. PICK e \in Marked : k = key(e)
  BY <1>4 DEF Keys
<1>7. ASSUME NEW f \in Marked  PROVE Rank[f] < Rank[e] \/ (Rank[f] = Rank[e] /\ f <= e)
  <2>1. key(e) <= key(f)
    BY <1>2, <1>5, <1>6
  <2>2. PICK m \in Nat \ {0} : m = n
    BY <1>1
  <2>3. PICK r \in 0 .. 255, i \in 0 .. m - 1 : r = Rank[e] /\ i = e
    BY <1>1, <2>2
  <2>4. PICK s \in 0 .. 255, j \in 0 .. m - 1 : s = Rank[f] /\ j = f
    BY <1>1, <2>2
  <2>5. s * m + j <= r * m + i
    BY <2>1, <2>2, <2>3, <2>4
  <2>6. CASE s > r
    <3>1. s * m >= r * m + m
      BY <2>6, MoreTimes
    <3> QED  BY <2>2, <2>3, <2>4, <2>5, <3>1
  <2>7. CASE s = r
    BY <2>2, <2>3, <2>4, <2>5, <2>7
  <2>8. CASE s < r
    BY <2>3, <2>4, <2>8
  <2> QED  BY <2>3, <2>4, <2>6, <2>7, <2>8
<1> QED  BY <1>6, <1>7 DEF NextToLoad, Marked

\* A turn of the loop takes the mark of the entry it is about.
LEMMA TurnUnmarks ==
  ASSUME MemInv, LoadOne
  PROVE  loading' = "halted" \/
         (Marked' \subseteq Marked /\ Cardinality(Marked') < Cardinality(Marked))
<1>1. PICK e \in Entries :
        NextToLoad(e) /\ (Drop(e) \/ LoadPicture(e) \/ LoadBlock(e) \/ BankFails(e))
  BY DEF LoadOne
<1>2. CASE BankFails(e)
  BY <1>2 DEF BankFails
<1>3. CASE ~ BankFails(e)
  <2>1. e \in Marked /\ state \in [Entries -> {"NOT_NEEDED", "LOAD_ME", "LOADED"}]
    BY <1>1 DEF NextToLoad, MemInv, TypeOK
  <2>2. \E to \in {"NOT_NEEDED", "LOADED"} : state' = [state EXCEPT ![e] = to]
    BY <1>1, <1>3 DEF Drop, LoadPicture, LoadBlock
  <2>3. Marked' \subseteq Marked /\ e \notin Marked'
    BY <1>1, <2>1, <2>2 DEF Marked
  <2>4. IsFiniteSet(Marked)
    <3>1. IsFiniteSet(Entries)
      BY EntriesAssumption, FS_Interval DEF Entries
    <3> QED  BY <3>1, FS_Subset DEF Marked
  <2>5. Cardinality(Marked') <= Cardinality(Marked) /\ Cardinality(Marked') # Cardinality(Marked)
    BY <2>1, <2>3, <2>4, FS_Subset
  <2>6. Cardinality(Marked) \in Nat /\ Cardinality(Marked') \in Nat
    BY <2>3, <2>4, FS_Subset, FS_CardinalityType
  <2> QED  BY <2>3, <2>5, <2>6
<1> QED  BY <1>2, <1>3

\* loadMarkedAsNeeded: as long as an entry is marked the loop is at work, or was
\* halted, and finds the entry whose turn it is; and every turn halts or leaves
\* fewer entries marked, the ones that it cannot load included.  The loop has no
\* more turns than there are entries.
THEOREM LoadingRunsOut ==
  Spec => /\ [](Marked # {} => loading # "no" /\ \E e \in Entries : NextToLoad(e))
          /\ [][LoadOne => \/ loading' = "halted"
                          \/ /\ Marked' \subseteq Marked
                             /\ Cardinality(Marked') < Cardinality(Marked)]_vars
<1>1. MemInv => (Marked # {} => loading # "no" /\ \E e \in Entries : NextToLoad(e))
  BY SomeIsNext DEF MemInv, KeptBelow
<1>2. MemInv /\ [Next]_vars =>
        [LoadOne => \/ loading' = "halted"
                    \/ /\ Marked' \subseteq Marked
                       /\ Cardinality(Marked') < Cardinality(Marked)]_vars
  BY TurnUnmarks
<1> QED  BY <1>1, <1>2, Inductive, PTL DEF Spec

-----------------------------------------------------------------------------
(* The segments of the part that is played.                                *)

SizesOf(p) ==
  LET m == MemListParts[p]
  IN  Size[m.palette] + Size[m.code] + Size[m.cinematic] + Size[m.video2]

\* True of the parts of the game: a part whose segments do not fit would be
\* entered all the same, with the pointers of whatever was there before.
PartsFit == \A p \in Parts : SizesOf(p) <= MemSize

ToCome(e) == IF state[e] = "LOAD_ME" THEN Size[e] ELSE 0

\* What is still to be loaded of the part that is brought in has its place.
RoomForPart ==
  loading = "part" =>
    LET m == MemListParts[requestedNextPart]
    IN  /\ scriptCurPtr + ToCome(m.palette) + ToCome(m.code) + ToCome(m.cinematic)
             + ToCome(m.video2) <= MemSize
        /\ \A e \in Segments(requestedNextPart) : state[e] \in {"LOAD_ME", "LOADED"}
        /\ Marked \subseteq Segments(requestedNextPart)

SegmentsThere ==
  loading \in {"no", "entry"} /\ currentPartId # 0 =>
    LET m == MemListParts[currentPartId]
    IN  /\ \A e \in Segments(currentPartId) : state[e] = "LOADED"
        /\ segPalettes = bufPtr[m.palette]
        /\ segBytecode = bufPtr[m.code]
        /\ segCinematic = bufPtr[m.cinematic]
        /\ m.video2 # MEMLIST_PART_NONE => segVideo2 = bufPtr[m.video2]

PartInv == MemInv /\ RoomForPart /\ SegmentsThere

\* The entries of a part, by role.
LEMMA Roles ==
  ASSUME NEW p \in Parts
  PROVE  LET m == MemListParts[p]
         IN  /\ {m.palette, m.code, m.cinematic, m.video2} \subseteq Entries
             /\ {m.palette, m.code, m.cinematic} \subseteq Segments(p)
             /\ m.video2 # MEMLIST_PART_NONE => m.video2 \in Segments(p)
             /\ Segments(p) \subseteq Entries
<1>1. MemListParts[p] \in [{"palette", "code", "cinematic", "video2"} -> Entries]
  BY PartsAssumption
<1> QED  BY <1>1 DEF Segments

\* One more block of the part leaves room for the others.
LEMMA RoomStays ==
  ASSUME TypeOK, RoomForPart, loading = "part", requestedNextPart \in Parts,
         NEW e \in Marked, LoadBlock(e)
  PROVE  RoomForPart'
<1>0. PICK p \in Parts : p = requestedNextPart
  OBVIOUS
<1> DEFINE m == MemListParts[p]
<1>1. /\ m.palette \in Entries /\ m.code \in Entries
      /\ m.cinematic \in Entries /\ m.video2 \in Entries
      /\ Segments(p) \subseteq Entries
  BY Roles
<1>2. e \in Entries /\ state[e] = "LOAD_ME" /\ Size[e] \in Nat
  BY EntriesAssumption DEF Marked
<1>3. e \in {m.palette, m.code, m.cinematic, m.video2}
  BY <1>0 DEF RoomForPart, Segments
<1>4. /\ state' = [state EXCEPT ![e] = "LOADED"]
      /\ scriptCurPtr' = scriptCurPtr + Size[e]
      /\ UNCHANGED <<loading, requestedNextPart>>
  BY DEF LoadBlock, partVars
<1>5. ASSUME NEW f \in Entries
      PROVE  /\ f = e => ToCome(f) = Size[e] /\ ToCome(f)' = 0
             /\ f # e => ToCome(f)' = ToCome(f)
             /\ ToCome(f) \in Nat
  BY <1>2, <1>4, EntriesAssumption DEF ToCome, TypeOK
<1>6. scriptCurPtr \in Nat /\ MemSize \in Nat
  BY EntriesAssumption DEF TypeOK
<1>7. scriptCurPtr' + ToCome(m.palette)' + ToCome(m.code)' + ToCome(m.cinematic)'
        + ToCome(m.video2)' <= MemSize
  <2>1. scriptCurPtr + ToCome(m.palette) + ToCome(m.code) + ToCome(m.cinematic)
          + ToCome(m.video2) <= MemSize
    BY <1>0 DEF RoomForPart
  <2> HIDE DEF m
  <2> QED  BY <1>1, <1>2, <1>3, <1>4, <1>5, <1>6, <2>1
<1>8. \A f \in Segments(p) : state'[f] \in {"LOAD_ME", "LOADED"}
  BY <1>0, <1>1, <1>2, <1>4 DEF RoomForPart, TypeOK
<1>9. Marked' \subseteq Segments(p)
  BY <1>0, <1>2, <1>4 DEF RoomForPart, Marked, TypeOK
<1> QED  BY <1>0, <1>4, <1>7, <1>8, <1>9 DEF RoomForPart, ToCome, Segments

\* No segment is given up while a part is brought in.
LEMMA NoSegmentDropped ==
  ASSUME TypeOK, RoomForPart, loading = "part", requestedNextPart \in Parts,
         NEW e \in Marked
  PROVE  ~Drop(e) /\ ~LoadPicture(e)
<1>0. PICK p \in Parts : p = requestedNextPart
  OBVIOUS
<1> DEFINE m == MemListParts[p]
<1>1. e \in Segments(p) /\ state[e] = "LOAD_ME" /\ e \in Entries
  BY <1>0 DEF RoomForPart, Marked
<1>2. BankId[e] # 0 /\ KeptType(e)
  BY <1>1, SegmentsAssumption
<1>3. scriptCurPtr \in Nat /\ MemSize \in Nat
      /\ \A f \in Entries : ToCome(f) \in Nat
  BY EntriesAssumption DEF TypeOK, ToCome
<1>4. /\ m.palette \in Entries /\ m.code \in Entries
      /\ m.cinematic \in Entries /\ m.video2 \in Entries
  BY Roles
<1>5. e \in {m.palette, m.code, m.cinematic, m.video2}
  BY <1>1 DEF Segments
<1>6. scriptCurPtr + ToCome(m.palette) + ToCome(m.code) + ToCome(m.cinematic)
        + ToCome(m.video2) <= MemSize
  BY <1>0 DEF RoomForPart
<1>7. scriptCurPtr + ToCome(e) <= MemSize
  <2> HIDE DEF m
  <2> QED  BY <1>3, <1>4, <1>5, <1>6
<1>8. ToCome(e) = Size[e] /\ Size[e] \in Nat
  BY <1>1, EntriesAssumption DEF ToCome
<1>9. ~TooBig(e)
  BY <1>3, <1>7, <1>8 DEF TooBig
<1>10. Type[e] # RT_POLY_ANIM
  BY <1>2 DEF KeptType, RT_POLY_ANIM
<1> QED  BY <1>2, <1>9, <1>10 DEF Drop, LoadPicture

LEMMA EnterRoom ==
  ASSUME PartsFit, EnterPart
  PROVE  RoomForPart'
<1>0. PICK p \in Parts : p = requestedNextPart
  BY DEF EnterPart
<1> DEFINE m == MemListParts[p]
<1>1. /\ m.palette \in Entries /\ m.code \in Entries
      /\ m.cinematic \in Entries /\ m.video2 \in Entries
      /\ Segments(p) \subseteq Entries
  BY Roles
<1>2. /\ scriptCurPtr' = 0 /\ requestedNextPart' = p
      /\ state' = [f \in Entries |-> IF f \in Segments(p) THEN "LOAD_ME" ELSE "NOT_NEEDED"]
  BY <1>0 DEF EnterPart, partVars
<1>3. Size[m.palette] + Size[m.code] + Size[m.cinematic] + Size[m.video2] <= MemSize
  BY DEF PartsFit, SizesOf
<1>4. \A f \in Entries : ToCome(f)' \in 0 .. Size[f] /\ Size[f] \in Nat
  BY <1>2, EntriesAssumption DEF ToCome
<1>5. scriptCurPtr' + ToCome(m.palette)' + ToCome(m.code)' + ToCome(m.cinematic)'
        + ToCome(m.video2)' <= MemSize
  <2>1. MemSize \in Nat
    BY EntriesAssumption
  <2> HIDE DEF m
  <2> QED  BY <1>1, <1>2, <1>3, <1>4, <2>1
<1>6. /\ \A f \in Segments(p) : state'[f] \in {"LOAD_ME", "LOADED"}
      /\ Marked' \subseteq Segments(p)
  BY <1>1, <1>2 DEF Marked
<1> QED  BY <1>2, <1>5, <1>6 DEF RoomForPart, ToCome, Segments

\* A step of a script or of a load on its behalf leaves the segments alone.
LEMMA SegmentsKept ==
  ASSUME SegmentsThere, currentPartId \in Parts \cup {0},
         UNCHANGED <<segVars, currentPartId>>,
         loading \in {"no", "entry"},
         \A e \in Entries : state[e] = "LOADED" /\ KeptType(e) =>
                             state'[e] = "LOADED" /\ bufPtr'[e] = bufPtr[e]
  PROVE  SegmentsThere'
<1> SUFFICES ASSUME currentPartId # 0
             PROVE  SegmentsThere'
  BY DEF SegmentsThere
<1>0. PICK p \in Parts : p = currentPartId
  OBVIOUS
<1> DEFINE m == MemListParts[p]
<1>1. \A e \in Segments(p) : e \in Entries /\ KeptType(e) /\ state[e] = "LOADED"
  BY <1>0, Roles, SegmentsAssumption DEF SegmentsThere
<1>2. \A e \in Segments(p) : state'[e] = "LOADED" /\ bufPtr'[e] = bufPtr[e]
  BY <1>1
<1>3. /\ {m.palette, m.code, m.cinematic} \subseteq Segments(p)
      /\ m.video2 # MEMLIST_PART_NONE => m.video2 \in Segments(p)
  BY Roles
<1>4. /\ segPalettes = bufPtr[m.palette] /\ segBytecode = bufPtr[m.code]
      /\ segCinematic = bufPtr[m.cinematic]
      /\ m.video2 # MEMLIST_PART_NONE => segVideo2 = bufPtr[m.video2]
  BY <1>0 DEF SegmentsThere
<1> QED  BY <1>0, <1>2, <1>3, <1>4 DEF SegmentsThere, Segments, segVars

LEMMA StepPart ==
  ASSUME PartsFit, PartInv, [Next]_vars
  PROVE  PartInv'
<1> USE DEF PartInv
<1>0. MemInv' /\ TypeOK /\ KeptBelow
  BY StepMem DEF MemInv
<1>t. currentPartId \in Parts \cup {0}
  BY <1>0 DEF TypeOK
<1>1. CASE UNCHANGED vars
  BY <1>0, <1>1 DEF RoomForPart, SegmentsThere, ToCome, Marked, Segments, vars, memVars,
                    ptrVars, segVars, partVars
<1>2. CASE Script
  <2>1. loading = "no" /\ UNCHANGED <<bufPtr, segVars, currentPartId>>
        /\ loading' # "part"
    BY <1>2 DEF Script, RequestPart, RequestEntry, InvalidateRes, memVars, partVars
  <2>2. \A e \in Entries : state[e] = "LOADED" /\ KeptType(e) => state'[e] = "LOADED"
    BY <1>0, <1>2 DEF Script, RequestPart, RequestEntry, InvalidateRes, TypeOK
  <2> QED  BY <1>0, <1>t, <2>1, <2>2, SegmentsKept DEF RoomForPart
<1>3. CASE SetupPart
  <2>1. CASE SamePart \/ RefusePart
    BY <1>0, <1>t, <1>3, <2>1, SegmentsKept
      DEF SetupPart, SamePart, RefusePart, RoomForPart, memVars, partVars
  <2>2. CASE EnterPart
    <3>1. loading' = "part"
      BY <2>2 DEF EnterPart
    <3> QED  BY <1>0, <2>2, <3>1, EnterRoom DEF SegmentsThere
  <2> QED  BY <1>3, <2>1, <2>2 DEF SetupPart
<1>4. CASE LoadOne
  <2>1. PICK e \in Marked : Drop(e) \/ LoadPicture(e) \/ LoadBlock(e) \/ BankFails(e)
    BY <1>4 DEF LoadOne, NextToLoad
  <2>2. CASE BankFails(e)
    BY <1>0, <2>2 DEF BankFails, RoomForPart, SegmentsThere
  <2>3. CASE loading = "part" /\ ~BankFails(e)
    <3>1. LoadBlock(e)
      BY <1>0, <2>1, <2>3, NoSegmentDropped DEF KeptBelow
    <3>2. RoomForPart'
      BY <1>0, <2>3, <3>1, RoomStays DEF KeptBelow
    <3> QED  BY <1>0, <2>3, <3>1, <3>2 DEF LoadBlock, SegmentsThere
  <2>4. CASE loading = "entry" /\ ~BankFails(e)
    <3>1. \A f \in Entries : state[f] = "LOADED" =>
            state'[f] = "LOADED" /\ bufPtr'[f] = bufPtr[f]
      BY <1>0, <2>1, <2>4 DEF Drop, LoadPicture, LoadBlock, Marked, TypeOK, memVars
    <3>2. UNCHANGED <<segVars, currentPartId>> /\ loading' = "entry"
      BY <2>1, <2>4 DEF Drop, LoadPicture, LoadBlock, partVars
    <3> QED  BY <1>0, <1>t, <2>4, <3>1, <3>2, SegmentsKept DEF RoomForPart
  <2> QED  BY <1>4, <2>2, <2>3, <2>4 DEF LoadOne
<1>5. CASE EntryDone
  BY <1>0, <1>t, <1>5, SegmentsKept DEF EntryDone, RoomForPart, memVars, partVars
<1>6. CASE PartDone
  <2>0. PICK p \in Parts : p = requestedNextPart
    BY <1>0, <1>6 DEF PartDone, KeptBelow
  <2>1. /\ loading = "part" /\ Marked = {} /\ loading' = "no" /\ currentPartId' = p
        /\ UNCHANGED <<state, bufPtr>>
    BY <1>6, <2>0 DEF PartDone, memVars
  <2>2. \A e \in Segments(p) : state[e] = "LOADED"
    BY <2>0, <2>1, Roles DEF RoomForPart, Marked
  <2>3. LET m == MemListParts[p]
        IN  /\ segPalettes' = bufPtr[m.palette] /\ segBytecode' = bufPtr[m.code]
            /\ segCinematic' = bufPtr[m.cinematic]
            /\ m.video2 # MEMLIST_PART_NONE => segVideo2' = bufPtr[m.video2]
    BY <1>6, <2>0 DEF PartDone
  <2> QED  BY <1>0, <2>1, <2>2, <2>3 DEF RoomForPart, SegmentsThere, Segments
<1> QED
  BY <1>1, <1>2, <1>3, <1>4, <1>5, <1>6 DEF Next, Load, ErrorLoop

LEMMA SegmentsWhole ==
  ASSUME PartInv
  PROVE  SegmentsIntact
<1> USE DEF PartInv
<1> SUFFICES ASSUME loading \in {"no", "entry"}, currentPartId # 0
             PROVE  SegmentsIntact
  BY DEF SegmentsIntact
<1>0. PICK p \in Parts : p = currentPartId
  BY DEF MemInv, TypeOK
<1>1. ASSUME NEW e \in Segments(p) PROVE SegmentAt(bufPtr[e], e)
  <2>1. e \in Entries /\ state[e] = "LOADED" /\ KeptType(e)
    BY <1>0, Roles, SegmentsAssumption DEF SegmentsThere
  <2>2. bufPtr[e] + Size[e] <= scriptBakPtr
    BY <2>1 DEF MemInv, KeptBelow
  <2> QED  BY <2>1, <2>2, IntactWhenLoaded DEF SegmentAt, LoadedIntact
<1>2. LET m == MemListParts[p]
      IN  /\ {m.palette, m.code, m.cinematic} \subseteq Segments(p)
          /\ m.video2 # MEMLIST_PART_NONE => m.video2 \in Segments(p)
  BY Roles
<1> QED  BY <1>0, <1>1, <1>2 DEF SegmentsThere, SegmentsIntact

LEMMA InitPart == Init => PartInv
BY InitMem DEF Init, PartInv, RoomForPart, SegmentsThere

\* While a part is played its palettes, bytecode and polygons are where the engine
\* looks for them, whatever its scripts demand and release, for every table of
\* parts that fit in the memory (setupPart, loadPartsOrMemoryEntry, invalidateRes).
THEOREM SegmentsStayIntact == ASSUME PartsFit PROVE Spec => []SegmentsIntact
BY InitPart, SegmentsWhole, StepPart, PTL DEF Spec

-----------------------------------------------------------------------------
(* The block of memory implements ResourceStore.                           *)

\* Of the types that a release keeps, only the segments of the part are there.
OnlySegments ==
  /\ loading = "part" =>
       \A e \in Entries : state[e] # "NOT_NEEDED" => e \in Segments(requestedNextPart)
  /\ loading \in {"no", "entry"} /\ currentPartId # 0 =>
       \A e \in Entries : state[e] = "LOADED" /\ KeptType(e) => e \in Segments(currentPartId)

StoreInv == PartInv /\ OnlySegments

Loaded == {e \in Entries : state[e] = "LOADED"}

LEMMA StoreInit == Init => StoreInv
BY InitPart DEF Init, StoreInv, OnlySegments

LEMMA StepOnly ==
  ASSUME StoreInv, [Next]_vars
  PROVE  OnlySegments'
<1> USE DEF StoreInv, PartInv, MemInv
<1>0. state \in [Entries -> {"NOT_NEEDED", "LOAD_ME", "LOADED"}]
  BY DEF TypeOK
<1>1. CASE UNCHANGED vars
  BY <1>1 DEF OnlySegments, Segments, KeptType, vars, partVars
<1>2. CASE Script
  <2>1. /\ loading = "no" /\ loading' # "part"
        /\ currentPartId' = currentPartId /\ currentPartId # 0
    BY <1>2 DEF Script, RequestPart, RequestEntry, InvalidateRes, partVars
  <2>2. \A e \in Entries : state'[e] = "LOADED" => state[e] = "LOADED"
    BY <1>0, <1>2, DemandAssumption DEF Script, RequestPart, RequestEntry, InvalidateRes
  <2> QED  BY <2>1, <2>2 DEF OnlySegments, Segments, KeptType
<1>3. CASE SetupPart
  <2>1. CASE SamePart \/ RefusePart
    BY <1>3, <2>1 DEF SetupPart, SamePart, RefusePart, OnlySegments, Segments, KeptType, partVars
  <2>2. CASE EnterPart
    BY <2>2 DEF EnterPart, OnlySegments, Segments, partVars
  <2> QED  BY <1>3, <2>1, <2>2 DEF SetupPart
<1>4. CASE LoadOne
  <2>1. PICK e \in Marked : Drop(e) \/ LoadPicture(e) \/ LoadBlock(e) \/ BankFails(e)
    BY <1>4 DEF LoadOne, NextToLoad
  <2>2. CASE BankFails(e)
    BY <2>2 DEF BankFails, OnlySegments
  <2>3. CASE ~BankFails(e)
    <3>1. /\ UNCHANGED <<loading, requestedNextPart, currentPartId>>
          /\ loading \in {"entry", "part"} /\ e \in Entries /\ state[e] = "LOAD_ME"
          /\ \A f \in Entries \ {e} : state'[f] = state[f]
      BY <1>0, <1>4, <2>1, <2>3 DEF LoadOne, Drop, LoadPicture, LoadBlock, partVars, Marked
    <3>2. loading = "entry" => ~KeptType(e)
      BY <2>1, <3>1 DEF KeptBelow
    <3> QED  BY <3>1, <3>2 DEF OnlySegments, Segments, KeptType
  <2> QED  BY <2>2, <2>3
<1>5. CASE EntryDone
  BY <1>5 DEF EntryDone, OnlySegments, Segments, KeptType, partVars
<1>6. CASE PartDone
  BY <1>6 DEF PartDone, OnlySegments, Segments
<1> QED
  BY <1>1, <1>2, <1>3, <1>4, <1>5, <1>6 DEF Next, Load, ErrorLoop

LEMMA StepStoreInv ==
  ASSUME PartsFit, StoreInv, [Next]_vars
  PROVE  StoreInv'
BY StepPart, StepOnly DEF StoreInv

\* What is marked LOADED is what can be read.
ReadableIsLoaded == {e \in Entries : state[e] = "LOADED" /\ Intact(e)} = Loaded

LEMMA ReadableNow == MemInv => ReadableIsLoaded
BY IntactWhenLoaded DEF ReadableIsLoaded, LoadedIntact, Loaded

LEMMA ReadableThen == MemInv' => ReadableIsLoaded'
BY ReadableNow, PTL

\* The part that is played is there with all its segments and, but for what the
\* scripts have demanded, nothing else.
LEMMA LoadedKept ==
  ASSUME StoreInv, loading \in {"no", "entry"}, currentPartId # 0
  PROVE  {e \in Loaded : KeptType(e)} = Segments(currentPartId)
<1>1. currentPartId \in Parts
  BY DEF StoreInv, PartInv, MemInv, TypeOK
<1>2. \A e \in Segments(currentPartId) : e \in Entries /\ KeptType(e)
  BY <1>1, Roles, SegmentsAssumption
<1> QED  BY <1>2 DEF StoreInv, PartInv, SegmentsThere, OnlySegments, Loaded

LEMMA StoreScript ==
  ASSUME StoreInv, MemInv', Script
  PROVE  [RS!Next]_RS!vars
<1> USE DEF partVars
<1>0. /\ MemInv /\ {e \in Entries : state[e] = "LOADED" /\ Intact(e)} = Loaded
      /\ {e \in Entries : state[e] = "LOADED" /\ Intact(e)}' = Loaded'
  BY ReadableNow, ReadableThen DEF ReadableIsLoaded, StoreInv, PartInv
<1>1. CASE \E id \in PartIds : RequestPart(id)
  <2>1. Loaded' = Loaded /\ UNCHANGED currentPartId /\ loading = "no" /\ loading' = "no"
    BY <1>1 DEF RequestPart, Loaded
  <2> QED  BY <1>0, <2>1 DEF RS!vars
<1>2. CASE \E e \in Demanded : RequestEntry(e)
  <2>1. UNCHANGED currentPartId /\ loading = "no" /\ loading' = "entry"
    BY <1>2 DEF RequestEntry
  <2>2. \A e \in Entries : state'[e] = "LOADED" <=> state[e] = "LOADED"
    BY <1>0, <1>2 DEF RequestEntry, MemInv, TypeOK
  <2>3. Loaded' = Loaded
    BY <2>2 DEF Loaded
  <2> QED  BY <1>0, <2>1, <2>3 DEF RS!vars
<1>3. CASE InvalidateRes
  <2>1. UNCHANGED currentPartId /\ loading = "no" /\ loading' = "no" /\ currentPartId # 0
    BY <1>3 DEF Script, InvalidateRes
  <2>2. Loaded' = {e \in Loaded : KeptType(e)}
    BY <1>3 DEF InvalidateRes, Loaded
  <2>3. Loaded' = Segments(currentPartId)
    BY <2>1, <2>2, LoadedKept
  <2>4. RS!Release
    BY <1>0, <2>1, <2>3 DEF RS!Release
  <2> QED  BY <2>4 DEF RS!Next
<1> QED  BY <1>1, <1>2, <1>3 DEF Script

LEMMA StoreSetup ==
  ASSUME StoreInv, MemInv', SetupPart
  PROVE  [RS!Next]_RS!vars
<1> USE DEF partVars
<1>0. /\ MemInv /\ {e \in Entries : state[e] = "LOADED" /\ Intact(e)} = Loaded
      /\ {e \in Entries : state[e] = "LOADED" /\ Intact(e)}' = Loaded'
  BY ReadableNow, ReadableThen DEF ReadableIsLoaded, StoreInv, PartInv
<1>1. CASE SamePart
  <2>1. Loaded' = Loaded /\ UNCHANGED <<currentPartId, loading>> /\ loading = "no"
    BY <1>1 DEF SetupPart, SamePart, Loaded
  <2> QED  BY <1>0, <2>1 DEF RS!vars
<1>2. CASE RefusePart
  <2>1. Loaded' = Loaded /\ UNCHANGED currentPartId /\ loading = "no" /\ loading' = "halted"
    BY <1>2 DEF SetupPart, RefusePart, Loaded
  <2>2. RS!Fail
    BY <1>0, <2>1 DEF RS!Fail
  <2> QED  BY <2>2 DEF RS!Next
<1>3. CASE EnterPart
  <2>0. PICK p \in Parts : p = requestedNextPart /\ p # currentPartId
    BY <1>3 DEF EnterPart
  <2>1. /\ UNCHANGED <<currentPartId, requestedNextPart>>
        /\ loading = "no" /\ loading' = "part"
    BY <1>3 DEF SetupPart, EnterPart
  <2>2. Loaded' = {}
    BY <1>3 DEF EnterPart, Loaded
  <2>3. RS!BeginSwitch(p)
    BY <1>0, <2>0, <2>1, <2>2 DEF RS!BeginSwitch
  <2> QED  BY <2>3 DEF RS!Next
<1> QED  BY <1>1, <1>2, <1>3 DEF SetupPart

LEMMA StoreLoad ==
  ASSUME StoreInv, MemInv', Load
  PROVE  [RS!Next]_RS!vars
<1> USE DEF partVars
<1>0. /\ MemInv /\ {e \in Entries : state[e] = "LOADED" /\ Intact(e)} = Loaded
      /\ {e \in Entries : state[e] = "LOADED" /\ Intact(e)}' = Loaded'
  BY ReadableNow, ReadableThen DEF ReadableIsLoaded, StoreInv, PartInv
<1>t. /\ state \in [Entries -> {"NOT_NEEDED", "LOAD_ME", "LOADED"}]
      /\ loading = "part" => requestedNextPart \in Parts /\ requestedNextPart # 0
  BY <1>0, PartsAssumption DEF MemInv, TypeOK, KeptBelow, Parts
<1>1. CASE LoadOne
  <2>0. loading \in {"entry", "part"}
    BY <1>1 DEF LoadOne
  <2>1. PICK e \in Marked : Drop(e) \/ LoadPicture(e) \/ LoadBlock(e) \/ BankFails(e)
    BY <1>1 DEF LoadOne, NextToLoad
  <2>2. e \in Entries /\ state[e] = "LOAD_ME"
    BY DEF Marked
  <2>3. CASE Drop(e) \/ LoadPicture(e)
    <3>1. /\ UNCHANGED <<currentPartId, requestedNextPart, loading>>
          /\ state' = [state EXCEPT ![e] = "NOT_NEEDED"]
      BY <2>3 DEF Drop, LoadPicture
    <3>2. Loaded' = Loaded
      BY <1>t, <2>2, <3>1 DEF Loaded
    <3> QED  BY <1>0, <3>1, <3>2 DEF RS!vars
  <2>4. CASE LoadBlock(e)
    <3>1. /\ UNCHANGED <<currentPartId, requestedNextPart, loading>>
          /\ state' = [state EXCEPT ![e] = "LOADED"]
      BY <2>4 DEF LoadBlock
    <3>2. Loaded' = Loaded \cup {e}
      BY <1>t, <2>2, <3>1 DEF Loaded
    <3>3. CASE loading = "entry"
      <4>1. RS!Demand(e)
        BY <1>0, <3>1, <3>2, <3>3 DEF RS!Demand
      <4> QED  BY <2>2, <4>1 DEF RS!Next
    <3>4. CASE loading = "part"
      <4>1. e \in Segments(requestedNextPart)
        BY <2>2, <3>4 DEF StoreInv, OnlySegments
      <4>2. RS!Bring(e)
        BY <1>0, <1>t, <3>1, <3>2, <3>4, <4>1 DEF RS!Bring
      <4> QED  BY <2>2, <4>2 DEF RS!Next
    <3> QED  BY <2>0, <3>3, <3>4
  <2>5. CASE BankFails(e)
    <3>1. Loaded' = Loaded /\ UNCHANGED currentPartId /\ loading' = "halted"
      BY <2>5 DEF BankFails, Loaded
    <3>2. RS!Fail
      BY <1>0, <2>0, <3>1 DEF RS!Fail
    <3> QED  BY <3>2 DEF RS!Next
  <2> QED  BY <2>1, <2>3, <2>4, <2>5
<1>2. CASE EntryDone
  <2>1. Loaded' = Loaded /\ UNCHANGED currentPartId /\ loading = "entry" /\ loading' = "no"
    BY <1>2 DEF EntryDone, Loaded
  <2> QED  BY <1>0, <2>1 DEF RS!vars
<1>3. CASE PartDone
  <2>1. /\ loading = "part" /\ Marked = {} /\ loading' = "no"
        /\ currentPartId' = requestedNextPart /\ state' = state
    BY <1>3 DEF PartDone
  <2>2. \A e \in Segments(requestedNextPart) : e \in Entries /\ state[e] = "LOADED"
    BY <1>t, <2>1, Roles DEF StoreInv, PartInv, RoomForPart, Marked
  <2>3. Loaded = Segments(requestedNextPart) /\ Loaded' = Loaded
    BY <2>1, <2>2 DEF StoreInv, OnlySegments, Loaded
  <2>4. RS!EndSwitch
    BY <1>0, <1>t, <2>1, <2>3 DEF RS!EndSwitch
  <2> QED  BY <2>4 DEF RS!Next
<1> QED  BY <1>1, <1>2, <1>3 DEF Load

LEMMA StoreStart == Init => RS!Init
BY DEF Init, RS!Init

LEMMA StoreStep ==
  ASSUME StoreInv, [Next]_vars
  PROVE  [RS!Next]_RS!vars
<1>0. MemInv'
  BY StepMem DEF StoreInv, PartInv
<1>1. CASE UNCHANGED vars
  BY <1>1 DEF vars, memVars, partVars, Intact, Block, RS!vars
<1> QED
  BY <1>0, <1>1, StoreScript, StoreSetup, StoreLoad DEF Next, ErrorLoop

\* What the engine knows of the resource manager is the store: resources become
\* readable one by one and stay so until they are released together, and a part is
\* only played once all of its segments, and nothing else, can be read (loadParts-
\* OrMemoryEntry, loadMarkedAsNeeded, invalidateRes, setupPart).
THEOREM ImplementsStore == ASSUME PartsFit PROVE Spec => ImplementsResourceStore
BY StoreInit, StepStoreInv, StoreStart, StoreStep, PTL
  DEF Spec, ImplementsResourceStore, RS!Spec

-----------------------------------------------------------------------------
(* The game.                                                               *)

\* loadSfxModule calls error(): the one step that is none of the resource manager's.
MusicFails ==
  /\ loading = "no" /\ loading' = "halted"
  /\ UNCHANGED <<state, memVars, ptrVars, segVars, partVars>>

LEMMA GameStep == [GameNext]_gameVars => [Next]_vars \/ MusicFails
<1> SUFFICES ASSUME [GameNext]_gameVars PROVE [Next]_vars \/ MusicFails
  OBVIOUS
<1>1. CASE ReleaseAll \/ UpdateMemList
  BY <1>1 DEF ReleaseAll, UpdateMemList, Running, Next, Script
<1>2. CASE \E m \in Demanded : PlayMusic(m)
  BY <1>2 DEF PlayMusic, Running, MusicFails
<1> QED
  BY <1>1, <1>2
    DEF GameNext, PlaySound, StopMusic, Note, SongEnds, SoundEnds, InitForPart, Loading, SetPalette, UpdateDisplay, ErrorLoop,
        Next, gameVars

LEMMA FailKeeps ==
  ASSUME MemInv, MusicFails
  PROVE  MemInv'
<1>1. BlocksBelow' /\ NoGaps'
  BY SameMemory DEF MusicFails, MemInv, memVars, ptrVars
<1> QED
  BY <1>1
    DEF MusicFails, MemInv, TypeOK, KeptBelow, Marked, Block, memVars, ptrVars, segVars, partVars

\* Until some music is started as it should not be, what is held is LOADED.
HeldLoaded == ~ orphaned => \A e \in Held : e \in Entries /\ state[e] = "LOADED"

GameInv == MemInv /\ HeldLoaded

LEMMA InitGame == GameInit => GameInv
BY InitMem DEF GameInit, GameInv, HeldLoaded, Held

\* loadMarkedAsNeeded takes no entry out of the memory that was loaded before.
LEMMA LoadKeeps ==
  ASSUME MemInv, Load, NEW e \in Entries, state[e] = "LOADED"
  PROVE  state'[e] = "LOADED"
<1>1. CASE LoadOne
  <2>1. PICK f \in Entries :
          NextToLoad(f) /\ (Drop(f) \/ LoadPicture(f) \/ LoadBlock(f) \/ BankFails(f))
    BY <1>1 DEF LoadOne
  <2>2. state[f] = "LOAD_ME"
    BY <2>1 DEF NextToLoad, Marked
  <2>3. state \in [Entries -> {"NOT_NEEDED", "LOAD_ME", "LOADED"}]
    BY DEF MemInv, TypeOK
  <2> QED  BY <2>1, <2>2, <2>3 DEF Drop, LoadPicture, LoadBlock, BankFails
<1>2. CASE EntryDone \/ PartDone
  BY <1>2 DEF EntryDone, PartDone
<1> QED  BY <1>1, <1>2 DEF Load

\* What is held stays LOADED if nothing is released and nothing more is held.
LEMMA NothingMoreHeld ==
  ASSUME HeldLoaded, orphaned' = orphaned, ~ orphaned => Held' \subseteq Held,
         \A e \in Entries : state[e] = "LOADED" => state'[e] = "LOADED"
  PROVE  HeldLoaded'
BY DEF HeldLoaded

LEMMA StepGame ==
  ASSUME GameInv, [GameNext]_gameVars
  PROVE  GameInv'
<1> USE DEF GameInv
<1>1. CASE UNCHANGED gameVars
  BY <1>1, StepMem DEF gameVars, soundVars, HeldLoaded, Held, InPlayer, vars
<1>2. ASSUME NEW s \in Played, PlaySound(s) PROVE GameInv'
  <2>1. MemInv'
    BY <1>2, StepMem DEF PlaySound
  <2>2. s \in Entries
    BY GameAssumption
  <2>3. Held' = Held \cup {s} /\ state' = state /\ orphaned' = orphaned
    BY <1>2 DEF PlaySound, Held, InPlayer, vars
  <2> QED  BY <1>2, <2>1, <2>2, <2>3 DEF PlaySound, HeldLoaded, IsLoaded
<1>3. ASSUME NEW m \in Demanded, PlayMusic(m) PROVE GameInv'
  <2> DEFINE isMusic == Type[m] = RT_MUSIC /\ IsLoaded(m)
  <2>1. m \in Entries
    BY DemandAssumption
  <2>2. CASE isMusic /\ MissesInstrument(m)
    <3>1. MusicFails /\ heard' = heard /\ ticking' = ticking
      BY <1>3, <2>2 DEF PlayMusic, Running, MusicFails
    <3>2. ~ orphaned' => ~ orphaned /\ ~ ticking
      BY <1>3 DEF PlayMusic
    <3>3. HeldLoaded'
      BY <3>1, <3>2 DEF HeldLoaded, Held, MusicFails
    <3> QED  BY <3>1, <3>3, FailKeeps
  <2>3. CASE ~(isMusic /\ MissesInstrument(m))
    <3>1. UNCHANGED vars /\ heard' = heard /\ ticking'
      BY <1>3, <2>3 DEF PlayMusic
    <3>2. MemInv'
      BY <3>1, StepMem
    <3>3. ASSUME ~ orphaned' PROVE \A e \in Held' : e \in Entries /\ state'[e] = "LOADED"
      <4>1. ~ orphaned /\ isMusic /\ sfxMod' = m
        BY <1>3, <3>3 DEF PlayMusic
      <4>2. m \in DOMAIN Instruments /\ m # Nothing
        BY <2>1, <4>1, GameAssumption, EntriesAssumption DEF Entries, Nothing
      <4>3. Held' = heard \cup {m} \cup Instruments[m]
        BY <3>1, <4>1, <4>2 DEF Held, InPlayer
      <4>4. \A s \in Instruments[m] : s \in Entries /\ state[s] = "LOADED"
        BY <2>3, <4>1, <4>2, GameAssumption DEF MissesInstrument, IsLoaded
      <4>5. \A e \in heard : e \in Entries /\ state[e] = "LOADED"
        BY <4>1 DEF HeldLoaded, Held
      <4> QED  BY <2>1, <3>1, <4>1, <4>3, <4>4, <4>5 DEF IsLoaded, vars
    <3> QED  BY <3>2, <3>3 DEF HeldLoaded
  <2> QED  BY <2>2, <2>3
<1>4. CASE \/ StopMusic
           \/ SongEnds
           \/ \E s \in InPlayer(sfxMod) \ {sfxMod} : Note(s)
           \/ \E e \in heard : SoundEnds(e)
  <2>1. UNCHANGED vars /\ sfxMod' = sfxMod /\ orphaned' = orphaned
    BY <1>4 DEF StopMusic, SongEnds, Note, SoundEnds
  <2>2. MemInv'
    BY <2>1, StepMem
  <2>3. ticking' => ticking
    BY <1>4 DEF StopMusic, SongEnds, Note, SoundEnds, StopTimer
  <2>4. heard' \subseteq Held
    BY <1>4 DEF StopMusic, SongEnds, Note, SoundEnds, Held
  <2>5. Held' \subseteq Held
    BY <2>1, <2>3, <2>4 DEF Held, InPlayer
  <2> QED  BY <2>1, <2>2, <2>5, NothingMoreHeld DEF vars
<1>5. CASE ReleaseAll \/ InitForPart
  <2>1. MemInv'
    BY <1>5, StepMem DEF ReleaseAll, InitForPart, Running, Next, Script
  <2>2. orphaned' = orphaned /\ (~ orphaned => Held' = {})
    BY <1>5 DEF ReleaseAll, InitForPart, Silence, StopTimer, Held
  <2> QED  BY <2>1, <2>2 DEF HeldLoaded
<1>6. CASE UpdateMemList
  <2>1. MemInv'
    BY <1>6, StepMem DEF UpdateMemList, Running, Next, Script
  <2>2. state \in [Entries -> {"NOT_NEEDED", "LOAD_ME", "LOADED"}]
    BY DEF MemInv, TypeOK
  <2>3. \A e \in Entries : state[e] = "LOADED" => state'[e] = "LOADED"
    BY <1>6, <2>2, DemandAssumption DEF UpdateMemList, RequestPart, RequestEntry
  <2>4. orphaned' = orphaned /\ Held' = Held
    BY <1>6 DEF UpdateMemList, soundVars, Held, InPlayer
  <2> QED  BY <2>1, <2>3, <2>4, NothingMoreHeld
<1>7. CASE Loading
  <2>1. MemInv'
    BY <1>7, StepMem DEF Loading, Next
  <2>2. \A e \in Entries : state[e] = "LOADED" => state'[e] = "LOADED"
    BY <1>7, LoadKeeps DEF Loading
  <2>3. orphaned' = orphaned /\ Held' = Held
    BY <1>7 DEF Loading, soundVars, Held, InPlayer
  <2> QED  BY <2>1, <2>2, <2>3, NothingMoreHeld
<1>8. CASE \/ \E id \in PaletteIds : SetPalette(id)
           \/ UpdateDisplay
           \/ ErrorLoop /\ UNCHANGED <<soundVars, paletteVars>>
  <2>1. UNCHANGED vars /\ UNCHANGED soundVars
    BY <1>8 DEF SetPalette, UpdateDisplay, ErrorLoop
  <2>2. MemInv'
    BY <2>1, StepMem
  <2>3. orphaned' = orphaned /\ Held' = Held /\ state' = state
    BY <2>1 DEF soundVars, Held, InPlayer, vars
  <2> QED  BY <2>2, <2>3, NothingMoreHeld
<1> QED
  BY <1>1, <1>2, <1>3, <1>4, <1>5, <1>6, <1>7, <1>8 DEF GameNext

\* What the channels and the timer have pointers to is whole in the memory at every
\* moment at which an interrupt may come, for any memlist, any musics and any order of
\* plays, stops, releases and changes of part (initForPart, op_updateMemList,
\* snd_playSound, snd_playMusic), until the scripts start a music while another one
\* plays or without loading it (~ orphaned, in HeldIsIntact).
THEOREM HeldStaysIntact == GameSpec => []HeldIsIntact
<1>1. GameInv => HeldIsIntact
  BY IntactWhenLoaded DEF GameInv, HeldLoaded, HeldIsIntact, IsLoaded, LoadedIntact
<1> QED  BY <1>1, InitGame, StepGame, PTL DEF GameSpec

-----------------------------------------------------------------------------
(* The segments of the part, in the game.                                  *)

LEMMA StepGameStore ==
  ASSUME PartsFit, StoreInv, [GameNext]_gameVars
  PROVE  StoreInv'
<1>1. CASE MusicFails
  <2>1. MemInv'
    BY <1>1, FailKeeps DEF StoreInv, PartInv
  <2> QED
    BY <1>1, <2>1 DEF MusicFails, StoreInv, PartInv, RoomForPart, SegmentsThere, OnlySegments
<1> QED  BY <1>1, GameStep, StepStoreInv

LEMMA GameStoreInv == ASSUME PartsFit PROVE GameSpec => []StoreInv
<1>1. GameInit => StoreInv
  BY StoreInit DEF GameInit
<1> QED  BY <1>1, StepGameStore, PTL DEF GameSpec

\* In the game as a whole, where the player may give up, what the others know of the
\* resource manager is the store (loadPartsOrMemoryEntry, loadMarkedAsNeeded,
\* invalidateRes, setupPart, loadSfxModule).
THEOREM GameImplementsStore == ASSUME PartsFit PROVE GameSpec => ImplementsResourceStore
<1>1. ASSUME StoreInv, [GameNext]_gameVars PROVE [RS!Next]_RS!vars
  <2>1. CASE MusicFails
    <3>1. {e \in Entries : state[e] = "LOADED" /\ Intact(e)}'
            = {e \in Entries : state[e] = "LOADED" /\ Intact(e)}
      BY <2>1 DEF MusicFails, memVars, Intact, Block
    <3>2. RS!Fail
      BY <2>1, <3>1 DEF MusicFails, partVars, RS!Fail
    <3> QED  BY <3>2 DEF RS!Next
  <2> QED  BY <1>1, <2>1, GameStep, StoreStep
<1>2. GameInit => RS!Init
  BY StoreStart DEF GameInit
<1> QED
  BY <1>1, <1>2, GameStoreInv, PTL DEF GameSpec, ImplementsResourceStore, RS!Spec

\* What a segment pointer points to is the first cell of its entry.
LEMMA PalettesThere ==
  ASSUME StoreInv, loading = "no", currentPartId # 0
  PROVE  contents[segPalettes] = MemListParts[currentPartId].palette
<1>0. PICK p \in Parts : p = currentPartId
  BY DEF StoreInv, PartInv, MemInv, TypeOK
<1> DEFINE e == MemListParts[p].palette
<1>1. segPalettes = bufPtr[e] /\ state[e] = "LOADED" /\ e \in Entries
  BY <1>0, Roles DEF StoreInv, PartInv, SegmentsThere
<1>2. Size[e] \in Nat /\ Size[e] > 0
  BY <1>1, EntriesAssumption, GameAssumption
<1>3. bufPtr[e] \in 0 .. MemSize /\ MemSize \in Nat
  BY <1>1, EntriesAssumption DEF StoreInv, PartInv, MemInv, BlocksBelow
<1>4. bufPtr[e] \in Block(e)
  BY <1>2, <1>3 DEF Block
<1>5. contents[bufPtr[e]] = e
  BY <1>1, <1>4 DEF StoreInv, PartInv, MemInv, BlocksBelow
<1> QED  BY <1>0, <1>1, <1>5

\* changePal reads the palettes of the part that is played, also when their number
\* was asked for before the part was changed, and never what a later load has put
\* where other palettes were.
THEOREM ColoursFromPart == ASSUME PartsFit PROVE GameSpec => ColoursOfThePart
<1> DEFINE Ours == colours' # colours => colours' = MemListParts[currentPartId].palette
<1>1. ASSUME StoreInv, [GameNext]_gameVars PROVE Ours
  <2>1. CASE UpdateDisplay
    BY <1>1, <2>1, PalettesThere DEF UpdateDisplay, Running, ChangePal
  <2>2. CASE ~ UpdateDisplay
    BY <1>1, <2>2 DEF GameNext, PlaySound, PlayMusic, StopMusic, Note, SongEnds, SoundEnds,
                      ReleaseAll, UpdateMemList,
                      InitForPart, Loading, SetPalette, ErrorLoop, gameVars, paletteVars
  <2> QED  BY <2>1, <2>2
<1> QED  BY <1>1, GameStoreInv, PTL DEF GameSpec, ColoursOfThePart
=============================================================================
