--------------------------- MODULE VariablesProofs ---------------------------
(***************************************************************************)
(* Theorems about the variables of the scripts: for words of any size up   *)
(* to 16 bits and any operands, musics and input.                          *)
(***************************************************************************)
EXTENDS Variables, TLAPS

Values == -Half .. Half - 1

LEMMA HalfType == Half \in Nat \ {0} /\ Half <= 32768
BY VariablesAssumption

LEMMA SignedRange == ASSUME NEW n \in Int PROVE Signed(n) \in Values
<1>1. (n + Half) % (2 * Half) \in 0 .. 2 * Half - 1
  BY HalfType
<1> QED  BY <1>1, HalfType DEF Signed, Values

LEMMA SignedOfWord ==
  ASSUME NEW n \in AllWords
  PROVE  Signed(n) = IF n < Half THEN n ELSE n - 2 * Half
<1>1. n \in Nat /\ n < 2 * Half
  BY HalfType DEF AllWords
<1>2. CASE n < Half
  <2>1. (n + Half) % (2 * Half) = n + Half
    BY <1>1, <1>2, HalfType
  <2> QED  BY <1>1, <1>2, <2>1, HalfType DEF Signed
<1>3. CASE n >= Half
  <2>1. (n + Half) % (2 * Half) = n + Half - 2 * Half
    BY <1>1, <1>3, HalfType
  <2> QED  BY <1>1, <1>3, <2>1, HalfType DEF Signed
<1> QED  BY <1>1, <1>2, <1>3, HalfType

LEMMA UnsignedOfValue ==
  ASSUME NEW v \in Values
  PROVE  /\ Unsigned(v) = IF v < 0 THEN v + 2 * Half ELSE v
         /\ Unsigned(v) \in AllWords
<1>1. v \in Int /\ -Half <= v /\ v < Half
  BY HalfType DEF Values
<1>2. Unsigned(v) = IF v < 0 THEN v + 2 * Half ELSE v
  <2>1. CASE v < 0
    BY <1>1, <2>1, HalfType DEF Unsigned
  <2>2. CASE v >= 0
    BY <1>1, <2>2, HalfType DEF Unsigned
  <2> QED  BY <1>1, <2>1, <2>2
<1> QED  BY <1>1, <1>2, HalfType DEF AllWords

\* Counting down goes from the least value to the greatest.
LEMMA SignedOfPrevious ==
  ASSUME NEW v \in Values
  PROVE  Signed(v - 1) = IF v = -Half THEN Half - 1 ELSE v - 1
<1>1. v \in Int /\ -Half <= v /\ v < Half
  BY HalfType DEF Values
<1>2. CASE v = -Half
  <2>1. (v - 1 + Half) % (2 * Half) = 2 * Half - 1
    BY <1>2, HalfType
  <2> QED  BY <1>2, <2>1, HalfType DEF Signed
<1>3. CASE v # -Half
  <2>1. (v - 1 + Half) % (2 * Half) = v - 1 + Half
    BY <1>1, <1>3, HalfType
  <2> QED  BY <1>1, <1>3, <2>1, HalfType DEF Signed
<1> QED  BY <1>2, <1>3

LEMMA NamesOf ==
  /\ Targets \subseteq Names /\ MusMark \in Names
  /\ DOMAIN Expected \subseteq Names
  /\ \A x \in DOMAIN Expected : Expected[x] \in Names
BY DEF Names, Symbols

\* What the proofs need of a state.
VariablesInv ==
  /\ vmVariables \in [Names -> Values]
  /\ ~ pressed => lastChar = 0

LEMMA AssignKeeps ==
  ASSUME VariablesInv, NEW v \in Names, NEW n \in Int, Assign(v, n)
  PROVE  VariablesInv'
<1>1. Signed(n) \in Values
  BY SignedRange
<1> QED  BY <1>1 DEF Assign, VariablesInv, keys, Values

LEMMA AssignBitsKeeps ==
  ASSUME VariablesInv, NEW v \in Names, NEW bits, AssignBits(v, bits)
  PROVE  VariablesInv'
<1>1. PICK u \in AllWords : Assign(v, u)
  BY DEF AssignBits
<1> QED  BY <1>1, AssignKeeps, HalfType DEF AllWords

LEMMA InstructionKeeps == VariablesInv /\ Instruction => VariablesInv'
<1> SUFFICES ASSUME VariablesInv, Instruction PROVE VariablesInv'
  OBVIOUS
<1>1. ASSUME NEW x \in Names PROVE vmVariables[x] \in Int
  BY <1>1, HalfType DEF VariablesInv, Values
<1>2. ASSUME NEW m \in Moves, MovConst(m[1], m[2])  PROVE VariablesInv'
  <2>1. m[1] \in Names /\ m[2] \in Int
    BY VariablesAssumption, HalfType DEF AllWords
  <2> QED  BY <1>2, <2>1, AssignKeeps DEF MovConst
<1>3. ASSUME NEW v \in Targets, NEW w \in Targets \cup {MusMark},
             Mov(v, w) \/ Add(v, w) \/ Sub(v, w)
      PROVE  VariablesInv'
  <2>1. v \in Names /\ w \in Names
    BY NamesOf
  <2>2. /\ vmVariables[w] \in Int
        /\ vmVariables[v] + vmVariables[w] \in Int
        /\ vmVariables[v] - vmVariables[w] \in Int
    BY <1>1, <2>1
  <2> QED  BY <1>3, <2>1, <2>2, AssignKeeps DEF Mov, Add, Sub
<1>4. ASSUME NEW v \in Targets, NEW n \in Words, AddConst(v, n) \/ AndConst(v, n) \/ OrConst(v, n)
      PROVE  VariablesInv'
  <2>1. v \in Names /\ n \in Int
    BY NamesOf, VariablesAssumption, HalfType DEF AllWords
  <2>2. vmVariables[v] + Signed(n) \in Int
    BY <1>1, <2>1, SignedRange, HalfType DEF Values
  <2> QED  BY <1>4, <2>1, <2>2, AssignKeeps, AssignBitsKeeps DEF AddConst, AndConst, OrConst
<1>5. ASSUME NEW v \in Targets, NEW n \in Shifts, Shl(v, n) \/ Shr(v, n)
      PROVE  VariablesInv'
  BY <1>5, NamesOf, AssignBitsKeeps DEF Shl, Shr
<1>6. ASSUME NEW v \in Targets, Jnz(v)  PROVE VariablesInv'
  <2>1. v \in Names /\ vmVariables[v] - 1 \in Int
    BY <1>1, NamesOf
  <2>2. Signed(vmVariables[v] - 1) \in Values
    BY <2>1, SignedRange
  <2> QED  BY <1>6, <2>1, <2>2 DEF Jnz, VariablesInv, keys, Values
<1>7. ASSUME NEW cond \in Conditions, NEW v \in Names, NEW o \in Operands, CondJmp(cond, v, o)
      PROVE  VariablesInv'
  <2>1. \A x \in DOMAIN Counters : Counters[x] \in Values
    BY VariablesAssumption, HalfType DEF Values
  <2>2. vmVariables' \in [Names -> Values]
    BY <1>7, <2>1, NamesOf DEF CondJmp, VariablesInv
  <2> QED  BY <1>7, <2>2 DEF CondJmp, VariablesInv, keys, Values
<1> QED  BY <1>2, <1>3, <1>4, <1>5, <1>6, <1>7 DEF Instruction

LEMMA VariablesInvInit == Init => VariablesInv
BY HalfType DEF Init, VariablesInv, Values

\* A key is only in lastChar if something was pressed since it was last taken.
LEMMA UpdateKeeps ==
  ASSUME VariablesInv, NEW held, UpdatePlayer(held)
  PROVE  VariablesInv'
<1>1. vmVariables' = vmVariables
  BY DEF UpdatePlayer, script
<1>2. ASSUME ~ pressed' PROVE lastChar' = 0
  <2> DEFINE down == held \ scanned
             char == KeyAfter(lastChar, down)
  <2>1. /\ lastChar' = IF IsTaken(char) THEN 0 ELSE char
        /\ IsTaken(char) \/ (~ pressed /\ down = {})
    BY <1>2 DEF UpdatePlayer, TakeKey
  <2>2. CASE IsTaken(char)
    BY <2>1, <2>2
  <2>3. CASE ~ IsTaken(char)
    <3>1. lastChar = 0 /\ down = {}
      BY <2>1, <2>3 DEF VariablesInv
    <3>2. char = lastChar
      BY <3>1 DEF KeyAfter
    <3> QED  BY <2>1, <2>3, <3>1, <3>2
  <2> QED  BY <2>2, <2>3
<1> QED  BY <1>1, <1>2 DEF VariablesInv, Values

LEMMA VariablesInvNext == VariablesInv /\ [Next]_vars => VariablesInv'
<1> SUFFICES ASSUME VariablesInv, [Next]_vars PROVE VariablesInv'
  OBVIOUS
<1>1. CASE Mark
  <2>1. PICK n \in Marks : vmVariables' = [vmVariables EXCEPT ![MusMark] = Signed(n)]
    BY <1>1 DEF Mark
  <2>2. Signed(n) \in Values
    BY SignedRange, VariablesAssumption, HalfType DEF AllWords
  <2> QED  BY <1>1, <2>1, <2>2 DEF Mark, VariablesInv, keys, Values
<1>2. CASE NextFrame \/ UNCHANGED vars
  BY <1>2 DEF NextFrame, vars, script, keys, VariablesInv, Values
<1> QED  BY <1>1, <1>2, InstructionKeeps, UpdateKeeps DEF Next

-----------------------------------------------------------------------------
(* Loops and jumps.                                                        *)

LEMMA TurnsDown ==
  ASSUME NEW v \in Values
  PROVE  LET next == Signed(v - 1)
         IN  IF next # 0 THEN Turns(next) = Turns(v) - 1 ELSE Turns(v) = 1
<1> DEFINE next == Signed(v - 1)
<1>1. v \in Int /\ -Half <= v /\ v < Half
  BY HalfType DEF Values
<1>2. next = IF v = -Half THEN Half - 1 ELSE v - 1
  BY SignedOfPrevious
<1>3. next \in Values
  BY <1>1, <1>2, HalfType DEF Values
<1>4. /\ Turns(v) = IF v = 0 THEN 2 * Half ELSE IF v < 0 THEN v + 2 * Half ELSE v
      /\ Turns(next) = IF next = 0 THEN 2 * Half ELSE IF next < 0 THEN next + 2 * Half ELSE next
  BY <1>3, UnsignedOfValue DEF Turns
<1> HIDE DEF next
<1> QED  BY <1>1, <1>2, <1>4, HalfType DEF next

\* op_jnz: a loop runs as often as its counter says, without its sign, and one whose
\* counter is 0 as often as there are words (LoopsEnd), for words of any size.
THEOREM LoopsRunAsCounted == Spec => LoopsEnd
<1>1. ASSUME VariablesInv, NEW v \in Targets, Jnz(v)
      PROVE  IF jumped' THEN Turns(vmVariables'[v]) = Turns(vmVariables[v]) - 1
             ELSE Turns(vmVariables[v]) = 1
  <2>1. vmVariables[v] \in Values /\ vmVariables'[v] = Signed(vmVariables[v] - 1)
    BY <1>1, NamesOf DEF VariablesInv, Jnz
  <2>2. jumped' <=> vmVariables'[v] # 0
    BY <1>1 DEF Jnz
  <2> QED  BY <2>1, <2>2, TurnsDown
<1>2. VariablesInv => [\A v \in Targets :
                         Jnz(v) => IF jumped' THEN Turns(vmVariables'[v]) = Turns(vmVariables[v]) - 1
                                   ELSE Turns(vmVariables[v]) = 1]_vars
  BY <1>1
<1> QED  BY <1>2, VariablesInvInit, VariablesInvNext, PTL DEF Spec, LoopsEnd

\* The order of the values is that of Below on their words.
LEMMA OrderOfWords ==
  ASSUME NEW v \in Values, NEW n \in AllWords
  PROVE  /\ v < Signed(n) <=> Below(Unsigned(v), n)
         /\ v > Signed(n) <=> Below(n, Unsigned(v))
         /\ v = Signed(n) <=> Unsigned(v) = n
         /\ v \in Int /\ Signed(n) \in Int
<1>1. v \in Int /\ -Half <= v /\ v < Half /\ n \in Nat /\ n < 2 * Half
  BY HalfType DEF Values, AllWords
<1>2. Signed(n) = ((n + Half) % (2 * Half)) - Half
  BY DEF Signed
<1>3. Signed(n) = IF n < Half THEN n ELSE n - 2 * Half
  BY SignedOfWord
<1>4. /\ Unsigned(v) = IF v < 0 THEN v + 2 * Half ELSE v
      /\ Unsigned(v) \in AllWords
  BY UnsignedOfValue
<1>5. Signed(Unsigned(v)) = v
  BY <1>1, <1>4, SignedOfWord, HalfType
<1>6. Signed(Unsigned(v)) = ((Unsigned(v) + Half) % (2 * Half)) - Half
  BY DEF Signed
<1>7. (n + Half) % (2 * Half) \in Int /\ (Unsigned(v) + Half) % (2 * Half) \in Int
  BY <1>1, <1>4, HalfType DEF AllWords
<1>8. Below(Unsigned(v), n) <=> v < Signed(n)
  BY <1>1, <1>2, <1>5, <1>6, <1>7, HalfType DEF Below
<1>9. Below(n, Unsigned(v)) <=> Signed(n) < v
  BY <1>1, <1>2, <1>5, <1>6, <1>7, HalfType DEF Below
<1>10. v = Signed(n) <=> Unsigned(v) = n
  BY <1>1, <1>3, <1>4, <1>5, HalfType
<1> QED  BY <1>1, <1>3, <1>8, <1>9, <1>10, HalfType

\* op_condJmp: whatever is in the variables, the six conditions with an immediate word
\* are those of one order of the words (JumpsFollowOrder).
THEOREM JumpsKeepOrder == Spec => []JumpsFollowOrder
<1>1. ASSUME VariablesInv, NEW v \in Targets, NEW n \in Words, NEW cond \in Conditions
      PROVE  LET u == Unsigned(vmVariables[v]) IN
             Holds(cond, vmVariables[v], Value([kind |-> "word", of |-> n])) <=>
               \/ cond \in {"jl", "jle", "jnz"} /\ Below(u, n)
               \/ cond \in {"jg", "jge", "jnz"} /\ Below(n, u)
               \/ cond \in {"jz", "jle", "jge"} /\ u = n
  <2> DEFINE x == vmVariables[v]
             u == Unsigned(x)
             a == Signed(n)
  <2>1. x \in Values /\ n \in AllWords
    BY <1>1, NamesOf, VariablesAssumption DEF VariablesInv
  <2>2. Value([kind |-> "word", of |-> n]) = a
    BY DEF Value
  <2>3. /\ x < a <=> Below(u, n)
        /\ x > a <=> Below(n, u)
        /\ x = a <=> u = n
        /\ x \in Int /\ a \in Int
    BY <2>1, OrderOfWords
  <2> HIDE DEF x, u, a
  <2>4. /\ x <= a <=> Below(u, n) \/ u = n
        /\ x >= a <=> Below(n, u) \/ u = n
        /\ x # a <=> Below(u, n) \/ Below(n, u)
    BY <2>3
  <2>5. Holds(cond, x, a) <=>
          \/ cond \in {"jl", "jle", "jnz"} /\ Below(u, n)
          \/ cond \in {"jg", "jge", "jnz"} /\ Below(n, u)
          \/ cond \in {"jz", "jle", "jge"} /\ u = n
    BY <2>3, <2>4 DEF Holds, Conditions
  <2> QED  BY <2>2, <2>5 DEF x, u
<1>2. VariablesInv => JumpsFollowOrder
  BY <1>1 DEF JumpsFollowOrder
<1> QED  BY <1>2, VariablesInvInit, VariablesInvNext, PTL DEF Spec

(***************************************************************************)
(* The protection.  What has been copied stays equal to what it was copied *)
(* from until an instruction writes one of the two.                        *)
(***************************************************************************)
PassingInv == passing => \A y \in DOMAIN Expected : vmVariables[y] = vmVariables[Expected[y]]

LEMMA SymbolsOf ==
  ASSUME NEW y \in DOMAIN Expected
  PROVE  /\ y \in Symbols /\ Expected[y] \in Symbols
         /\ y \in Names /\ Expected[y] \in Names
         /\ y # MusMark /\ Expected[y] # MusMark
BY VariablesAssumption DEF Symbols, Names

LEMMA AssignPasses ==
  ASSUME VariablesInv, PassingInv, NEW v, NEW n,
         vmVariables' = [vmVariables EXCEPT ![v] = n],
         passing' => passing /\ v \notin Symbols
  PROVE  PassingInv'
<1> SUFFICES ASSUME passing', NEW y \in DOMAIN Expected
             PROVE  vmVariables'[y] = vmVariables'[Expected[y]]
  BY DEF PassingInv
<1>1. y # v /\ Expected[y] # v
  BY SymbolsOf
<1>2. vmVariables'[y] = vmVariables[y] /\ vmVariables'[Expected[y]] = vmVariables[Expected[y]]
  BY <1>1, SymbolsOf DEF VariablesInv
<1> QED  BY <1>2 DEF PassingInv

LEMMA ProtectionCopies ==
  ASSUME VariablesInv, PassingInv, NEW cond, NEW v, NEW o, CondJmp(cond, v, o)
  PROVE  PassingInv'
<1>1. CASE IsProtection(cond, v, o)
  <2> SUFFICES ASSUME NEW y \in DOMAIN Expected
               PROVE  vmVariables'[y] = vmVariables'[Expected[y]]
    BY DEF PassingInv
  <2>1. vmVariables' = [x \in Names |-> IF x \in DOMAIN Expected THEN vmVariables[Expected[x]]
                                        ELSE IF x \in DOMAIN Counters THEN Counters[x]
                                        ELSE vmVariables[x]]
    BY <1>1 DEF CondJmp
  <2>2. Expected[y] \notin DOMAIN Expected /\ Expected[y] \notin DOMAIN Counters
    BY SymbolsOf, VariablesAssumption
  <2>3. vmVariables'[y] = vmVariables[Expected[y]]
    BY <2>1, SymbolsOf
  <2>4. vmVariables'[Expected[y]] = vmVariables[Expected[y]]
    BY <2>1, <2>2, SymbolsOf
  <2> QED  BY <2>3, <2>4
<1>2. CASE ~ IsProtection(cond, v, o)
  BY <1>2 DEF CondJmp, PassingInv
<1> QED  BY <1>1, <1>2

LEMMA PassingNext == VariablesInv /\ PassingInv /\ [Next]_vars => PassingInv'
<1> SUFFICES ASSUME VariablesInv, PassingInv, [Next]_vars PROVE PassingInv'
  OBVIOUS
<1>1. ASSUME NEW v, NEW n, Assign(v, n)  PROVE PassingInv'
  BY <1>1, AssignPasses DEF Assign
<1>2. ASSUME NEW v, NEW bits, AssignBits(v, bits)  PROVE PassingInv'
  BY <1>1, <1>2 DEF AssignBits
<1>3. ASSUME NEW v, Jnz(v)  PROVE PassingInv'
  <2>1. vmVariables' = [vmVariables EXCEPT ![v] = Signed(vmVariables[v] - 1)]
    BY <1>3 DEF Jnz
  <2>2. passing' => passing /\ v \notin Symbols
    BY <1>3 DEF Jnz
  <2> QED  BY <2>1, <2>2, AssignPasses
<1>4. CASE Instruction
  BY <1>1, <1>2, <1>3, <1>4, ProtectionCopies
     DEF Instruction, MovConst, Mov, Add, AddConst, Sub, AndConst, OrConst, Shl, Shr
<1>5. CASE Mark
  <2>1. PICK n \in Marks : vmVariables' = [vmVariables EXCEPT ![MusMark] = Signed(n)]
    BY <1>5 DEF Mark
  <2>2. MusMark \notin Symbols /\ passing' = passing
    BY <1>5, VariablesAssumption DEF Mark
  <2> QED  BY <2>1, <2>2, AssignPasses
<1>6. CASE NextFrame \/ (\E held \in Held : UpdatePlayer(held)) \/ UNCHANGED vars
  BY <1>6 DEF NextFrame, UpdatePlayer, vars, script, PassingInv
<1> QED  BY <1>4, <1>5, <1>6 DEF Next

\* op_condJmp: whoever has entered whatever passes: once the first symbol has been
\* looked at, every comparison of a symbol with the right one jumps, over any frames,
\* parts, music marks and instructions that leave the symbols alone
\* (ProtectionPasses), for words of any size and any number of symbols.
THEOREM EverybodyPasses == Spec => ProtectionPasses
<1>1. ASSUME PassingInv, NEW y \in DOMAIN Expected, passing,
             CondJmp("jz", y, [kind |-> "variable", of |-> Expected[y]])
      PROVE  jumped'
  <2>1. Value([kind |-> "variable", of |-> Expected[y]]) = vmVariables[Expected[y]]
    BY DEF Value
  <2>2. vmVariables[y] = vmVariables[Expected[y]]
    BY <1>1 DEF PassingInv
  <2> QED  BY <1>1, <2>1, <2>2 DEF CondJmp, Holds
<1>2. PassingInv =>
        [\A y \in DOMAIN Expected :
           passing /\ CondJmp("jz", y, [kind |-> "variable", of |-> Expected[y]]) => jumped']_vars
  BY <1>1
<1>3. Init => PassingInv
  BY DEF Init, PassingInv
<1> QED  BY <1>2, <1>3, PassingNext, VariablesInvInit, VariablesInvNext, PTL
         DEF Spec, ProtectionPasses

\* inp_updatePlayer, pressed_key: on the screen of codes no letter is taken twice
\* (LettersGo), for any buttons and whatever the scripts do meanwhile.
THEOREM LettersComeOnce == Spec => LettersGo
<1>1. ASSUME VariablesInv, Next, stage = "input", stage' = "host", part = LastPart,
             ~ pressed, scanned' \subseteq scanned
      PROVE  lastKeychar' = 0
  <2>1. PICK held \in Held : UpdatePlayer(held)
    BY <1>1 DEF Next, Instruction, MovConst, Mov, Add, AddConst, Sub, AndConst, OrConst, Shl,
                Shr, AssignBits, Assign, Jnz, CondJmp, Mark, NextFrame
  <2>2. held \ scanned = {} /\ lastChar = 0
    BY <1>1, <2>1 DEF UpdatePlayer, VariablesInv
  <2>3. KeyAfter(lastChar, held \ scanned) = 0
    BY <2>2 DEF KeyAfter
  <2>4. IsTaken(0)
    BY <1>1 DEF IsTaken
  <2>5. TakeKey(0)
    BY <2>1, <2>3 DEF UpdatePlayer
  <2> QED  BY <2>4, <2>5 DEF TakeKey
<1>2. VariablesInv /\ [Next]_vars =>
        [/\ stage = "input" /\ stage' = "host"
         /\ part = LastPart /\ ~ pressed /\ scanned' \subseteq scanned
         => lastKeychar' = 0]_vars
  BY <1>1
<1> QED  BY <1>2, VariablesInvInit, VariablesInvNext, PTL DEF Spec, LettersGo
=============================================================================
