------------------------------ MODULE Variables ------------------------------
(***************************************************************************)
(* The variables of the scripts: the instructions that compute with them   *)
(* and jump by them (vm.cpp), and those that the engine writes: the music  *)
(* mark in an interrupt, the player's input and the last key once a frame  *)
(* (inp_updatePlayer, and pressed_key in sysImplementation.cpp).           *)
(*                                                                         *)
(* A variable is a signed word (int16_t), here one of 2 * Half; immediate  *)
(* operands are unsigned words and bytes.  There is no program: at every   *)
(* step any instruction may come next.  Left out are the variables that    *)
(* the engine only sets to constants (0xDC, 0xE4, 0xF7), the sound that    *)
(* op_addConst plays at one place of a script, and the scans of the pause  *)
(* loop, which are in FrameLoop.                                           *)
(***************************************************************************)
EXTENDS Integers

CONSTANTS
  Half,         \* 0x8000: half as many as there are words, a power of two
  Targets,      \* the variables that scripts compute with
  Expected,     \* from the variables with the symbols that were entered (0x29 to
                \* 0x2C) to those with the right ones (0x1E to 0x21)
  FirstSymbol,  \* 0x29
  Counters,     \* 0x32, 0x64: what is in them after the protection
  MusMark,      \* VM_VARIABLE_MUS_MARK
  Moves,        \* what op_movConst moves in the scripts: pairs of a variable and a word
  Words, Bytes, \* the immediate operands of the other instructions
  Shifts,       \* the distances of shifts
  Marks,        \* the marks in the musics
  Parts, FirstPart, LastPart,
  Held          \* the sets of buttons that the player can hold

AllWords == 0 .. 2 * Half - 1
Symbols == DOMAIN Expected \cup {Expected[x] : x \in DOMAIN Expected}
Names == Targets \cup {MusMark} \cup Symbols

ASSUME VariablesAssumption ==
  /\ Half \in 1 .. 32768
  /\ Bytes \subseteq Words /\ Words \cup Marks \subseteq AllWords
  /\ Shifts \subseteq 0 .. 31
  /\ MusMark \notin Targets \cup Symbols
  /\ FirstSymbol \in DOMAIN Expected
  /\ \A x \in DOMAIN Expected : Expected[x] \notin DOMAIN Expected
  /\ Symbols \cap DOMAIN Counters = {}
  /\ \A x \in DOMAIN Counters : x \in Names /\ Counters[x] \in 0 .. Half - 1
  /\ Moves \subseteq Names \X AllWords
  /\ {FirstPart, LastPart} \subseteq Parts

VARIABLES
  vmVariables,  \* vmVariables, those of Names
  hero,         \* those that tell of the stick and the button, HERO_...
  lastKeychar,  \* vmVariables[VM_VARIABLE_LAST_KEYCHAR]
  jumped,       \* whether the last instruction was a jump that was taken
  passing,      \* (history) the protection was passed, and no instruction has put
                \* anything into the variables of the symbols since
  part,         \* currentPartId
  stage,        \* "input" or "host"
  scanned,      \* the buttons that were held at the last scan
  lastChar,     \* input.lastChar
  pressed       \* (history) a button was pressed since lastChar was last taken

script == <<vmVariables, jumped, passing>>
keys == <<hero, lastKeychar, scanned, lastChar, pressed>>
vars == <<script, part, stage, keys>>

-----------------------------------------------------------------------------
(* The instructions.                                                       *)

\* The conversion to int16_t, and that to uint16_t.
Signed(n) == ((n + Half) % (2 * Half)) - Half
Unsigned(v) == v % (2 * Half)

\* An instruction puts n into the variable v.
Assign(v, n) ==
  /\ stage = "host"
  /\ vmVariables' = [vmVariables EXCEPT ![v] = Signed(n)]
  /\ jumped' = FALSE
  /\ passing' = (passing /\ v \notin Symbols)
  /\ UNCHANGED <<part, stage, keys>>

MovConst(v, n) == Assign(v, n)
Mov(v, w)      == Assign(v, vmVariables[w])
Add(v, w)      == Assign(v, vmVariables[v] + vmVariables[w])
AddConst(v, n) == Assign(v, vmVariables[v] + Signed(n))
Sub(v, w)      == Assign(v, vmVariables[v] - vmVariables[w])

\* A word as the set of its bits.
WordBits == {i \in 0 .. 15 : 2^i <= Half}
Bits(u) == {i \in WordBits : (u \div 2^i) % 2 = 1}
AssignBits(v, bits) == \E u \in AllWords : Bits(u) = bits /\ Assign(v, u)
AndConst(v, n) == AssignBits(v, Bits(Unsigned(vmVariables[v])) \cap Bits(n))
OrConst(v, n)  == AssignBits(v, Bits(Unsigned(vmVariables[v])) \cup Bits(n))

\* The shifts take the variable without its sign, so that zeros come in at both ends.
Shl(v, n) == AssignBits(v, {i + n : i \in Bits(Unsigned(vmVariables[v]))} \cap WordBits)
Shr(v, n) == AssignBits(v, {i - n : i \in Bits(Unsigned(vmVariables[v]))} \cap WordBits)

\* Mutant: the loop ends when the variable is negative.
Jnz_Positive(v) ==
  /\ stage = "host"
  /\ vmVariables' = [vmVariables EXCEPT ![v] = Signed(@ - 1)]
  /\ jumped' = (vmVariables'[v] > 0)
  /\ passing' = (passing /\ v \notin Symbols)
  /\ UNCHANGED <<part, stage, keys>>

\* op_jnz
Jnz(v) ==
  /\ stage = "host"
  /\ vmVariables' = [vmVariables EXCEPT ![v] = Signed(@ - 1)]
  /\ jumped' = (vmVariables'[v] # 0)
  /\ passing' = (passing /\ v \notin Symbols)
  /\ UNCHANGED <<part, stage, keys>>

\* The second operand of op_condJmp: a variable, a word or a byte.
Operands == [kind : {"variable"}, of : Names]
            \cup [kind : {"word"}, of : Words] \cup [kind : {"byte"}, of : Bytes]

\* Mutant: a word is compared as it is.
Value_Unsigned(o) == IF o.kind = "variable" THEN vmVariables[o.of] ELSE o.of

Value(o) ==
  CASE o.kind = "variable" -> vmVariables[o.of]
    [] o.kind = "word"     -> Signed(o.of)
    [] o.kind = "byte"     -> o.of

\* The low three bits of the instruction; 6 and 7 are invalid, with no more than a
\* warning, and do not jump.
Conditions == {"jz", "jnz", "jg", "jge", "jl", "jle", "invalid"}

Holds(cond, b, a) ==
  \/ cond = "jz" /\ b = a
  \/ cond = "jnz" /\ b # a
  \/ cond = "jg" /\ b > a
  \/ cond = "jge" /\ b >= a
  \/ cond = "jl" /\ b < a
  \/ cond = "jle" /\ b <= a

\* The comparison of the first symbol on the protection screen.
IsProtection(cond, v, o) ==
  cond = "jz" /\ part = FirstPart /\ v = FirstSymbol /\ o.kind = "variable"

\* Mutant: only the symbol that is compared is made right.
CondJmp_OneSymbol(cond, v, o) ==
  /\ stage = "host"
  /\ jumped' = (Holds(cond, vmVariables[v], Value(o)) \/ IsProtection(cond, v, o))
  /\ passing' = (passing \/ IsProtection(cond, v, o))
  /\ vmVariables' =
       IF IsProtection(cond, v, o)
       THEN [x \in Names |-> IF x = v THEN vmVariables[Expected[x]]
                             ELSE IF x \in DOMAIN Counters THEN Counters[x]
                             ELSE vmVariables[x]]
       ELSE vmVariables
  /\ UNCHANGED <<part, stage, keys>>

\* op_condJmp, which lets everybody pass the protection.
CondJmp(cond, v, o) ==
  /\ stage = "host"
  /\ jumped' = (Holds(cond, vmVariables[v], Value(o)) \/ IsProtection(cond, v, o))
  /\ passing' = (passing \/ IsProtection(cond, v, o))
  /\ vmVariables' =
       IF IsProtection(cond, v, o)
       THEN [x \in Names |-> IF x \in DOMAIN Expected THEN vmVariables[Expected[x]]
                             ELSE IF x \in DOMAIN Counters THEN Counters[x]
                             ELSE vmVariables[x]]
       ELSE vmVariables
  /\ UNCHANGED <<part, stage, keys>>

Instruction ==
  \/ \E m \in Moves : MovConst(m[1], m[2])
  \/ \E v \in Targets :
       \/ \E w \in Targets \cup {MusMark} : Mov(v, w) \/ Add(v, w) \/ Sub(v, w)
       \/ \E n \in Words : AddConst(v, n) \/ AndConst(v, n) \/ OrConst(v, n)
       \/ \E n \in Shifts : Shl(v, n) \/ Shr(v, n)
       \/ Jnz(v)
  \/ \E cond \in Conditions, v \in Names, o \in Operands : CondJmp(cond, v, o)

-----------------------------------------------------------------------------
(* The engine and the music.                                               *)

\* handlePattern, in the interrupt.
Mark ==
  /\ \E n \in Marks : vmVariables' = [vmVariables EXCEPT ![MusMark] = Signed(n)]
  /\ UNCHANGED <<jumped, passing, part, stage, keys>>

\* The end of a frame, and a part that was requested in it.
NextFrame ==
  /\ stage = "host"
  /\ part' \in Parts
  /\ stage' = "input"
  /\ UNCHANGED <<script, keys>>

\* pressed_key: the key that a button stands for, the last one tested winning.
KeyOf == << <<"A", 13>>, <<"C_up", 99>>, <<"up", 82>>, <<"down", 81>>, <<"left", 80>>,
           <<"right", 79>>, <<"Start", 112>> >>
KeyAfter(char, down) ==
  LET tested == {i \in DOMAIN KeyOf : KeyOf[i][1] \in down}
  IN IF tested = {} THEN char
     ELSE KeyOf[CHOOSE i \in tested : \A j \in tested : j <= i][2]

\* inp_updatePlayer: the last key.  Upper case is the letter without bit 5.  No button
\* stands for 8, which is also taken.
IsTaken(char) == part = LastPart /\ (char = 0 \/ char \in 97 .. 122)

\* Mutant: the key is not forgotten.
TakeKey_Keeps(char) ==
  /\ lastChar' = char
  /\ lastKeychar' = IF IsTaken(char) THEN char - (char \div 32 % 2) * 32 ELSE lastKeychar

TakeKey(char) ==
  /\ lastChar' = IF IsTaken(char) THEN 0 ELSE char
  /\ lastKeychar' = IF IsTaken(char) THEN char - (char \div 32 % 2) * 32 ELSE lastKeychar

\* inp_updatePlayer: what it makes of the stick and of the button.
HeroOf(held) ==
  LET On(b, n) == IF b \in held THEN n ELSE 0
      mask == On("right", 1) + On("left", 2) + On("down", 4) + On("up", 8)
      upDown == IF "up" \in held THEN -1 ELSE On("down", 1)
  IN [HERO_POS_UP_DOWN |-> upDown, HERO_POS_JUMP_DOWN |-> upDown,
      HERO_POS_LEFT_RIGHT |-> IF "left" \in held THEN -1 ELSE On("right", 1),
      HERO_POS_MASK |-> mask, HERO_ACTION |-> On("A", 1), HERO_ACTION_POS_MASK |-> mask + On("A", 128)]

UpdatePlayer(held) ==
  LET down == held \ scanned
      char == KeyAfter(lastChar, down)
  IN
  /\ stage = "input"
  /\ scanned' = held
  /\ TakeKey(char)
  /\ pressed' = (~ IsTaken(char) /\ (pressed \/ down # {}))
  /\ hero' = HeroOf(held)
  /\ stage' = "host"
  /\ UNCHANGED <<script, part>>

Init ==
  /\ vmVariables = [v \in Names |-> 0]
  /\ hero = HeroOf({}) /\ lastKeychar = 0
  /\ jumped = FALSE /\ passing = FALSE
  /\ part = FirstPart /\ stage = "input"
  /\ scanned = {} /\ lastChar = 0 /\ pressed = FALSE

Next == Instruction \/ Mark \/ NextFrame \/ \E held \in Held : UpdatePlayer(held)

Spec == Init /\ [][Next]_vars

-----------------------------------------------------------------------------

\* How often a loop is run that ends in an op_jnz on a variable with that value.
Turns(v) == IF v = 0 THEN 2 * Half ELSE Unsigned(v)

\* op_jnz: a loop is run as often as its counter says, without its sign, and one
\* whose counter is 0 as often as there are words.
LoopsEnd ==
  [][\A v \in Targets :
       Jnz(v) => IF jumped' THEN Turns(vmVariables'[v]) = Turns(vmVariables[v]) - 1
                 ELSE Turns(vmVariables[v]) = 1]_vars

\* The order of words with a sign: that of the words with the highest bit inverted.
Below(u, n) == (u + Half) % (2 * Half) < (n + Half) % (2 * Half)

\* op_condJmp: an immediate word is compared as a number with a sign, and the six
\* conditions are those of one order.
JumpsFollowOrder ==
  \A v \in Targets, n \in Words, cond \in Conditions :
    LET u == Unsigned(vmVariables[v]) IN
    Holds(cond, vmVariables[v], Value([kind |-> "word", of |-> n])) <=>
      \/ cond \in {"jl", "jle", "jnz"} /\ Below(u, n)
      \/ cond \in {"jg", "jge", "jnz"} /\ Below(n, u)
      \/ cond \in {"jz", "jle", "jge"} /\ u = n

\* op_condJmp: whoever has entered whatever on the protection screen passes: once
\* the first symbol has been looked at, each comparison of a symbol with the right one
\* jumps, in whatever order, in whatever frame and part they come, and whatever the
\* scripts and the musics do meanwhile but put something else into those variables.
ProtectionPasses ==
  [][\A y \in DOMAIN Expected :
       passing /\ CondJmp("jz", y, [kind |-> "variable", of |-> Expected[y]]) => jumped']_vars

\* inp_updatePlayer, pressed_key: on the screen of codes a letter is there for one
\* frame, unless something is pressed meanwhile: it is not taken twice.
LettersGo ==
  [][/\ stage = "input" /\ stage' = "host"
     /\ part = LastPart /\ ~ pressed /\ scanned' \subseteq scanned
     => lastKeychar' = 0]_vars

=============================================================================
