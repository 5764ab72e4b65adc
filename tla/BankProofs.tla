----------------------------- MODULE BankProofs -----------------------------
(* Of the reader of the banks: that the bits of a word come in order,      *)
(* whatever is in the memory; and that the resources that are packed as    *)
(* the format says are unpacked in place, to the bytes that are meant, and *)
(* that this comes to an end.                                              *)
EXTENDS BankFormat, FiniteSetTheorems, TLAPS

\* A word that is not the first one, of which some bits have been taken, with the
\* one behind them.
Remaining(w, n) == {k - n : k \in {k \in w : k >= n}} \cup {32 - n}

Later == iBuf + 4 < me.packedSize - 12

BitsInv ==
  Unpacking /\ Later =>
    taken \in 0 .. 32 /\ word \subseteq Word /\ chk = Remaining(word, taken)

\* rcr on what remains of a word, until the one behind its bits is all there is.
LEMMA RcrRemaining ==
  ASSUME NEW w \in SUBSET Word, NEW n \in 0 .. 32, Rcr(Remaining(w, n), FALSE) # {}
  PROVE  n + 1 \in 0 .. 32 /\ Rcr(Remaining(w, n), FALSE) = Remaining(w, n + 1)
<1> USE DEF Remaining, Rcr, Word
<1>1. n # 32
  <2>1. ASSUME n = 32  PROVE Remaining(w, n) = {0}
    BY <2>1
  <2>2. QED
    BY <2>1
<1>2. ASSUME NEW i \in Rcr(Remaining(w, n), FALSE)  PROVE i \in Remaining(w, n + 1)
  <2>1. PICK k \in Remaining(w, n) : k # 0 /\ i = k - 1
    BY <1>2
  <2>2. QED
    BY <2>1
<1>3. ASSUME NEW i \in Remaining(w, n + 1)  PROVE i \in Rcr(Remaining(w, n), FALSE)
  <2>1. i + 1 \in Remaining(w, n) /\ i + 1 # 0
    BY <1>1
  <2>2. i = (i + 1) - 1
    BY <1>1
  <2>3. QED
    BY <2>1, <2>2
<1>4. QED
  BY <1>1, <1>2, <1>3

\* rcr on a new word.
LEMMA RcrNew ==
  ASSUME NEW w \in SUBSET Word  PROVE Rcr(w, TRUE) = Remaining(w, 1)
<1> USE DEF Remaining, Rcr, Word
<1>1. ASSUME NEW i \in Rcr(w, TRUE)  PROVE i \in Remaining(w, 1)
  OBVIOUS
<1>2. ASSUME NEW i \in Remaining(w, 1)  PROVE i \in Rcr(w, TRUE)
  OBVIOUS
<1>3. QED
  BY <1>1, <1>2

LEMMA BitsStep == BitsInv /\ [Next]_vars => BitsInv'
<1> SUFFICES ASSUME BitsInv, [Next]_vars  PROVE BitsInv'
  OBVIOUS
<1>1. CASE NextChunk
  <2>1. UNCHANGED <<me, stage>>
    BY <1>1 DEF NextChunk
  <2>2. CASE Rcr(chk, FALSE) # {}
    <3>1. chk' = Rcr(chk, FALSE) /\ taken' = taken + 1 /\ UNCHANGED <<iBuf, word>>
      BY <1>1, <2>2 DEF NextChunk
    <3>2. SUFFICES ASSUME Unpacking, Later
                   PROVE  taken' \in 0 .. 32 /\ word' \subseteq Word /\ chk' = Remaining(word', taken')
      BY <2>1, <3>1 DEF BitsInv, Unpacking, Later
    <3>3. taken \in 0 .. 32 /\ word \in SUBSET Word /\ chk = Remaining(word, taken)
      BY <3>2 DEF BitsInv
    <3>4. taken + 1 \in 0 .. 32 /\ Rcr(chk, FALSE) = Remaining(word, taken + 1)
      BY <2>2, <3>3, RcrRemaining
    <3>5. QED
      BY <3>1, <3>3, <3>4
  <2>3. CASE Rcr(chk, FALSE) = {}
    <3>1. WordAt(mem, iBuf) \subseteq Word
      BY DEF WordAt
    <3>2. word' = WordAt(mem, iBuf) /\ chk' = Rcr(word', TRUE) /\ taken' = 1
      BY <1>1, <2>3 DEF NextChunk
    <3>3. chk' = Remaining(word', taken')
      BY <3>1, <3>2, RcrNew
    <3>4. taken' \in 0 .. 32 /\ word' \subseteq Word
      BY <3>1, <3>2
    <3>5. QED
      BY <3>3, <3>4 DEF BitsInv
  <2>4. QED
    BY <2>2, <2>3
<1>2. CASE Header \/ Literals \/ Literal \/ Copy \/ CopyByte
  <2>1. UNCHANGED <<me, iBuf, chk, word, taken>> /\ Unpacking
    BY <1>2 DEF Header, Literals, Literal, Copy, CopyByte, bits, unpCtx, Unpacking, GetCode
  <2>2. QED
    BY <2>1 DEF BitsInv, Later
<1>3. CASE \E f \in Files : Read(f)
  <2>1. PICK f \in Files : Read(f)
    BY <1>3
  <2>2. CASE f.packedSize = f.size
    BY <2>1, <2>2 DEF Read, BitsInv, Unpacking
  <2>3. CASE f.packedSize # f.size
    <3>1. me' = f /\ iBuf' = f.packedSize - 4 - 12
      BY <2>1, <2>3 DEF Read
    <3>2. QED
      BY <3>1, BankAssumption DEF BitsInv, Later
  <2>4. QED
    BY <2>2, <2>3
<1>4. CASE UNCHANGED vars
  BY <1>4 DEF vars, bits, unpCtx, BitsInv, Unpacking, Later
<1>5. CASE \E f \in Files : OpenFails(f)
  BY <1>5 DEF OpenFails, BitsInv, Unpacking
<1>6. QED
  BY <1>1, <1>2, <1>3, <1>4, <1>5 DEF Next, Unpack

\* rcr, nextChunk: every word but the first is read bit by bit from the lowest
\* one up, all 32 of them (BitsInOrder), for any resources.
THEOREM BitsComeInOrder == Spec => []BitsInOrder
<1>1. Init => BitsInv
  BY DEF Init, BitsInv, Unpacking
<1>2. BitsInv => BitsInOrder
  BY DEF BitsInv, Later, Remaining, BitsInOrder
<1>3. QED
  BY <1>1, <1>2, BitsStep, PTL DEF Spec

-----------------------------------------------------------------------------

(***************************************************************************)
(* Where the unpacking is.  It reads one number at each stage of a run:    *)
(* where the number begins, when i bytes have been written, and its bits.  *)
(***************************************************************************)
NumberAt(r, s, i) ==
  CASE s = "first" -> r.at
    [] s \in {"second", "kind"} -> r.at + 1
    [] s = "literals" -> r.at + 2
    [] s \in {"manyLiterals", "size"} -> r.at + 3
    [] s \in {"offset", "copy"} -> r.at + HeadBits(r)
    [] s = "literal" -> r.at + HeadBits(r) + 8 * i

NumberBits(r, s) ==
  CASE s \in {"first", "second"} -> 1
    [] s = "kind" -> 2
    [] s = "literals" -> 3
    [] s \in {"manyLiterals", "size", "literal"} -> 8
    [] s \in {"offset", "copy"} -> OffsetBits(r)

\* The stages of each kind of run.
StagesOf(r) ==
  CASE r.kind = "bytes" /\ r.n <= 8 -> {"first", "second", "literals", "literal"}
    [] r.kind = "bytes" /\ r.n > 8  -> {"first", "kind", "manyLiterals", "literal"}
    [] r.kind = "short" /\ r.n = 2  -> {"first", "second", "offset", "copy"}
    [] r.kind = "short" /\ r.n # 2  -> {"first", "kind", "offset", "copy"}
    [] r.kind = "long" -> {"first", "kind", "size", "offset", "copy"}

\* The bits up to p have been read: the word that p - 1 is in is the last one.
BitsRead(p) ==
  LET w == (p - 1) \div 32 IN
  /\ iBuf = WordAfter(me, p)
  /\ chk = Remaining(Data(me, w), ((p - 1) % 32) + 1)
  /\ crc \subseteq Word
  /\ \A k \in Word :
       k \in crc <=> Cardinality({v \in -1 .. w : k \in FileWord(me, v)}) % 2 = 1

Writing == stage \in {"literal", "copy"}

\* The number of bytes of a run that have been written.
Done(r) == IF Writing THEN r.n - count ELSE 0

\* The bits of r that have been read, and what they have been taken for.
ReadingInv(r) ==
  LET b == NumberAt(r, stage, Done(r))
      w == NumberBits(r, stage)
  IN
  /\ stage \in StagesOf(r)
  /\ need \in 0 .. w
  /\ code = Code(me, b, w - need)
  /\ BitsRead(b + w - need)
  /\ stage = "copy" => need = 0
  /\ stage = "second" => size = 1
  /\ stage = "offset" => size = r.n - 1

\* The bytes of r that have been written.
WritingInv(r) ==
  /\ count \in (IF Writing THEN 1 .. r.n ELSE {0})
  /\ datasize = (IF Writing THEN r.left - r.n ELSE r.left)
  /\ oBuf = r.left - 1 - Done(r)

\* The memory: below, what is still to be read, and above, what has been unpacked.
MemoryInv ==
  /\ \A a \in 0 .. iBuf + 3 : mem[a] = me.packed[a]
  /\ ~ me.damaged => \A a \in oBuf + 1 .. me.size - 1 : mem[a] = me.plain[a]

UnpackInv ==
  /\ me \in Files
  /\ mem \in [0 .. Memory - 1 -> 0 .. 255]
  /\ IF Unpacking
     THEN /\ me.packedSize # me.size
          /\ \E j \in 1 .. NumRuns(me) : ReadingInv(me.runs[j]) /\ WritingInv(me.runs[j])
          /\ MemoryInv
     ELSE /\ count = 0
          /\ stage = "returned" => ~ me.damaged /\ \A a \in 0 .. me.size - 1 : mem[a] = me.plain[a]
          /\ stage = "error" => me.damaged

-----------------------------------------------------------------------------

\* Code as a recursion over the bits.
Spelling(f, p, n) ==
  \E g \in [0 .. 12 -> Nat] :
    g[0] = 0 /\ \A k \in 1 .. n : g[k] = 2 * g[k - 1] + FileBit(f, p + k - 1)

LEMMA SpellingGrows ==
  ASSUME NEW f, NEW p, NEW n \in 0 .. 11, Spelling(f, p, n)
  PROVE  Spelling(f, p, n + 1)
<1>1. PICK g \in [0 .. 12 -> Nat] :
        g[0] = 0 /\ \A k \in 1 .. n : g[k] = 2 * g[k - 1] + FileBit(f, p + k - 1)
  BY DEF Spelling
<1> DEFINE b == FileBit(f, p + (n + 1) - 1)
           h == [g EXCEPT ![n + 1] = 2 * g[n] + b]
<1>2. b \in Nat
  BY DEF FileBit
<1>3. h \in [0 .. 12 -> Nat] /\ h[0] = 0
  <2> HIDE DEF b
  <2> QED  BY <1>1, <1>2
<1>4. ASSUME NEW k \in 1 .. n + 1  PROVE h[k] = 2 * h[k - 1] + FileBit(f, p + k - 1)
  <2>1. h[k - 1] = g[k - 1]
    BY <1>1
  <2>2. CASE k = n + 1
    <3> HIDE DEF b
    <3>1. h[k] = 2 * g[n] + b /\ k - 1 = n
      BY <1>1, <2>2
    <3> QED  BY <2>1, <2>2, <3>1 DEF b
  <2>3. CASE k # n + 1
    <3>1. h[k] = g[k] /\ k \in 1 .. n
      BY <1>1, <2>3
    <3> QED  BY <1>1, <2>1, <3>1
  <2> QED  BY <2>2, <2>3
<1> HIDE DEF h
<1> QED  BY <1>3, <1>4 DEF Spelling

LEMMA CodeIs ==
  ASSUME NEW f, NEW p
  PROVE  /\ Code(f, p, 0) = 0
         /\ \A n \in 0 .. 12 : Code(f, p, n) \in Nat
         /\ \A n \in 0 .. 11 : Code(f, p, n + 1) = 2 * Code(f, p, n) + FileBit(f, p + n)
<1>1. Spelling(f, p, 12)
  <2>0. Spelling(f, p, 0)
    <3> DEFINE g == [k \in 0 .. 12 |-> 0]
    <3>1. g \in [0 .. 12 -> Nat] /\ g[0] = 0 /\ \A k \in 1 .. 0 : g[k] = 2 * g[k - 1] + FileBit(f, p + k - 1)
      OBVIOUS
    <3> QED  BY <3>1 DEF Spelling
  <2>1. \A n \in 0 .. 11 : Spelling(f, p, n) => Spelling(f, p, n + 1)
    BY SpellingGrows
  <2> DEFINE S(n) == Spelling(f, p, n)
  <2>2. S(0) /\ \A n \in 0 .. 11 : S(n) => S(n + 1)
    BY <2>0, <2>1
  <2> HIDE DEF S
  <2>3. S(1) /\ S(2) /\ S(3)
    BY <2>2
  <2>4. S(4) /\ S(5) /\ S(6)
    BY <2>2, <2>3
  <2>5. S(7) /\ S(8) /\ S(9)
    BY <2>2, <2>4
  <2>6. S(10) /\ S(11) /\ S(12)
    BY <2>2, <2>5
  <2> QED  BY <2>6 DEF S
<1> DEFINE Rec(g) == g = [k \in 0 .. 12 |-> IF k = 0 THEN 0 ELSE 2 * g[k - 1] + FileBit(f, p + k - 1)]
           c == CHOOSE g : Rec(g)
<1>2. \E g : Rec(g)
  <2>1. PICK g \in [0 .. 12 -> Nat] :
          g[0] = 0 /\ \A k \in 1 .. 12 : g[k] = 2 * g[k - 1] + FileBit(f, p + k - 1)
    BY <1>1 DEF Spelling
  <2>2. Rec(g)
    BY <2>1
  <2> QED  BY <2>2
<1>3. Rec(c)
  <2> HIDE DEF Rec
  <2> QED  BY <1>2
<1>4. \A n : Code(f, p, n) = c[n]
  BY DEF Code
<1> HIDE DEF c
<1>5. c[0] = 0 /\ \A n \in 0 .. 11 : c[n + 1] = 2 * c[n] + FileBit(f, p + n)
  <2>1. c[0] = 0
    BY <1>3
  <2>2. ASSUME NEW n \in 0 .. 11  PROVE c[n + 1] = 2 * c[n] + FileBit(f, p + n)
    <3>1. n + 1 \in 0 .. 12 /\ n + 1 # 0 /\ (n + 1) - 1 = n
      OBVIOUS
    <3>2. c[n + 1] = 2 * c[(n + 1) - 1] + FileBit(f, p + (n + 1) - 1)
      BY <1>3, <3>1
    <3>3. p + (n + 1) - 1 = p + n
      BY <3>1
    <3> QED  BY <3>1, <3>2, <3>3
  <2> QED  BY <2>1, <2>2
<1>6. \A n \in 0 .. 12 : c[n] \in Nat
  <2>1. \A n : FileBit(f, n) \in Nat
    BY DEF FileBit
  <2>2. \A n \in 0 .. 11 : c[n] \in Nat => c[n + 1] \in Nat
    BY <1>5, <2>1
  <2>3. c[0] \in Nat /\ c[1] \in Nat /\ c[2] \in Nat /\ c[3] \in Nat
    BY <1>5, <2>2
  <2>4. c[4] \in Nat /\ c[5] \in Nat /\ c[6] \in Nat /\ c[7] \in Nat
    BY <2>2, <2>3
  <2>5. c[8] \in Nat /\ c[9] \in Nat /\ c[10] \in Nat /\ c[11] \in Nat
    BY <2>2, <2>4
  <2>6. c[12] \in Nat
    BY <2>2, <2>5
  <2>7. ASSUME NEW n \in 0 .. 12  PROVE c[n] \in Nat
    <3>1. n \in {0, 1, 2, 3} \cup {4, 5, 6, 7} \cup {8, 9, 10, 11} \cup {12}
      OBVIOUS
    <3> QED  BY <2>3, <2>4, <2>5, <2>6, <3>1
  <2> QED  BY <2>7
<1> QED  BY <1>4, <1>5, <1>6

\* Eight bits make a byte.
LEMMA ByteIs ==
  ASSUME NEW f, NEW p  PROVE Code(f, p, 8) \in 0 .. 255
<1> DEFINE c == [n \in 0 .. 12 |-> Code(f, p, n)]
<1>1. c[0] = 0
  BY CodeIs
<1>2. \A n \in 0 .. 11 : c[n + 1] \in {2 * c[n], 2 * c[n] + 1}
  <2>1. \A n \in 0 .. 11 : /\ Code(f, p, n + 1) = 2 * Code(f, p, n) + FileBit(f, p + n)
                           /\ Code(f, p, n) \in Nat /\ FileBit(f, p + n) \in {0, 1}
    <3>1. ASSUME NEW n \in 0 .. 11
          PROVE  /\ Code(f, p, n + 1) = 2 * Code(f, p, n) + FileBit(f, p + n)
                 /\ Code(f, p, n) \in Nat
      <4>1. Code(f, p, n + 1) = 2 * Code(f, p, n) + FileBit(f, p + n)
        BY CodeIs
      <4>2. n \in 0 .. 12
        OBVIOUS
      <4>3. Code(f, p, n) \in Nat
        BY <4>2, CodeIs
      <4> QED  BY <4>1, <4>3
    <3>2. \A q : FileBit(f, q) \in {0, 1}
      BY DEF FileBit
    <3> QED  BY <3>1, <3>2
  <2> QED  BY <2>1
<1> HIDE DEF c
<1>3. c[1] \in 0 .. 1
  BY <1>1, <1>2
<1>4. c[2] \in 0 .. 3
  BY <1>2, <1>3
<1>5. c[3] \in 0 .. 7
  BY <1>2, <1>4
<1>6. c[4] \in 0 .. 15
  BY <1>2, <1>5
<1>7. c[5] \in 0 .. 31
  BY <1>2, <1>6
<1>8. c[6] \in 0 .. 63
  BY <1>2, <1>7
<1>9. c[7] \in 0 .. 127
  BY <1>2, <1>8
<1>10. c[8] \in 0 .. 255
  BY <1>2, <1>9
<1> QED  BY <1>10 DEF c

-----------------------------------------------------------------------------

\* The sizes of a resource that is packed, and its words.
LEMMA Sizes ==
  ASSUME NEW f \in Files, f.packedSize # f.size
  PROVE  /\ WellFormed(f) /\ LeavesRoom(f) /\ InSequence(f)
         /\ NumWords(f) \in Nat \ {0} /\ f.packedSize = 4 * NumWords(f) + 8
         /\ Memory \in Nat /\ f.packedSize \in 1 .. Memory /\ f.size \in f.packedSize .. Memory
         /\ NumRuns(f) \in Nat \ {0} /\ FirstBit(f) \in 1 .. 32
         /\ Number(f.packed, f.packedSize - 4) = f.size
<1>1. WellFormed(f) /\ LeavesRoom(f)
  BY FormatAssumption
<1>2. Memory \in Nat /\ f.packedSize \in 1 .. Memory /\ f.size \in f.packedSize .. Memory
  BY BankAssumption
<1>3. f.packedSize % 4 = 0 /\ NumWords(f) > 0 /\ InSequence(f) /\ FirstBit(f) \in 1 .. 32
      /\ Number(f.packed, f.packedSize - 4) = f.size
  BY <1>1 DEF WellFormed
<1>4. NumWords(f) \in Nat \ {0} /\ f.packedSize = 4 * NumWords(f) + 8
  BY <1>2, <1>3 DEF NumWords
<1>5. NumRuns(f) \in Nat \ {0}
  BY <1>3 DEF InSequence
<1> QED  BY <1>1, <1>2, <1>3, <1>4, <1>5

IsRun(f, r) == \E j \in 1 .. NumRuns(f) : r = f.runs[j]

\* The sizes of a run.
LEMMA RunSizes ==
  ASSUME NEW f \in Files, f.packedSize # f.size, NEW r, IsRun(f, r)
  PROVE  /\ SpellsHead(f, r) /\ (r.kind # "bytes" => SpellsOffset(f, r))
         /\ r.kind \in {"bytes", "short", "long"} /\ r.n \in 1 .. 264
         /\ r.kind = "short" => r.n \in 2 .. 4
         /\ r.at \in Nat \ {0} /\ r.at + RunBits(r) <= 32 * NumWords(f)
         /\ r.left \in 1 .. f.size /\ r.left >= r.n
         /\ r.left \in Int /\ r.n \in Int /\ r.at \in Int
         /\ HeadBits(r) \in Nat
<1>1. SpellsHead(f, r) /\ (r.kind # "bytes" => SpellsOffset(f, r))
  BY Sizes DEF WellFormed, IsRun
<1>2. r.kind \in {"bytes", "short", "long"} /\ r.n \in 1 .. 264 /\ (r.kind = "short" => r.n \in 2 .. 4)
  BY <1>1 DEF SpellsHead
<1>3. r.at \in Nat \ {0} /\ r.at + RunBits(r) <= 32 * NumWords(f) /\ r.left \in r.n .. f.size
  BY Sizes DEF InSequence, IsRun
<1>4. r.n \in Int /\ r.left \in Int /\ f.size \in Int /\ r.at \in Int
  BY <1>2, <1>3, Sizes
<1>6. r.left \in 1 .. f.size /\ r.left >= r.n
  BY <1>2, <1>3, <1>4
<1>5. HeadBits(r) \in Nat
  BY <1>2 DEF HeadBits
<1> QED  BY <1>1, <1>2, <1>3, <1>4, <1>5, <1>6

\* A word has its bits in 32 places, the first one too.
LEMMA DataInWord ==
  ASSUME NEW f \in Files, f.packedSize # f.size, NEW w \in Nat
  PROVE  Data(f, w) \subseteq Word
<1>1. FileWord(f, w) \subseteq Word /\ FileWord(f, 0) \subseteq Word
  BY DEF FileWord, WordAt
<1>2. CASE w = 0
  <2>1. FileWord(f, 0) \cap (32 - FirstBit(f) .. 31) = {32 - FirstBit(f)} /\ FirstBit(f) \in 1 .. 32
    BY Sizes DEF WellFormed
  <2>2. ASSUME NEW k \in FileWord(f, 0) \ {32 - FirstBit(f)}  PROVE k + FirstBit(f) \in Word
    <3>1. k \in 0 .. 31 /\ k \notin 32 - FirstBit(f) .. 31
      BY <1>1, <2>1 DEF Word
    <3> QED  BY <2>1, <3>1 DEF Word
  <2> QED  BY <1>2, <2>2 DEF Data
<1>3. CASE w # 0
  BY <1>1, <1>3 DEF Data
<1> QED  BY <1>2, <1>3

\* The first word, as it is read.
LEMMA FirstWord ==
  ASSUME NEW f \in Files, f.packedSize # f.size
  PROVE  FileWord(f, 0) = Remaining(Data(f, 0), FirstBit(f))
<1> DEFINE n == FirstBit(f)
           W == FileWord(f, 0)
<1>1. W \subseteq Word /\ W \cap (32 - n .. 31) = {32 - n} /\ n \in 1 .. 32
  BY Sizes DEF FileWord, WordAt, WellFormed
<1>2. Data(f, 0) = {k + n : k \in W \ {32 - n}}
  BY DEF Data
<1> HIDE DEF n, W
<1>3. \A k \in W : k \in Int /\ k >= 0
  <2>1. W \subseteq Word
    BY <1>1
  <2>2. \A k \in Word : k \in Int /\ k >= 0
    BY DEF Word
  <2> QED  BY <2>1, <2>2, Zenon
<1>4. ASSUME NEW i \in Remaining(Data(f, 0), n)  PROVE i \in W
  <2>1. CASE i = 32 - n
    BY <1>1, <2>1
  <2>2. CASE i # 32 - n
    <3>1. PICK k \in Data(f, 0) : i = k - n
      BY <2>2 DEF Remaining
    <3>2. PICK l \in W \ {32 - n} : k = l + n
      BY <1>2, <3>1
    <3> QED  BY <1>1, <1>3, <3>1, <3>2
  <2> QED  BY <2>1, <2>2
<1>5. ASSUME NEW i \in W  PROVE i \in Remaining(Data(f, 0), n)
  <2>1. CASE i = 32 - n
    BY <2>1 DEF Remaining
  <2>2. CASE i # 32 - n
    <3>1. i + n \in Data(f, 0) /\ i + n >= n /\ i = (i + n) - n
      BY <1>1, <1>2, <1>3, <2>2
    <3> QED  BY <3>1 DEF Remaining
  <2> QED  BY <2>1, <2>2
<1>6. W = Remaining(Data(f, 0), n)
  BY <1>4, <1>5
<1> QED  BY <1>6 DEF W, n

\* rcr: what is left of a word is nothing if all of its bits have been taken, and
\* otherwise begins with the next one.
LEMMA LeftOfWord ==
  ASSUME NEW w \in SUBSET Word, NEW t \in 1 .. 32
  PROVE  /\ Rcr(Remaining(w, t), FALSE) = {} <=> t = 32
         /\ t # 32 => (0 \in Remaining(w, t) <=> t \in w)
<1>1. CASE t = 32
  <2>1. Remaining(w, t) = {0}
    BY <1>1 DEF Remaining, Word
  <2> QED  BY <1>1, <2>1 DEF Rcr
<1>2. CASE t # 32
  <2>1. 32 - t \in Remaining(w, t) /\ 32 - t # 0
    BY <1>2 DEF Remaining
  <2>2. 0 \in Remaining(w, t) <=> t \in w
    BY <1>2 DEF Remaining, Word
  <2> QED  BY <1>2, <2>1, <2>2 DEF Rcr
<1> QED  BY <1>1, <1>2

-----------------------------------------------------------------------------

\* The word that is to be read next is still there.
LEMMA NextWord ==
  ASSUME NEW f \in Files, f.packedSize # f.size, NEW p \in Nat \ {0}, p % 32 = 0,
         p < 32 * NumWords(f), NEW m, NEW i, i = WordAfter(f, p),
         \A a \in 0 .. i + 3 : m[a] = f.packed[a]
  PROVE  WordAt(m, i) = FileWord(f, p \div 32)
<1> DEFINE w == p \div 32
           n == NumWords(f)
<1>1. w \in Nat \ {0} /\ p = 32 * w /\ (p - 1) \div 32 = w - 1
  OBVIOUS
<1>2. n \in Nat /\ f.packedSize = 4 * n + 8 /\ w < n
  BY <1>1, Sizes
<1>3. i = f.packedSize - 16 - 4 * (w - 1)
  BY <1>1 DEF WordAfter
<1> HIDE DEF w, n
<1>4. i = f.packedSize - 12 - 4 * w /\ i \in Nat
  BY <1>1, <1>2, <1>3
<1>5. \A k \in Word : m[i + 3 - k \div 8] = f.packed[i + 3 - k \div 8]
  <2>1. ASSUME NEW k \in Word  PROVE i + 3 - k \div 8 \in 0 .. i + 3
    <3>1. k \div 8 \in 0 .. 3
      BY DEF Word
    <3> QED  BY <1>4, <3>1
  <2> QED  BY <2>1
<1>6. WordAt(m, i) = WordAt(f.packed, i)
  BY <1>5 DEF WordAt
<1>7. WordAt(f.packed, i) = FileWord(f, w)
  BY <1>4 DEF FileWord
<1> QED  BY <1>6, <1>7 DEF w

\* The checksum counts, for each bit, if it has been in an odd number of words.
LEMMA ChecksumGrows ==
  ASSUME NEW f, NEW w \in Nat \cup {-1}, NEW c \in SUBSET Word,
         \A k \in Word : k \in c <=> Cardinality({v \in -1 .. w : k \in FileWord(f, v)}) % 2 = 1
  PROVE  /\ Xor(c, FileWord(f, w + 1)) \subseteq Word
         /\ \A k \in Word :
              k \in Xor(c, FileWord(f, w + 1))
                <=> Cardinality({v \in -1 .. w + 1 : k \in FileWord(f, v)}) % 2 = 1
<1>1. FileWord(f, w + 1) \subseteq Word
  BY DEF FileWord, WordAt
<1>2. ASSUME NEW k \in Word
      PROVE  k \in Xor(c, FileWord(f, w + 1))
               <=> Cardinality({v \in -1 .. w + 1 : k \in FileWord(f, v)}) % 2 = 1
  <2> DEFINE S == {v \in -1 .. w : k \in FileWord(f, v)}
             T == {v \in -1 .. w + 1 : k \in FileWord(f, v)}
  <2>1. IsFiniteSet(S) /\ Cardinality(S) \in Nat
    <3>1. IsFiniteSet(-1 .. w)
      BY FS_Interval
    <3>2. S \subseteq -1 .. w
      OBVIOUS
    <3> QED  BY <3>1, <3>2, FS_Subset, FS_CardinalityType
  <2>2. k \in c <=> Cardinality(S) % 2 = 1
    OBVIOUS
  <2>3. k \in Xor(c, FileWord(f, w + 1)) <=> ~ (k \in c <=> k \in FileWord(f, w + 1))
    BY DEF Xor
  <2>4. CASE k \in FileWord(f, w + 1)
    <3>1. T = S \cup {w + 1} /\ w + 1 \notin S
      BY <2>4
    <3>2. Cardinality(T) = Cardinality(S) + 1
      <4> HIDE DEF S, T
      <4> QED  BY <2>1, <3>1, FS_AddElement
    <3> HIDE DEF S, T
    <3>3. Cardinality(T) % 2 = 1 <=> ~ (Cardinality(S) % 2 = 1)
      BY <2>1, <3>2
    <3> QED  BY <2>2, <2>3, <2>4, <3>3 DEF T
  <2>5. CASE k \notin FileWord(f, w + 1)
    <3>1. T = S
      BY <2>5
    <3> HIDE DEF S, T
    <3> QED  BY <2>2, <2>3, <2>5, <3>1 DEF T
  <2> QED  BY <2>4, <2>5
<1>3. Xor(c, FileWord(f, w + 1)) \subseteq Word
  BY <1>1 DEF Xor
<1> QED  BY <1>2, <1>3

\* nextChunk gives the next bit of the data.
LEMMA NextBit ==
  ASSUME NextChunk, me \in Files, me.packedSize # me.size, MemoryInv,
         NEW p \in Nat \ {0}, p < 32 * NumWords(me), BitsRead(p)
  PROVE  /\ BitsRead(p + 1)'
         /\ code' = 2 * code + FileBit(me, p) /\ need' = need - 1
         /\ iBuf \in Int /\ iBuf' \in Int /\ iBuf' <= iBuf
<1> DEFINE w == (p - 1) \div 32
           t == ((p - 1) % 32) + 1
<1>1. w \in Nat /\ t \in 1 .. 32 /\ p = 32 * w + t
  OBVIOUS
<1>2. /\ iBuf = WordAfter(me, p) /\ chk = Remaining(Data(me, w), t) /\ crc \subseteq Word
      /\ \A k \in Word : k \in crc <=> Cardinality({v \in -1 .. w : k \in FileWord(me, v)}) % 2 = 1
  BY DEF BitsRead
<1>3. Data(me, w) \in SUBSET Word /\ me' = me /\ me.packedSize \in Int
  BY <1>1, DataInWord, BankAssumption DEF NextChunk
<1>4. Rcr(chk, FALSE) = {} <=> t = 32
  <2> HIDE DEF w, t
  <2> QED  BY <1>1, <1>2, <1>3, LeftOfWord
<1>5. CASE t # 32
  <2>1. chk' = Rcr(chk, FALSE) /\ UNCHANGED <<iBuf, crc>> /\ need' = need - 1
        /\ code' = 2 * code + (IF 0 \in chk THEN 1 ELSE 0)
    BY <1>4, <1>5 DEF NextChunk
  <2>2. ((p + 1) - 1) \div 32 = w /\ ((p + 1) - 1) % 32 = t /\ p \div 32 = w /\ p % 32 = t
    <3>1. (p + 1) - 1 = p /\ t \in 1 .. 31
      BY <1>1, <1>5
    <3> HIDE DEF w, t
    <3>2. p \div 32 = w /\ p % 32 = t
      BY <1>1, <3>1
    <3> QED  BY <3>1, <3>2
  <2>3. Rcr(chk, FALSE) = Remaining(Data(me, w), t + 1)
    <3> HIDE DEF w, t
    <3>0. t \in 0 .. 32
      BY <1>1
    <3>1. Rcr(Remaining(Data(me, w), t), FALSE) # {}
      BY <1>2, <1>4, <1>5
    <3>2. Rcr(Remaining(Data(me, w), t), FALSE) = Remaining(Data(me, w), t + 1)
      BY <1>3, <3>0, <3>1, RcrRemaining
    <3> QED  BY <1>2, <3>2
  <2>4. 0 \in chk <=> t \in Data(me, w)
    <3> HIDE DEF w, t
    <3> QED  BY <1>1, <1>2, <1>3, <1>5, LeftOfWord
  <2>5. WordAfter(me, p + 1) = WordAfter(me, p)
    BY <2>2 DEF WordAfter
  <2>6. code' = 2 * code + FileBit(me, p)
    BY <2>1, <2>2, <2>4 DEF FileBit
  <2>7. iBuf \in Int /\ iBuf' \in Int /\ iBuf' <= iBuf
    <3>1. iBuf \in Int
      BY <1>1, <1>2, <1>3 DEF WordAfter
    <3> QED  BY <2>1, <3>1
  <2>8. BitsRead(p + 1)'
    <3> HIDE DEF w, t
    <3>1. iBuf' = WordAfter(me', p + 1)
      BY <1>2, <1>3, <2>1, <2>5
    <3>2. chk' = Remaining(Data(me', w), t + 1)
      BY <1>3, <2>1, <2>3
    <3> QED  BY <1>2, <1>3, <2>1, <2>2, <3>1, <3>2 DEF BitsRead
  <2> QED  BY <2>1, <2>6, <2>7, <2>8
<1>6. CASE t = 32
  <2> DEFINE next == WordAt(mem, iBuf)
  <2>1. chk' = Rcr(next, TRUE) /\ iBuf' = iBuf - 4 /\ need' = need - 1
        /\ crc' = Xor(crc, next) /\ code' = 2 * code + (IF 0 \in next THEN 1 ELSE 0)
    BY <1>4, <1>6 DEF NextChunk
  <2>2. ((p + 1) - 1) \div 32 = w + 1 /\ ((p + 1) - 1) % 32 = 0 /\ p \div 32 = w + 1 /\ p % 32 = 0
    BY <1>1, <1>6
  <2>3. next = FileWord(me, w + 1)
    <3>1. \A a \in 0 .. iBuf + 3 : mem[a] = me.packed[a]
      BY DEF MemoryInv
    <3> HIDE DEF w, t
    <3> QED  BY <1>2, <2>2, <3>1, NextWord
  <2>4. next = Data(me, w + 1) /\ next \in SUBSET Word
    BY <1>1, <2>3 DEF Data, FileWord, WordAt
  <2> HIDE DEF next
  <2>5. chk' = Remaining(Data(me, w + 1), 1)
    BY <2>1, <2>4, RcrNew
  <2>6. WordAfter(me, p + 1) = WordAfter(me, p) - 4 /\ WordAfter(me, p) \in Int
    BY <1>1, <1>3, <2>2 DEF WordAfter
  <2>7. code' = 2 * code + FileBit(me, p)
    BY <2>1, <2>2, <2>4 DEF FileBit
  <2>8. crc' \subseteq Word /\ \A k \in Word :
          k \in crc' <=> Cardinality({v \in -1 .. w + 1 : k \in FileWord(me, v)}) % 2 = 1
    <3> HIDE DEF w, t
    <3> QED  BY <1>1, <1>2, <2>1, <2>3, ChecksumGrows
  <2>9. iBuf' = WordAfter(me, p + 1) /\ iBuf \in Int /\ iBuf' \in Int /\ iBuf' <= iBuf
    BY <1>2, <2>1, <2>6
  <2>10. BitsRead(p + 1)'
    <3> HIDE DEF w, t
    <3> QED  BY <1>3, <2>2, <2>5, <2>8, <2>9 DEF BitsRead
  <2> QED  BY <2>1, <2>7, <2>9, <2>10
<1> QED  BY <1>5, <1>6

-----------------------------------------------------------------------------

\* NumberAt and NumberBits, stage by stage.
NumberPlaces(r, s, i, a, h, o) ==
  /\ s = "first" => NumberAt(r, s, i) = a /\ NumberBits(r, s) = 1
  /\ s = "second" => NumberAt(r, s, i) = a + 1 /\ NumberBits(r, s) = 1
  /\ s = "kind" => NumberAt(r, s, i) = a + 1 /\ NumberBits(r, s) = 2
  /\ s = "literals" => NumberAt(r, s, i) = a + 2 /\ NumberBits(r, s) = 3
  /\ s = "manyLiterals" => NumberAt(r, s, i) = a + 3 /\ NumberBits(r, s) = 8
  /\ s = "size" => NumberAt(r, s, i) = a + 3 /\ NumberBits(r, s) = 8
  /\ s = "literal" => NumberAt(r, s, i) = a + h + 8 * i /\ NumberBits(r, s) = 8
  /\ s \in {"offset", "copy"} => NumberAt(r, s, i) = a + h /\ NumberBits(r, s) = o

LEMMA PlacesOf ==
  ASSUME NEW r, NEW s, NEW i  PROVE NumberPlaces(r, s, i, r.at, HeadBits(r), OffsetBits(r))
BY DEF NumberPlaces, NumberAt, NumberBits

\* The numbers of a run lie between its first bit and its last one.
LEMMA NumberInRun ==
  ASSUME NEW f \in Files, f.packedSize # f.size, NEW r, IsRun(f, r),
         NEW s \in StagesOf(r), NEW i \in 0 .. r.n - 1
  PROVE  /\ NumberAt(r, s, i) \in Nat \ {0} /\ NumberBits(r, s) \in 1 .. 12
         /\ NumberAt(r, s, i) + NumberBits(r, s) <= 32 * NumWords(f)
<1>1. /\ SpellsHead(f, r) /\ r.n \in 1 .. 264 /\ r.at \in Nat \ {0}
      /\ r.at + RunBits(r) <= 32 * NumWords(f) /\ NumWords(f) \in Nat
  BY RunSizes, Sizes
<1>2. PICK a, n, h, o, e : a = r.at /\ n = r.n /\ h = HeadBits(r) /\ o = OffsetBits(r) /\ e = RunBits(r)
  OBVIOUS
<1>3. a \in Nat \ {0} /\ n \in 1 .. 264 /\ a + e <= 32 * NumWords(f) /\ NumWords(f) \in Nat
  BY <1>1, <1>2
<1>4. NumberPlaces(r, s, i, a, h, o)
  BY <1>2, PlacesOf
<1> USE DEF NumberPlaces
<1>5. CASE r.kind = "bytes" /\ n \in 1 .. 8
  <2>1. h = 5 /\ e = 5 + 8 * n /\ s \in {"first", "second", "literals", "literal"}
    BY <1>2, <1>5 DEF HeadBits, RunBits, StagesOf
  <2>2. CASE s = "literal"
    <3>1. NumberAt(r, s, i) = a + h + 8 * i /\ NumberBits(r, s) = 8
      BY <1>4, <2>2
    <3>2. i \in Nat /\ i + 1 <= n
      BY <1>2, <1>3
    <3> QED  BY <1>3, <2>1, <3>1, <3>2
  <2>3. CASE s # "literal"
    BY <1>3, <1>4, <2>1, <2>3
  <2> QED  BY <2>2, <2>3
<1>6. CASE r.kind = "bytes" /\ n \in 9 .. 264
  <2>1. h = 11 /\ e = 11 + 8 * n /\ s \in {"first", "kind", "manyLiterals", "literal"}
    BY <1>2, <1>6 DEF HeadBits, RunBits, StagesOf
  <2>2. CASE s = "literal"
    <3>1. NumberAt(r, s, i) = a + h + 8 * i /\ NumberBits(r, s) = 8
      BY <1>4, <2>2
    <3>2. i \in Nat /\ i + 1 <= n
      BY <1>2, <1>3
    <3> QED  BY <1>3, <2>1, <3>1, <3>2
  <2>3. CASE s # "literal"
    BY <1>3, <1>4, <2>1, <2>3
  <2> QED  BY <2>2, <2>3
<1>7. CASE r.kind = "short" /\ n = 2
  <2>1. h = 2 /\ o = 8 /\ e = 10 /\ s \in {"first", "second", "offset", "copy"}
    BY <1>2, <1>7 DEF HeadBits, RunBits, OffsetBits, StagesOf
  <2> QED  BY <1>3, <1>4, <2>1
<1>8. CASE r.kind = "short" /\ n \in 3 .. 4
  <2>1. h = 3 /\ o = n + 6 /\ e = 3 + o /\ s \in {"first", "kind", "offset", "copy"}
    BY <1>2, <1>8 DEF HeadBits, RunBits, OffsetBits, StagesOf
  <2> QED  BY <1>3, <1>4, <1>8, <2>1
<1>9. CASE r.kind = "long"
  <2>1. h = 11 /\ o = 12 /\ e = 23 /\ s \in {"first", "kind", "size", "offset", "copy"}
    BY <1>2, <1>9 DEF HeadBits, RunBits, OffsetBits, StagesOf
  <2> QED  BY <1>3, <1>4, <2>1
<1>10. \/ r.kind = "bytes" /\ n \in 1 .. 8
       \/ r.kind = "bytes" /\ n \in 9 .. 264
       \/ r.kind = "short" /\ n = 2
       \/ r.kind = "short" /\ n \in 3 .. 4
       \/ r.kind = "long"
  BY <1>1, <1>2 DEF SpellsHead
<1> QED  BY <1>5, <1>6, <1>7, <1>8, <1>9, <1>10

\* Done says how many bytes of a run there are already.
LEMMA DoneIs ==
  ASSUME NEW r, r.n \in 1 .. 264, WritingInv(r)
  PROVE  Done(r) \in 0 .. r.n - 1
<1>1. CASE Writing
  BY <1>1 DEF WritingInv, Done
<1>2. CASE ~ Writing
  BY <1>2 DEF WritingInv, Done
<1> QED  BY <1>1, <1>2

\* nextChunk, in the middle of a number.
LEMMA ChunkStep == UnpackInv /\ NextChunk => UnpackInv'
<1> SUFFICES ASSUME UnpackInv, NextChunk  PROVE UnpackInv'
  OBVIOUS
<1>1. UNCHANGED <<me, mem, oBuf, size, datasize, stage, count>> /\ need > 0
  BY DEF NextChunk
<1>2. CASE ~ Unpacking
  BY <1>1, <1>2 DEF UnpackInv, Unpacking
<1>3. CASE Unpacking
  <2>1. me \in Files /\ me.packedSize # me.size /\ MemoryInv
    BY <1>3 DEF UnpackInv
  <2>2. PICK r : IsRun(me, r) /\ ReadingInv(r) /\ WritingInv(r)
    BY <1>3 DEF UnpackInv, IsRun
  <2>4. r.n \in 1 .. 264 /\ Done(r) \in 0 .. r.n - 1
    <3>1. r.n \in 1 .. 264
      BY <2>1, <2>2, RunSizes
    <3> QED  BY <2>2, <3>1, DoneIs
  <2>5. PICK b, w : b = NumberAt(r, stage, Done(r)) /\ w = NumberBits(r, stage)
    OBVIOUS
  <2>6. b \in Nat \ {0} /\ w \in 1 .. 12 /\ b + w <= 32 * NumWords(me)
    <3>1. stage \in StagesOf(r)
      BY <2>2 DEF ReadingInv
    <3> QED  BY <2>1, <2>2, <2>4, <2>5, <3>1, NumberInRun
  <2>7. need \in 1 .. w /\ code = Code(me, b, w - need) /\ BitsRead(b + w - need)
    <3>1. need \in 0 .. w /\ code = Code(me, b, w - need) /\ BitsRead(b + w - need)
      BY <2>2, <2>5 DEF ReadingInv
    <3> QED  BY <1>1, <2>6, <3>1
  <2>8. PICK d \in 0 .. 11 : d = w - need
    BY <2>6, <2>7
  <2>9. /\ BitsRead(b + d + 1)'
        /\ code' = 2 * code + FileBit(me, b + d) /\ need' = need - 1
        /\ iBuf \in Int /\ iBuf' \in Int /\ iBuf' <= iBuf
    <3>1. PICK p : p = b + d
      OBVIOUS
    <3>2. p \in Nat \ {0} /\ p < 32 * NumWords(me) /\ b + w - need = p
      BY <2>1, <2>6, <2>7, <2>8, <3>1, Sizes
    <3>3. BitsRead(p)
      BY <2>7, <3>2
    <3> QED  BY <2>1, <3>1, <3>2, <3>3, NextBit
  <2>10. code' = Code(me, b, d + 1)
    <3>1. Code(me, b, d + 1) = 2 * Code(me, b, d) + FileBit(me, b + d)
      BY CodeIs
    <3> QED  BY <2>7, <2>8, <2>9, <3>1
  <2>11. need' \in 0 .. w /\ w - need' = d + 1 /\ b + w - need' = b + d + 1
    BY <2>6, <2>7, <2>8, <2>9
  <2>12. b = NumberAt(r, stage', Done(r)') /\ w = NumberBits(r, stage')
    BY <1>1, <2>5 DEF Done, Writing
  <2>13. ReadingInv(r)'
    <3>1. BitsRead(b + w - need)'
      BY <2>9, <2>11
    <3>2. code' = Code(me', b, w - need')
      BY <1>1, <2>10, <2>11
    <3>3. stage' \in StagesOf(r) /\ (stage' = "second" => size' = 1)
          /\ (stage' = "offset" => size' = r.n - 1) /\ stage # "copy"
      BY <1>1, <2>2 DEF ReadingInv
    <3> QED  BY <1>1, <2>11, <2>12, <3>1, <3>2, <3>3 DEF ReadingInv
  <2>14. WritingInv(r)'
    BY <1>1, <2>2 DEF WritingInv, Writing, Done
  <2>15. MemoryInv'
    <3>1. iBuf \in Int /\ iBuf' \in Int /\ iBuf' <= iBuf
      BY <2>9
    <3>2. \A i, k \in Int : k <= i => \A a \in 0 .. k + 3 : a \in 0 .. i + 3
      OBVIOUS
    <3>3. \A a \in 0 .. iBuf' + 3 : a \in 0 .. iBuf + 3
      BY <3>1, <3>2
    <3> QED  BY <1>1, <2>1, <3>3 DEF MemoryInv
  <2>16. \E k \in 1 .. NumRuns(me) : ReadingInv(me.runs[k])' /\ WritingInv(me.runs[k])'
    BY <1>1, <2>2, <2>13, <2>14 DEF IsRun
  <2> QED  BY <1>1, <1>3, <2>1, <2>15, <2>16 DEF UnpackInv, Unpacking
<1> QED  BY <1>2, <1>3

-----------------------------------------------------------------------------

\* The runs that there are, with what the numbers of their heads are.
LEMMA Heads ==
  ASSUME NEW f, NEW r, SpellsHead(f, r), NEW a, a = r.at, NEW n, n = r.n
  PROVE  \/ /\ r.kind = "bytes" /\ n \in 1 .. 8 /\ HeadBits(r) = 5
            /\ StagesOf(r) = {"first", "second", "literals", "literal"}
            /\ Code(f, a, 1) = 0 /\ Code(f, a + 1, 1) = 0 /\ Code(f, a + 2, 3) = n - 1
         \/ /\ r.kind = "bytes" /\ n \in 9 .. 264 /\ HeadBits(r) = 11
            /\ StagesOf(r) = {"first", "kind", "manyLiterals", "literal"}
            /\ Code(f, a, 1) = 1 /\ Code(f, a + 1, 2) = 3 /\ Code(f, a + 3, 8) = n - 9
         \/ /\ r.kind = "short" /\ n = 2 /\ HeadBits(r) = 2 /\ OffsetBits(r) = 8
            /\ StagesOf(r) = {"first", "second", "offset", "copy"}
            /\ Code(f, a, 1) = 0 /\ Code(f, a + 1, 1) = 1
         \/ /\ r.kind = "short" /\ n \in 3 .. 4 /\ HeadBits(r) = 3 /\ OffsetBits(r) = n + 6
            /\ StagesOf(r) = {"first", "kind", "offset", "copy"}
            /\ Code(f, a, 1) = 1 /\ Code(f, a + 1, 2) = n - 3
         \/ /\ r.kind = "long" /\ n \in 1 .. 256 /\ HeadBits(r) = 11 /\ OffsetBits(r) = 12
            /\ StagesOf(r) = {"first", "kind", "size", "offset", "copy"}
            /\ Code(f, a, 1) = 1 /\ Code(f, a + 1, 2) = 2 /\ Code(f, a + 3, 8) = n - 1
<1>1. SpellsHead(f, r)
  OBVIOUS
<1>2. CASE r.kind = "bytes" /\ r.n \in 1 .. 8
  <2>1. HeadBits(r) = 5 /\ StagesOf(r) = {"first", "second", "literals", "literal"}
    BY <1>2 DEF HeadBits, StagesOf
  <2>2. Code(f, r.at, 1) = 0 /\ Code(f, r.at + 1, 1) = 0 /\ Code(f, r.at + 2, 3) = r.n - 1
    <3>1. ~ r.n \in 9 .. 264
      BY <1>2
    <3> QED  BY <1>1, <1>2, <3>1, Zenon DEF SpellsHead
  <2> QED  BY <1>1, <1>2, <2>1, <2>2
<1>3. CASE r.kind = "bytes" /\ r.n \in 9 .. 264
  <2>1. HeadBits(r) = 11 /\ StagesOf(r) = {"first", "kind", "manyLiterals", "literal"}
    BY <1>3 DEF HeadBits, StagesOf
  <2>2. Code(f, r.at, 1) = 1 /\ Code(f, r.at + 1, 2) = 3 /\ Code(f, r.at + 3, 8) = r.n - 9
    <3>1. ~ r.n \in 1 .. 8
      BY <1>3
    <3> QED  BY <1>1, <1>3, <3>1, Zenon DEF SpellsHead
  <2> QED  BY <1>1, <1>3, <2>1, <2>2
<1>4. CASE r.kind = "short" /\ r.n = 2
  <2>1. HeadBits(r) = 2 /\ OffsetBits(r) = 8 /\ StagesOf(r) = {"first", "second", "offset", "copy"}
    BY <1>4 DEF HeadBits, OffsetBits, StagesOf
  <2> QED  BY <1>1, <1>4, <2>1 DEF SpellsHead
<1>5. CASE r.kind = "short" /\ r.n \in 3 .. 4
  <2>1. HeadBits(r) = 3 /\ OffsetBits(r) = r.n + 6 /\ StagesOf(r) = {"first", "kind", "offset", "copy"}
    BY <1>5 DEF HeadBits, OffsetBits, StagesOf
  <2> QED  BY <1>1, <1>5, <2>1 DEF SpellsHead
<1>6. CASE r.kind = "long"
  <2>1. HeadBits(r) = 11 /\ OffsetBits(r) = 12 /\ StagesOf(r) = {"first", "kind", "size", "offset", "copy"}
    BY <1>6 DEF HeadBits, OffsetBits, StagesOf
  <2> QED  BY <1>1, <1>6, <2>1 DEF SpellsHead
<1> QED  BY <1>1, <1>2, <1>3, <1>4, <1>5, <1>6 DEF SpellsHead

\* One number has been read, and the next one begins behind it.
LEMMA NewNumber ==
  ASSUME me \in Files, me.packedSize # me.size, NEW r, IsRun(me, r),
         ReadingInv(r), WritingInv(r), need = 0, UNCHANGED <<me, iBuf, chk, crc>>,
         need' = NumberBits(r, stage'), code' = 0, stage' \in StagesOf(r), stage' # "copy",
         NumberAt(r, stage', Done(r)') = NumberAt(r, stage, Done(r)) + NumberBits(r, stage),
         Done(r)' \in 0 .. r.n - 1,
         stage' = "second" => size' = 1, stage' = "offset" => size' = r.n - 1
  PROVE  ReadingInv(r)'
<1>1. PICK b, w : b = NumberAt(r, stage, Done(r)) /\ w = NumberBits(r, stage)
  OBVIOUS
<1>2. PICK c, v : c = NumberAt(r, stage', Done(r)') /\ v = NumberBits(r, stage')
  OBVIOUS
<1>3. r.n \in 1 .. 264
  BY RunSizes
<1>4. Done(r) \in 0 .. r.n - 1
  BY <1>3, DoneIs
<1>5. b \in Nat \ {0} /\ w \in 1 .. 12
  <2>1. stage \in StagesOf(r)
    BY DEF ReadingInv
  <2> QED  BY <1>1, <1>4, <2>1, NumberInRun
<1>6. c \in Nat \ {0} /\ v \in 1 .. 12
  BY <1>2, NumberInRun
<1>7. c = b + w
  BY <1>1, <1>2
<1>8. BitsRead(b + w)
  <2>1. BitsRead(b + w - need) /\ b + w - need = b + w
    BY <1>1, <1>5 DEF ReadingInv
  <2> QED  BY <2>1
<1>9. need' = v /\ need' \in 0 .. v /\ v - need' = 0 /\ c + v - need' = b + w
  BY <1>2, <1>5, <1>6, <1>7
<1>10. BitsRead(b + w)'
  BY <1>8 DEF BitsRead
<1>11. code' = Code(me', c, v - need')
  BY <1>9, CodeIs
<1>12. BitsRead(c + v - need)'
  BY <1>9, <1>10
<1> QED  BY <1>2, <1>9, <1>11, <1>12 DEF ReadingInv

-----------------------------------------------------------------------------

\* What the numbers of a head lead to.
LEMMA HeaderTo ==
  ASSUME Header
  PROVE  /\ code' = 0 /\ stage \in {"first", "second", "kind", "size"}
         /\ stage = "first" => \/ code = 0 /\ stage' = "second" /\ need' = 1 /\ size' = 1
                               \/ code = 1 /\ stage' = "kind" /\ need' = 2
         /\ stage = "second" => \/ code = 0 /\ stage' = "literals" /\ need' = 3
                                \/ code = 1 /\ stage' = "offset" /\ need' = 8 /\ size' = size
         /\ stage = "kind" => \/ code < 2 /\ stage' = "offset" /\ need' = code + 9 /\ size' = code + 2
                              \/ code = 2 /\ stage' = "size" /\ need' = 8
                              \/ code = 3 /\ stage' = "manyLiterals" /\ need' = 8
         /\ stage = "size" => stage' = "offset" /\ need' = 12 /\ size' = code
BY DEF Header, GetCode

LEMMA HeaderNumber ==
  ASSUME Header, NEW r, SpellsHead(me, r), r.at \in Nat, stage \in StagesOf(r),
         code = Code(me, NumberAt(r, stage, 0), NumberBits(r, stage)),
         stage = "second" => size = 1
  PROVE  /\ stage' \in StagesOf(r) /\ stage' \notin {"literal", "copy"}
         /\ need' = NumberBits(r, stage') /\ code' = 0
         /\ NumberAt(r, stage', 0) = NumberAt(r, stage, 0) + NumberBits(r, stage)
         /\ stage' = "second" => size' = 1
         /\ stage' = "offset" => size' = r.n - 1
<1>1. PICK a, n, h, o : a = r.at /\ n = r.n /\ h = HeadBits(r) /\ o = OffsetBits(r)
  OBVIOUS
<1>2. NumberPlaces(r, stage, 0, a, h, o) /\ NumberPlaces(r, stage', 0, a, h, o) /\ a \in Nat
  BY <1>1, PlacesOf
<1>3. code' = 0 /\ stage \in {"first", "second", "kind", "size"}
  BY HeaderTo
<1>4. CASE /\ r.kind = "bytes" /\ n \in 1 .. 8 /\ h = 5
           /\ StagesOf(r) = {"first", "second", "literals", "literal"}
           /\ Code(me, a, 1) = 0 /\ Code(me, a + 1, 1) = 0
  <2>1. CASE stage = "first"
    <3>1. code = 0
      BY <1>2, <1>4, <2>1 DEF NumberPlaces
    <3>2. stage' = "second" /\ need' = 1 /\ size' = 1
      BY <2>1, <3>1, HeaderTo
    <3> QED  BY <1>2, <1>3, <1>4, <2>1, <3>2 DEF NumberPlaces
  <2>2. CASE stage = "second"
    <3>1. code = 0
      BY <1>2, <1>4, <2>2 DEF NumberPlaces
    <3>2. stage' = "literals" /\ need' = 3
      BY <2>2, <3>1, HeaderTo
    <3> QED  BY <1>2, <1>3, <1>4, <2>2, <3>2 DEF NumberPlaces
  <2> QED  BY <1>3, <1>4, <2>1, <2>2
<1>5. CASE /\ r.kind = "bytes" /\ n \in 9 .. 264 /\ h = 11
           /\ StagesOf(r) = {"first", "kind", "manyLiterals", "literal"}
           /\ Code(me, a, 1) = 1 /\ Code(me, a + 1, 2) = 3
  <2>1. CASE stage = "first"
    <3>1. code = 1
      BY <1>2, <1>5, <2>1 DEF NumberPlaces
    <3>2. stage' = "kind" /\ need' = 2
      BY <2>1, <3>1, HeaderTo
    <3> QED  BY <1>2, <1>3, <1>5, <2>1, <3>2 DEF NumberPlaces
  <2>2. CASE stage = "kind"
    <3>1. code = 3
      BY <1>2, <1>5, <2>2 DEF NumberPlaces
    <3>2. stage' = "manyLiterals" /\ need' = 8
      BY <2>2, <3>1, HeaderTo
    <3> QED  BY <1>2, <1>3, <1>5, <2>2, <3>2 DEF NumberPlaces
  <2> QED  BY <1>3, <1>5, <2>1, <2>2
<1>6. CASE /\ r.kind = "short" /\ n = 2 /\ h = 2 /\ o = 8
           /\ StagesOf(r) = {"first", "second", "offset", "copy"}
           /\ Code(me, a, 1) = 0 /\ Code(me, a + 1, 1) = 1
  <2>1. CASE stage = "first"
    <3>1. code = 0
      BY <1>2, <1>6, <2>1 DEF NumberPlaces
    <3>2. stage' = "second" /\ need' = 1 /\ size' = 1
      BY <2>1, <3>1, HeaderTo
    <3> QED  BY <1>2, <1>3, <1>6, <2>1, <3>2 DEF NumberPlaces
  <2>2. CASE stage = "second"
    <3>1. code = 1
      BY <1>2, <1>6, <2>2 DEF NumberPlaces
    <3>2. stage' = "offset" /\ need' = 8 /\ size' = 1
      BY <2>2, <3>1, HeaderTo
    <3> QED  BY <1>1, <1>2, <1>3, <1>6, <2>2, <3>2 DEF NumberPlaces
  <2> QED  BY <1>3, <1>6, <2>1, <2>2
<1>7. CASE /\ r.kind = "short" /\ n \in 3 .. 4 /\ h = 3 /\ o = n + 6
           /\ StagesOf(r) = {"first", "kind", "offset", "copy"}
           /\ Code(me, a, 1) = 1 /\ Code(me, a + 1, 2) = n - 3
  <2>1. CASE stage = "first"
    <3>1. code = 1
      BY <1>2, <1>7, <2>1 DEF NumberPlaces
    <3>2. stage' = "kind" /\ need' = 2
      BY <2>1, <3>1, HeaderTo
    <3> QED  BY <1>2, <1>3, <1>7, <2>1, <3>2 DEF NumberPlaces
  <2>2. CASE stage = "kind"
    <3>1. code = n - 3 /\ code \in 0 .. 1
      BY <1>2, <1>7, <2>2 DEF NumberPlaces
    <3>2. stage' = "offset" /\ need' = code + 9 /\ size' = code + 2
      BY <2>2, <3>1, HeaderTo
    <3>3. need' = o /\ size' = n - 1
      BY <1>7, <3>1, <3>2
    <3> QED  BY <1>1, <1>2, <1>3, <1>7, <2>2, <3>2, <3>3 DEF NumberPlaces
  <2> QED  BY <1>3, <1>7, <2>1, <2>2
<1>8. CASE /\ r.kind = "long" /\ n \in 1 .. 256 /\ h = 11 /\ o = 12
           /\ StagesOf(r) = {"first", "kind", "size", "offset", "copy"}
           /\ Code(me, a, 1) = 1 /\ Code(me, a + 1, 2) = 2 /\ Code(me, a + 3, 8) = n - 1
  <2>1. CASE stage = "first"
    <3>1. code = 1
      BY <1>2, <1>8, <2>1 DEF NumberPlaces
    <3>2. stage' = "kind" /\ need' = 2
      BY <2>1, <3>1, HeaderTo
    <3> QED  BY <1>2, <1>3, <1>8, <2>1, <3>2 DEF NumberPlaces
  <2>2. CASE stage = "kind"
    <3>1. code = 2
      BY <1>2, <1>8, <2>2 DEF NumberPlaces
    <3>2. stage' = "size" /\ need' = 8
      BY <2>2, <3>1, HeaderTo
    <3> QED  BY <1>2, <1>3, <1>8, <2>2, <3>2 DEF NumberPlaces
  <2>3. CASE stage = "size"
    <3>1. code = n - 1
      BY <1>2, <1>8, <2>3 DEF NumberPlaces
    <3>2. stage' = "offset" /\ need' = 12 /\ size' = n - 1
      BY <2>3, <3>1, HeaderTo
    <3> QED  BY <1>1, <1>2, <1>3, <1>8, <2>3, <3>2 DEF NumberPlaces
  <2> QED  BY <1>3, <1>8, <2>1, <2>2, <2>3
<1> QED  BY <1>1, <1>4, <1>5, <1>6, <1>7, <1>8, Heads

\* What a step of the unpacking begins with, and what it ends with.
LEMMA InRun ==
  ASSUME UnpackInv, Unpacking
  PROVE  /\ me \in Files /\ me.packedSize # me.size /\ MemoryInv
         /\ mem \in [0 .. Memory - 1 -> 0 .. 255]
         /\ \E r :
              /\ IsRun(me, r) /\ ReadingInv(r) /\ WritingInv(r)
              /\ r.n \in 1 .. 264 /\ Done(r) \in 0 .. r.n - 1 /\ r.at \in Nat
              /\ SpellsHead(me, r) /\ stage \in StagesOf(r)
<1>1. me \in Files /\ me.packedSize # me.size /\ MemoryInv /\ mem \in [0 .. Memory - 1 -> 0 .. 255]
  BY DEF UnpackInv
<1>2. PICK r : IsRun(me, r) /\ ReadingInv(r) /\ WritingInv(r)
  BY DEF UnpackInv, IsRun
<1>3. stage \in StagesOf(r)
  BY <1>2 DEF ReadingInv
<1>4. r.n \in 1 .. 264 /\ r.at \in Nat /\ SpellsHead(me, r)
  BY <1>1, <1>2, RunSizes
<1>5. Done(r) \in 0 .. r.n - 1
  BY <1>2, <1>4, DoneIs
<1> QED  BY <1>1, <1>2, <1>3, <1>4, <1>5

LEMMA StillInRun ==
  ASSUME me \in Files, me.packedSize # me.size, me' = me, Unpacking',
         NEW r, IsRun(me, r), ReadingInv(r)', WritingInv(r)', MemoryInv',
         mem' \in [0 .. Memory - 1 -> 0 .. 255]
  PROVE  UnpackInv'
<1>1. \E j \in 1 .. NumRuns(me) : ReadingInv(me.runs[j])' /\ WritingInv(me.runs[j])'
  BY DEF IsRun
<1> QED  BY <1>1 DEF UnpackInv

\* With no bit missing, code is the number that has been read.
LEMMA NumberRead ==
  ASSUME NEW r, ReadingInv(r), need = 0, NumberBits(r, stage) \in Nat
  PROVE  code = Code(me, NumberAt(r, stage, Done(r)), NumberBits(r, stage))
<1>1. NumberBits(r, stage) - need = NumberBits(r, stage)
  OBVIOUS
<1> QED  BY <1>1 DEF ReadingInv

LEMMA HeaderStep == UnpackInv /\ Header => UnpackInv'
<1> SUFFICES ASSUME UnpackInv, Header  PROVE UnpackInv'
  OBVIOUS
<1>1. UNCHANGED <<me, mem, oBuf, iBuf, chk, crc, datasize, count>> /\ need = 0
      /\ Unpacking /\ ~ Writing
  BY DEF Header, Unpacking, Writing
<1>2. PICK r :
        /\ IsRun(me, r) /\ ReadingInv(r) /\ WritingInv(r)
        /\ r.n \in 1 .. 264 /\ Done(r) \in 0 .. r.n - 1 /\ r.at \in Nat
        /\ SpellsHead(me, r) /\ stage \in StagesOf(r)
  BY <1>1, InRun
<1>3. me \in Files /\ me.packedSize # me.size /\ MemoryInv /\ mem \in [0 .. Memory - 1 -> 0 .. 255]
  BY <1>1, InRun
<1>4. NumberBits(r, stage) \in Nat /\ Done(r) = 0
  BY <1>1, <1>2, <1>3, NumberInRun DEF Done
<1>5. code = Code(me, NumberAt(r, stage, 0), NumberBits(r, stage))
  BY <1>1, <1>2, <1>4, NumberRead
<1>6. /\ stage' \in StagesOf(r) /\ stage' \notin {"literal", "copy"}
      /\ need' = NumberBits(r, stage') /\ code' = 0
      /\ NumberAt(r, stage', 0) = NumberAt(r, stage, 0) + NumberBits(r, stage)
      /\ stage' = "second" => size' = 1
      /\ stage' = "offset" => size' = r.n - 1
  BY <1>2, <1>5, HeaderNumber DEF ReadingInv
<1>7. Done(r)' = 0 /\ ~ Writing'
  BY <1>6 DEF Done, Writing
<1>8. Done(r)' \in 0 .. r.n - 1
  BY <1>2, <1>4, <1>7
<1>9. ReadingInv(r)'
  BY <1>1, <1>2, <1>3, <1>4, <1>6, <1>7, <1>8, NewNumber
<1>10. WritingInv(r)'
  BY <1>1, <1>2, <1>4, <1>7 DEF WritingInv
<1>11. MemoryInv'
  BY <1>1, <1>3 DEF MemoryInv
<1>12. Unpacking'
  <2>1. StagesOf(r) \cap {"idle", "unopened", "returned", "error"} = {}
    BY <1>2, Heads
  <2> QED  BY <1>6, <2>1 DEF Unpacking
<1> QED  BY <1>1, <1>2, <1>3, <1>9, <1>10, <1>11, <1>12, StillInRun

-----------------------------------------------------------------------------

\* decUnk1 begins: the run has the length that its head says.
LEMMA LiteralsStep == UnpackInv /\ Literals => UnpackInv'
<1> SUFFICES ASSUME UnpackInv, Literals  PROVE UnpackInv'
  OBVIOUS
<1>1. UNCHANGED <<me, mem, oBuf, iBuf, chk, crc, size>> /\ need = 0
      /\ stage \in {"literals", "manyLiterals"}
      /\ stage' = "literal" /\ need' = 8 /\ code' = 0
      /\ \E n : n = (IF stage = "literals" THEN code + 1 ELSE code + 8 + 1)
                /\ count' = n /\ datasize' = datasize - n
  BY DEF Literals, GetCode, Run
<1>2. Unpacking /\ ~ Writing /\ Unpacking' /\ Writing'
  BY <1>1 DEF Unpacking, Writing
<1>3. PICK r :
        /\ IsRun(me, r) /\ ReadingInv(r) /\ WritingInv(r)
        /\ r.n \in 1 .. 264 /\ Done(r) \in 0 .. r.n - 1 /\ r.at \in Nat
        /\ SpellsHead(me, r) /\ stage \in StagesOf(r)
  BY <1>2, InRun
<1>4. me \in Files /\ me.packedSize # me.size /\ MemoryInv /\ mem \in [0 .. Memory - 1 -> 0 .. 255]
  BY <1>2, InRun
<1>5. NumberBits(r, stage) \in Nat /\ Done(r) = 0
  <2>1. NumberBits(r, stage) \in Nat
    BY <1>3, <1>4, NumberInRun
  <2> QED  BY <1>2, <2>1 DEF Done
<1>6. code = Code(me, NumberAt(r, stage, 0), NumberBits(r, stage))
  BY <1>1, <1>3, <1>5, NumberRead
<1>7. /\ (IF stage = "literals" THEN code + 1 ELSE code + 8 + 1) = r.n
      /\ "literal" \in StagesOf(r)
      /\ NumberAt(r, "literal", 0) = NumberAt(r, stage, 0) + NumberBits(r, stage)
      /\ NumberBits(r, "literal") = 8
  <2>1. PICK a, n, h, o : a = r.at /\ n = r.n /\ h = HeadBits(r) /\ o = OffsetBits(r)
    OBVIOUS
  <2>2. NumberPlaces(r, stage, 0, a, h, o) /\ NumberPlaces(r, "literal", 0, a, h, o) /\ a \in Nat
    BY <1>3, <2>1, PlacesOf
  <2>3. CASE /\ n \in 1 .. 8 /\ h = 5 /\ StagesOf(r) = {"first", "second", "literals", "literal"}
             /\ Code(me, a + 2, 3) = n - 1
    BY <1>1, <1>3, <1>6, <2>1, <2>2, <2>3 DEF NumberPlaces
  <2>4. CASE /\ n \in 9 .. 264 /\ h = 11 /\ StagesOf(r) = {"first", "kind", "manyLiterals", "literal"}
             /\ Code(me, a + 3, 8) = n - 9
    BY <1>1, <1>3, <1>6, <2>1, <2>2, <2>4 DEF NumberPlaces
  <2>5. ~ ({"offset", "copy"} \subseteq StagesOf(r))
    BY <1>1, <1>3, Heads
  <2> QED  BY <1>3, <2>1, <2>3, <2>4, <2>5, Heads
<1>8. count' = r.n /\ datasize' = r.left - r.n
  BY <1>1, <1>2, <1>3, <1>7 DEF WritingInv
<1>9. Done(r)' = 0
  BY <1>2, <1>3, <1>8 DEF Done
<1>10. ReadingInv(r)'
  <2>1. Done(r)' \in 0 .. r.n - 1
    BY <1>3, <1>9
  <2> QED  BY <1>1, <1>3, <1>4, <1>5, <1>7, <1>9, <2>1, NewNumber
<1>11. WritingInv(r)'
  <2>1. oBuf' = r.left - 1 - Done(r)'
    BY <1>1, <1>3, <1>5, <1>9 DEF WritingInv
  <2>2. count' \in 1 .. r.n
    BY <1>3, <1>8
  <2> QED  BY <1>2, <1>8, <2>1, <2>2 DEF WritingInv
<1>12. MemoryInv'
  BY <1>1, <1>4 DEF MemoryInv
<1> QED  BY <1>1, <1>2, <1>3, <1>4, <1>10, <1>11, <1>12, StillInRun

\* decUnk2 begins; code stays what it is.
LEMMA CopyStep == UnpackInv /\ Copy => UnpackInv'
<1> SUFFICES ASSUME UnpackInv, Copy  PROVE UnpackInv'
  OBVIOUS
<1>1. UNCHANGED <<me, mem, oBuf, iBuf, chk, crc, size, need, code>> /\ need = 0
      /\ stage = "offset" /\ stage' = "copy"
      /\ count' = size + 1 /\ datasize' = datasize - (size + 1)
  BY DEF Copy, Run, bits
<1>2. Unpacking /\ ~ Writing /\ Unpacking' /\ Writing'
  BY <1>1 DEF Unpacking, Writing
<1>3. PICK r :
        /\ IsRun(me, r) /\ ReadingInv(r) /\ WritingInv(r)
        /\ r.n \in 1 .. 264 /\ Done(r) \in 0 .. r.n - 1 /\ r.at \in Nat
        /\ SpellsHead(me, r) /\ stage \in StagesOf(r)
  BY <1>2, InRun
<1>4. me \in Files /\ me.packedSize # me.size /\ MemoryInv /\ mem \in [0 .. Memory - 1 -> 0 .. 255]
  BY <1>2, InRun
<1>5. size + 1 = r.n
  BY <1>1, <1>3 DEF ReadingInv
<1>6. count' = r.n /\ datasize' = r.left - r.n
  BY <1>1, <1>2, <1>3, <1>5 DEF WritingInv
<1>7. Done(r) = 0 /\ Done(r)' = 0
  BY <1>2, <1>3, <1>6 DEF Done
<1>8. ReadingInv(r)'
  <2>1. NumberAt(r, stage', Done(r)') = NumberAt(r, stage, Done(r))
        /\ NumberBits(r, stage') = NumberBits(r, stage)
    BY <1>1 DEF NumberAt, NumberBits
  <2>2. stage' \in StagesOf(r)
    <3>1. "offset" \in StagesOf(r) => "copy" \in StagesOf(r)
      BY <1>3, Heads
    <3> QED  BY <1>1, <1>3, <3>1
  <2>3. PICK b, w : b = NumberAt(r, stage, Done(r)) /\ w = NumberBits(r, stage)
    OBVIOUS
  <2>4. need \in 0 .. w /\ code = Code(me, b, w - need) /\ BitsRead(b + w - need)
    BY <1>3, <2>3 DEF ReadingInv
  <2>5. need' \in 0 .. w /\ code' = Code(me', b, w - need')
    BY <1>1, <2>4
  <2>6. BitsRead(b + w - need)'
    BY <1>1, <2>4 DEF BitsRead
  <2> QED  BY <1>1, <2>1, <2>2, <2>3, <2>5, <2>6 DEF ReadingInv
<1>9. WritingInv(r)'
  <2>1. oBuf' = r.left - 1 - Done(r)'
    BY <1>1, <1>3, <1>7 DEF WritingInv
  <2>2. count' \in 1 .. r.n
    BY <1>3, <1>6
  <2> QED  BY <1>2, <1>6, <2>1, <2>2 DEF WritingInv
<1>10. MemoryInv'
  BY <1>1, <1>4 DEF MemoryInv
<1> QED  BY <1>1, <1>2, <1>3, <1>4, <1>8, <1>9, <1>10, StillInRun

-----------------------------------------------------------------------------

\* When the number is read that a byte comes from, there is room for the byte.
LEMMA Room ==
  ASSUME me \in Files, me.packedSize # me.size, NEW r, IsRun(me, r),
         ReadingInv(r), WritingInv(r), Writing
  PROVE  r.left - 1 - Done(r)
           >= WordAfter(me, NumberAt(r, stage, Done(r)) + NumberBits(r, stage)) + 4
<1>1. PICK n, i : n = r.n /\ i = Done(r)
  OBVIOUS
<1>2. n \in 1 .. 264 /\ r.kind \in {"bytes", "short", "long"}
  BY <1>1, RunSizes
<1>3. i \in 0 .. n - 1 /\ stage \in StagesOf(r)
  <2>1. Done(r) \in 0 .. r.n - 1
    BY <1>1, <1>2, DoneIs
  <2> QED  BY <1>1, <2>1 DEF ReadingInv
<1>4. PICK p : p = NumberAt(r, stage, i) + NumberBits(r, stage)
  OBVIOUS
<1>5. p = r.at + HeadBits(r) + (IF r.kind = "bytes" THEN 8 * (i + 1) ELSE OffsetBits(r))
  <2>1. PICK a, h, o : a = r.at /\ h = HeadBits(r) /\ o = OffsetBits(r)
    OBVIOUS
  <2>2. a \in Nat /\ h \in Nat
    BY <2>1, RunSizes
  <2>3. NumberPlaces(r, stage, i, a, h, o)
    BY <2>1, PlacesOf
  <2>4. CASE stage = "literal"
    <3>1. r.kind = "bytes"
      BY <1>2, <1>3, <2>4 DEF StagesOf
    <3>2. p = a + h + 8 * i + 8
      BY <1>4, <2>3, <2>4 DEF NumberPlaces
    <3>3. i \in Nat
      BY <1>2, <1>3
    <3>4. p = a + h + 8 * (i + 1)
      BY <2>2, <3>2, <3>3
    <3> QED  BY <2>1, <3>1, <3>4
  <2>5. CASE stage = "copy"
    <3>1. r.kind # "bytes"
      <4>1. SpellsHead(me, r)
        BY RunSizes
      <4>2. "copy" \in StagesOf(r) => r.kind # "bytes"
        BY <4>1, Heads
      <4> QED  BY <1>3, <2>5, <4>2
    <3>2. p = a + h + o
      BY <1>4, <2>3, <2>5 DEF NumberPlaces
    <3> QED  BY <2>1, <3>1, <3>2
  <2> QED  BY <2>4, <2>5 DEF Writing
<1>6. LeavesRoom(me)
  BY Sizes
<1> QED  BY <1>1, <1>3, <1>4, <1>5, <1>6 DEF LeavesRoom, IsRun

\* A byte is written where nothing is left to be read, and is the one that is meant.
LEMMA PutStep ==
  ASSUME me \in Files, me.packedSize # me.size, NEW r, IsRun(me, r),
         ReadingInv(r), WritingInv(r), MemoryInv, Writing, need = 0,
         mem \in [0 .. Memory - 1 -> 0 .. 255],
         \E b \in 0 .. 255 : Put(b) /\ (~ me.damaged => b = me.plain[r.left - 1 - Done(r)]),
         UNCHANGED <<me, iBuf>>
  PROVE  /\ mem' \in [0 .. Memory - 1 -> 0 .. 255] /\ MemoryInv'
         /\ oBuf' = r.left - 1 - (Done(r) + 1)
<1>1. PICK l, n, i : l = r.left /\ n = r.n /\ i = Done(r)
  OBVIOUS
<1>2. l \in Int /\ l <= me.size /\ l >= n /\ n \in 1 .. 264 /\ r.kind \in {"bytes", "short", "long"}
      /\ me.size <= Memory /\ me.size \in Nat /\ Memory \in Nat /\ me.packedSize \in Nat
  <2>1. l \in 1 .. me.size /\ l >= n /\ n \in 1 .. 264 /\ r.kind \in {"bytes", "short", "long"}
    BY <1>1, RunSizes
  <2>2. me.size <= Memory /\ me.size \in Nat /\ Memory \in Nat /\ me.packedSize \in Nat
    BY Sizes
  <2> QED  BY <2>1, <2>2
<1>3. i \in 0 .. n - 1 /\ stage \in StagesOf(r)
  <2>1. Done(r) \in 0 .. r.n - 1
    BY <1>1, <1>2, DoneIs
  <2> QED  BY <1>1, <2>1 DEF ReadingInv
<1>4. PICK p : p = NumberAt(r, stage, i) + NumberBits(r, stage)
  OBVIOUS
<1>5. p \in Nat \ {0} /\ iBuf = WordAfter(me, p)
  <2>1. PICK a, w : a = NumberAt(r, stage, i) /\ w = NumberBits(r, stage)
    OBVIOUS
  <2>2. a \in Nat \ {0} /\ w \in 1 .. 12
    BY <1>1, <1>3, <2>1, NumberInRun
  <2>3. BitsRead(a + w - need) /\ a + w - need = p /\ p \in Nat \ {0}
    BY <1>1, <1>4, <2>1, <2>2 DEF ReadingInv
  <2> QED  BY <2>3 DEF BitsRead
<1>6. l - 1 - i >= WordAfter(me, p) + 4
  BY <1>1, <1>4, Room
<1>7. PICK o, d : o = oBuf /\ d = iBuf
  OBVIOUS
<1>8. o = l - 1 - i /\ d \in Int /\ o >= d + 4 /\ o \in 0 .. Memory - 1
  <2>1. o = l - 1 - i
    BY <1>1, <1>7 DEF WritingInv
  <2>2. WordAfter(me, p) \in Int
    BY <1>2, <1>5 DEF WordAfter
  <2> QED  BY <1>2, <1>3, <1>5, <1>6, <1>7, <2>1, <2>2
<1>9. PICK b \in 0 .. 255 :
        /\ mem' = [mem EXCEPT ![o] = b] /\ oBuf' = o - 1
        /\ ~ me.damaged => b = me.plain[l - 1 - i]
  <2>1. PICK b \in 0 .. 255 : Put(b) /\ (~ me.damaged => b = me.plain[r.left - 1 - Done(r)])
    OBVIOUS
  <2>2. mem' = [mem EXCEPT ![o] = b] /\ oBuf' = o - 1
    BY <1>7, <2>1 DEF Put
  <2>3. ~ me.damaged => b = me.plain[l - 1 - i]
    BY <1>1, <2>1
  <2>4. b \in 0 .. 255
    OBVIOUS
  <2> QED  BY <2>2, <2>3, <2>4, Zenon
<1>10. mem' \in [0 .. Memory - 1 -> 0 .. 255]
  BY <1>8, <1>9
<1>11. MemoryInv'
  <2>1. \A a \in 0 .. d + 3 : mem'[a] = me.packed[a]
    <3>1. \A a \in 0 .. d + 3 : a # o /\ a \in 0 .. Memory - 1
      BY <1>2, <1>8
    <3> QED  BY <1>7, <1>9, <3>1 DEF MemoryInv
  <2>2. ASSUME ~ me.damaged, NEW a \in (o - 1) + 1 .. me.size - 1  PROVE mem'[a] = me.plain[a]
    <3>1. a \in 0 .. Memory - 1 /\ (a = o \/ a \in o + 1 .. me.size - 1)
      BY <1>2, <1>8
    <3>2. CASE a = o
      BY <1>1, <1>8, <1>9, <2>2, <3>1, <3>2
    <3>3. CASE a # o
      BY <1>7, <1>9, <2>2, <3>1, <3>3 DEF MemoryInv
    <3> QED  BY <3>2, <3>3
  <2> QED  BY <1>7, <1>9, <2>1, <2>2 DEF MemoryInv
<1>12. oBuf' = l - 1 - (i + 1)
  BY <1>2, <1>3, <1>8, <1>9
<1> QED  BY <1>1, <1>10, <1>11, <1>12

\* The checksum is zero in the end if it holds.
LEMMA ChecksumAtEnd ==
  ASSUME me \in Files, me.packedSize # me.size, BitsRead(32 * NumWords(me))
  PROVE  crc = {} <=> ChecksumHolds(me)
<1>1. PICK n \in Nat \ {0} : n = NumWords(me)
  BY Sizes
<1>2. (32 * n - 1) \div 32 = n - 1
  BY <1>1
<1> DEFINE C(k) == Cardinality({w \in -1 .. n - 1 : k \in FileWord(me, w)}) % 2
<1>3. crc \subseteq Word /\ \A k \in Word : k \in crc <=> C(k) = 1
  BY <1>1, <1>2 DEF BitsRead
<1>4. ASSUME NEW k \in Word  PROVE C(k) \in {0, 1}
  <2>1. PICK m : m = Cardinality({w \in -1 .. n - 1 : k \in FileWord(me, w)})
    OBVIOUS
  <2>2. m \in Nat
    <3>1. IsFiniteSet(-1 .. n - 1)
      BY <1>1, FS_Interval
    <3> QED  BY <2>1, <3>1, FS_Subset, FS_CardinalityType
  <2>3. m % 2 \in {0, 1}
    BY <2>2
  <2> QED  BY <2>1, <2>3
<1>5. ChecksumHolds(me) <=> \A k \in Word : C(k) = 0
  BY <1>1 DEF ChecksumHolds
<1> HIDE DEF C
<1>6. crc = {} <=> \A k \in Word : C(k) = 0
  BY <1>3, <1>4
<1> QED  BY <1>5, <1>6

\* A run has been written, and the next one begins; or it was the last one.
LEMMA EndStep ==
  ASSUME me \in Files, me.packedSize # me.size, NEW r, IsRun(me, r),
         EndOfRun, BitsRead(r.at + RunBits(r)), datasize = r.left - r.n,
         UNCHANGED <<me, iBuf, chk, crc, datasize>>, count' = 0, oBuf' = r.left - 1 - r.n,
         mem' \in [0 .. Memory - 1 -> 0 .. 255], MemoryInv'
  PROVE  UnpackInv'
<1>1. PICK l, n \in Int : l = r.left /\ n = r.n
  <2>1. r.left \in Int /\ r.n \in Int
    BY RunSizes
  <2> QED  BY <2>1
<1>2. CASE l = n /\ r.at + RunBits(r) = 32 * NumWords(me)
  <2>1. l - n = 0 /\ l - 1 - n = -1
    BY <1>2
  <2>2. datasize = 0 /\ oBuf' = -1
    BY <1>1, <2>1
  <2>3. stage' = IF crc = {} THEN "returned" ELSE "error"
    BY <2>2 DEF EndOfRun
  <2>4. crc = {} <=> ChecksumHolds(me)
    BY <1>2, ChecksumAtEnd
  <2>5. me.damaged <=> ~ ChecksumHolds(me)
    BY FormatAssumption
  <2>6. ~ me.damaged => \A a \in 0 .. me.size - 1 : mem'[a] = me.plain[a]
    BY <2>2 DEF MemoryInv
  <2> QED  BY <2>3, <2>4, <2>5, <2>6 DEF UnpackInv, Unpacking
<1>3. ASSUME NEW r2, IsRun(me, r2), r2.at = r.at + RunBits(r), r2.left = r.left - r.n
      PROVE  UnpackInv'
  <2>1. PICK k, q \in Int : k = r2.left /\ q = r2.at
    <3>1. r2.left \in Int /\ r2.at \in Int
      BY <1>3, RunSizes
    <3> QED  BY <3>1
  <2>2. k > 0 /\ q \in Nat \ {0} /\ SpellsHead(me, r2)
    BY <1>3, <2>1, RunSizes
  <2>3. k = l - n
    BY <1>1, <1>3, <2>1
  <2>4. stage' = "first" /\ need' = 1 /\ code' = 0
    BY <1>1, <2>2, <2>3 DEF EndOfRun, GetCode
  <2>5. Unpacking' /\ ~ Writing' /\ Done(r2)' = 0
    BY <2>4 DEF Unpacking, Writing, Done
  <2>6. WritingInv(r2)'
    <3>1. l - 1 - n = k - 1 - 0
      BY <2>1, <2>3
    <3>2. oBuf' = r2.left - 1 - Done(r2)'
      BY <1>1, <2>1, <2>5, <3>1
    <3> QED  BY <1>3, <2>5, <3>2 DEF WritingInv
  <2>7. ReadingInv(r2)'
    <3>1. NumberAt(r2, "first", 0) = q /\ NumberBits(r2, "first") = 1
      BY <2>1 DEF NumberAt, NumberBits
    <3>2. "first" \in StagesOf(r2)
      BY <2>2, Heads
    <3>3. q + 1 - 1 = q /\ 1 - 1 = 0
      BY <2>1
    <3>4. BitsRead(q)'
      BY <1>3, <2>1 DEF BitsRead
    <3>5. Code(me, q, 0) = 0
      BY CodeIs
    <3>6. BitsRead(q + 1 - need)' /\ code' = Code(me', q, 1 - need') /\ need' \in 0 .. 1
      BY <2>4, <3>3, <3>4, <3>5
    <3> QED  BY <2>4, <2>5, <3>1, <3>2, <3>6 DEF ReadingInv
  <2> QED  BY <1>3, <2>5, <2>6, <2>7, StillInRun
<1>4. \/ r.left = r.n /\ r.at + RunBits(r) = 32 * NumWords(me)
      \/ \E r2 : IsRun(me, r2) /\ r2.at = r.at + RunBits(r) /\ r2.left = r.left - r.n
  <2>1. InSequence(me) /\ NumRuns(me) \in Nat
    BY Sizes DEF InSequence
  <2>2. PICK j \in 1 .. NumRuns(me) : r = me.runs[j]
    BY DEF IsRun
  <2>3. CASE j = NumRuns(me)
    BY <2>1, <2>2, <2>3 DEF InSequence
  <2>4. CASE j # NumRuns(me)
    <3>1. j \in 1 .. NumRuns(me) - 1 /\ j + 1 \in 1 .. NumRuns(me)
      BY <2>1, <2>4
    <3>2. me.runs[j + 1].at = r.at + RunBits(r) /\ me.runs[j + 1].left = r.left - r.n
      BY <2>1, <2>2, <3>1 DEF InSequence
    <3> QED  BY <3>1, <3>2 DEF IsRun
  <2> QED  BY <2>3, <2>4
<1> QED  BY <1>1, <1>2, <1>3, <1>4

\* A byte of a run has been written, and it was not the last one.
LEMMA NextByte ==
  ASSUME me \in Files, me.packedSize # me.size, NEW r, IsRun(me, r),
         ReadingInv(r), WritingInv(r), Writing, stage' = stage, need = 0,
         count > 1, count' = count - 1, oBuf' = r.left - 1 - (Done(r) + 1),
         UNCHANGED <<me, iBuf, chk, crc, datasize>>,
         \/ stage = "literal" /\ need' = 8 /\ code' = 0
         \/ stage = "copy" /\ UNCHANGED <<need, code>>,
         mem' \in [0 .. Memory - 1 -> 0 .. 255], MemoryInv'
  PROVE  UnpackInv'
<1>1. PICK n, i : n = r.n /\ i = Done(r)
  OBVIOUS
<1>2. n \in 1 .. 264 /\ SpellsHead(me, r) /\ r.at \in Nat /\ HeadBits(r) \in Nat
  <2>1. r.n \in 1 .. 264 /\ SpellsHead(me, r) /\ HeadBits(r) \in Nat /\ r.at \in Nat \ {0}
    BY Zenon, RunSizes
  <2> QED  BY <1>1, <2>1
<1>3. PICK c \in 2 .. n : c = count /\ i = n - c
  <2>1. count \in 1 .. n /\ i = n - count
    BY <1>1 DEF WritingInv, Done
  <2>2. count \in 2 .. n
    BY <1>2, <2>1
  <2> QED  BY <2>1, <2>2
<1>4. Writing' /\ Unpacking' /\ Done(r)' = i + 1 /\ i + 1 \in 0 .. n - 1
  <2>1. Writing' /\ Unpacking'
    BY DEF Writing, Unpacking
  <2>2. Done(r)' = n - (c - 1)
    BY <1>1, <1>3, <2>1 DEF Done
  <2>3. n - (c - 1) = i + 1 /\ i + 1 \in 0 .. n - 1
    BY <1>2, <1>3
  <2> QED  BY <2>1, <2>2, <2>3
<1>5. WritingInv(r)'
  <2>1. count' \in 1 .. n
    <3>1. c - 1 \in 1 .. n
      BY <1>2, <1>3
    <3> QED  BY <1>3, <3>1
  <2>2. oBuf' = r.left - 1 - Done(r)'
    BY <1>1, <1>4
  <2>3. datasize' = r.left - r.n
    BY DEF WritingInv
  <2> QED  BY <1>1, <1>4, <2>1, <2>2, <2>3 DEF WritingInv
<1>6. ReadingInv(r)'
  <2>1. CASE stage = "literal"
    <3>1. stage' \in StagesOf(r) /\ stage' = "literal"
      BY <2>1 DEF ReadingInv
    <3>2. PICK a, h, o : a = r.at /\ h = HeadBits(r) /\ o = OffsetBits(r)
      OBVIOUS
    <3>3. a \in Nat /\ h \in Nat /\ i \in Nat
      BY <1>2, <1>3, <3>2
    <3>4. NumberPlaces(r, stage, i, a, h, o) /\ NumberPlaces(r, stage, i + 1, a, h, o)
      BY <3>2, PlacesOf
    <3>5. NumberAt(r, stage, i) = a + h + 8 * i /\ NumberBits(r, stage) = 8
          /\ NumberAt(r, stage, i + 1) = a + h + 8 * (i + 1)
      BY <2>1, <3>4 DEF NumberPlaces
    <3>6. NumberAt(r, stage', Done(r)') = NumberAt(r, stage, Done(r)) + NumberBits(r, stage)
      <4>1. a + h + 8 * (i + 1) = a + h + 8 * i + 8
        BY <3>3
      <4> QED  BY <1>1, <1>4, <3>5, <4>1
    <3>7. need' = NumberBits(r, stage') /\ code' = 0 /\ stage' # "copy"
          /\ stage' # "second" /\ stage' # "offset"
      BY <2>1, <3>5
    <3> QED  BY <1>1, <1>4, <3>1, <3>6, <3>7, NewNumber
  <2>2. CASE stage = "copy"
    <3>1. NumberAt(r, stage', Done(r)') = NumberAt(r, stage, Done(r))
          /\ NumberBits(r, stage') = NumberBits(r, stage)
      BY <2>2 DEF NumberAt, NumberBits
    <3>2. PICK b, w : b = NumberAt(r, stage, Done(r)) /\ w = NumberBits(r, stage)
      OBVIOUS
    <3>3. need \in 0 .. w /\ code = Code(me, b, w - need) /\ BitsRead(b + w - need)
          /\ stage \in StagesOf(r)
      BY <3>2 DEF ReadingInv
    <3>4. UNCHANGED <<need, code>>
      BY <2>2
    <3>5. need' \in 0 .. w /\ code' = Code(me', b, w - need')
      BY <3>3, <3>4
    <3>6. BitsRead(b + w - need)'
      BY <3>3, <3>4 DEF BitsRead
    <3> QED  BY <2>2, <3>1, <3>2, <3>3, <3>4, <3>5, <3>6 DEF ReadingInv
  <2> QED  BY <2>1, <2>2
<1> QED  BY <1>4, <1>5, <1>6, StillInRun

\* The bytes of a run are those that are meant.
LEMMA BytesMeant ==
  ASSUME NEW f \in Files, f.packedSize # f.size, ~ f.damaged, NEW r, IsRun(f, r),
         NEW i \in 0 .. r.n - 1
  PROVE  f.plain[r.left - 1 - i] = IF r.kind = "bytes" THEN StoredByte(f, r, i)
                                   ELSE f.plain[r.left - 1 - i + r.offset]
<1>1. StandsForPlain(f)
  BY FormatAssumption
<1> QED  BY <1>1 DEF StandsForPlain, IsRun

\* decUnk1 writes a byte.
LEMMA LiteralStep == UnpackInv /\ Literal => UnpackInv'
<1> SUFFICES ASSUME UnpackInv, Literal  PROVE UnpackInv'
  OBVIOUS
<1>1. /\ need = 0 /\ stage = "literal" /\ Put(code) /\ count' = count - 1
      /\ IF count > 1 THEN GetCode(8, "literal") ELSE EndOfRun
      /\ UNCHANGED <<me, iBuf, chk, crc, datasize>>
  BY DEF Literal, unpCtx
<1>2. Unpacking /\ Writing
  BY <1>1 DEF Unpacking, Writing
<1>3. PICK r :
        /\ IsRun(me, r) /\ ReadingInv(r) /\ WritingInv(r)
        /\ r.n \in 1 .. 264 /\ Done(r) \in 0 .. r.n - 1 /\ r.at \in Nat
        /\ SpellsHead(me, r) /\ stage \in StagesOf(r)
  BY <1>2, InRun
<1>4. me \in Files /\ me.packedSize # me.size /\ MemoryInv /\ mem \in [0 .. Memory - 1 -> 0 .. 255]
  BY <1>2, InRun
<1>5. r.kind = "bytes"
  <2>1. "literal" \in StagesOf(r) => r.kind = "bytes"
    BY <1>3, Heads
  <2> QED  BY <1>1, <1>3, <2>1
<1>6. PICK n, i, a, h, o : n = r.n /\ i = Done(r) /\ a = r.at /\ h = HeadBits(r) /\ o = OffsetBits(r)
  OBVIOUS
<1>7. n \in 1 .. 264 /\ i \in 0 .. n - 1 /\ a \in Nat /\ h \in Nat /\ count \in 1 .. n /\ i = n - count
  <2>1. n \in 1 .. 264 /\ i \in 0 .. n - 1 /\ a \in Nat /\ h \in Nat
    BY <1>3, <1>4, <1>6, RunSizes
  <2>2. count \in 1 .. n /\ i = n - count
    BY <1>2, <1>3, <1>6 DEF WritingInv, Done
  <2> QED  BY <2>1, <2>2
<1>8. NumberAt(r, stage, i) = a + h + 8 * i /\ NumberBits(r, stage) = 8
  <2>1. NumberPlaces(r, stage, i, a, h, o)
    BY <1>6, PlacesOf
  <2> QED  BY <1>1, <2>1 DEF NumberPlaces
<1>9. code = StoredByte(me, r, i) /\ BitsRead(a + h + 8 * i + 8)
  <2>1. code = Code(me, a + h + 8 * i, 8)
    <3>1. NumberBits(r, stage) \in Nat
      BY <1>8
    <3> QED  BY <1>1, <1>3, <1>6, <1>8, <3>1, NumberRead
  <2>2. BitsRead(NumberAt(r, stage, i) + NumberBits(r, stage) - need)
    BY <1>3, <1>6 DEF ReadingInv
  <2>3. a + h + 8 * i + 8 - 0 = a + h + 8 * i + 8
    BY <1>7
  <2>4. BitsRead(a + h + 8 * i + 8)
    BY <1>1, <1>8, <2>2, <2>3
  <2> QED  BY <1>6, <2>1, <2>4 DEF StoredByte
<1>10. code \in 0 .. 255 /\ (~ me.damaged => code = me.plain[r.left - 1 - Done(r)])
  <2>1. code \in 0 .. 255
    BY <1>9, ByteIs DEF StoredByte
  <2>2. ASSUME ~ me.damaged  PROVE code = me.plain[r.left - 1 - Done(r)]
    BY <1>3, <1>4, <1>5, <1>6, <1>9, <2>2, BytesMeant
  <2> QED  BY <2>1, <2>2
<1>11. /\ mem' \in [0 .. Memory - 1 -> 0 .. 255] /\ MemoryInv'
       /\ oBuf' = r.left - 1 - (Done(r) + 1)
  <2>1. /\ UNCHANGED <<me, iBuf>> /\ need = 0
        /\ \E b \in 0 .. 255 :
             Put(b) /\ (~ me.damaged => b = me.plain[r.left - 1 - Done(r)])
    <3>1. Put(code)
      BY <1>1
    <3>2. UNCHANGED <<me, iBuf>> /\ need = 0
      BY <1>1
    <3> QED  BY <1>10, <3>1, <3>2
  <2>2. IsRun(me, r) /\ ReadingInv(r) /\ WritingInv(r)
    BY <1>3
  <2> QED  BY <1>2, <1>4, <2>1, <2>2, PutStep
<1>12. CASE count > 1
  <2>1. stage' = stage /\ need' = 8 /\ code' = 0
    BY <1>1, <1>12 DEF GetCode
  <2> QED  BY <1>1, <1>2, <1>3, <1>4, <1>11, <1>12, <2>1, NextByte
<1>13. CASE ~ (count > 1)
  <2>1. count = 1 /\ i + 1 = n /\ count' = 0
    BY <1>1, <1>7, <1>13
  <2>2. r.at + RunBits(r) = a + h + 8 * i + 8
    <3>1. r.at + RunBits(r) = a + (h + 8 * n)
      BY <1>5, <1>6 DEF RunBits
    <3> QED  BY <1>7, <2>1, <3>1
  <2>3. oBuf' = r.left - 1 - r.n /\ datasize = r.left - r.n
    BY <1>2, <1>3, <1>6, <1>11, <2>1 DEF WritingInv
  <2>4. BitsRead(r.at + RunBits(r))
    BY <1>9, <2>2
  <2> QED  BY <1>1, <1>3, <1>4, <1>11, <1>13, <2>1, <2>3, <2>4, EndStep
<1> QED  BY <1>12, <1>13

\* decUnk2 writes a byte, and the one that it repeats has been written.
LEMMA CopyByteStep == UnpackInv /\ CopyByte => UnpackInv'
<1> SUFFICES ASSUME UnpackInv, CopyByte  PROVE UnpackInv'
  OBVIOUS
<1>1. /\ need = 0 /\ stage = "copy" /\ Put(mem[oBuf + code]) /\ count' = count - 1
      /\ IF count > 1 THEN UNCHANGED <<stage, need, code>> ELSE EndOfRun
      /\ UNCHANGED <<me, iBuf, chk, crc, datasize>>
  BY DEF CopyByte, unpCtx
<1>2. Unpacking /\ Writing
  BY <1>1 DEF Unpacking, Writing
<1>3. PICK r :
        /\ IsRun(me, r) /\ ReadingInv(r) /\ WritingInv(r)
        /\ r.n \in 1 .. 264 /\ Done(r) \in 0 .. r.n - 1 /\ r.at \in Nat
        /\ SpellsHead(me, r) /\ stage \in StagesOf(r)
  BY <1>2, InRun
<1>4. me \in Files /\ me.packedSize # me.size /\ MemoryInv /\ mem \in [0 .. Memory - 1 -> 0 .. 255]
  BY <1>2, InRun
<1>5. r.kind # "bytes"
  <2>1. "copy" \in StagesOf(r) => r.kind # "bytes"
    BY <1>3, Heads
  <2> QED  BY <1>1, <1>3, <2>1
<1>6. PICK n, i, a, h, o, l, d :
        /\ n = r.n /\ i = Done(r) /\ a = r.at /\ h = HeadBits(r) /\ o = OffsetBits(r)
        /\ l = r.left /\ d = r.offset
  OBVIOUS
<1>7. /\ n \in 1 .. 264 /\ i \in 0 .. n - 1 /\ a \in Nat /\ h \in Nat /\ count \in 1 .. n /\ i = n - count
      /\ l \in Int /\ l >= n
  <2>1. n \in 1 .. 264 /\ i \in 0 .. n - 1 /\ a \in Nat /\ h \in Nat
    BY <1>3, <1>4, <1>6, RunSizes
  <2>2. count \in 1 .. n /\ i = n - count
    BY <1>2, <1>3, <1>6 DEF WritingInv, Done
  <2>3. l \in Int /\ l >= n
    BY <1>3, <1>4, <1>6, RunSizes
  <2> QED  BY <2>1, <2>2, <2>3
<1>8. SpellsOffset(me, r) /\ d \in 1 .. me.size - l /\ me.size \in Nat /\ me.size <= Memory /\ Memory \in Nat
  <2>1. SpellsOffset(me, r)
    BY <1>3, <1>4, <1>5, RunSizes
  <2>2. me.size \in Nat /\ me.size <= Memory /\ Memory \in Nat
    BY <1>4, BankAssumption
  <2> QED  BY <1>6, <2>1, <2>2 DEF SpellsOffset
<1>9. NumberAt(r, stage, i) = a + h /\ NumberBits(r, stage) = o /\ o \in Nat
  <2>1. NumberPlaces(r, stage, i, a, h, o)
    BY <1>6, PlacesOf
  <2>2. NumberBits(r, stage) \in 1 .. 12
    BY <1>3, <1>4, <1>6, NumberInRun
  <2>3. NumberAt(r, stage, i) = a + h /\ NumberBits(r, stage) = o
    BY <1>1, <2>1 DEF NumberPlaces
  <2> QED  BY <2>2, <2>3
<1>10. code = d /\ BitsRead(a + h + o)
  <2>1. code = Code(me, a + h, o)
    BY <1>1, <1>3, <1>6, <1>9, NumberRead
  <2>2. BitsRead(NumberAt(r, stage, i) + NumberBits(r, stage) - need)
    BY <1>3, <1>6 DEF ReadingInv
  <2>3. a + h + o - 0 = a + h + o
    BY <1>7, <1>9
  <2>4. BitsRead(a + h + o)
    BY <1>1, <1>9, <2>2, <2>3
  <2> QED  BY <1>6, <1>8, <2>1, <2>4 DEF SpellsOffset
<1>11. PICK c : c = oBuf + code
  OBVIOUS
<1>12. c = l - 1 - i + d /\ c \in 0 .. Memory - 1 /\ c <= me.size - 1
       /\ oBuf = l - 1 - i /\ c > oBuf
  <2>1. oBuf = l - 1 - i
    BY <1>3, <1>6 DEF WritingInv
  <2>2. c = l - 1 - i + d
    BY <1>10, <1>11, <2>1
  <2> QED  BY <1>7, <1>8, <2>1, <2>2
<1>13. mem[c] \in 0 .. 255 /\ (~ me.damaged => mem[c] = me.plain[r.left - 1 - Done(r)])
  <2>1. mem[c] \in 0 .. 255
    BY <1>4, <1>12
  <2>2. ASSUME ~ me.damaged  PROVE mem[c] = me.plain[r.left - 1 - Done(r)]
    <3>1. c \in oBuf + 1 .. me.size - 1
      BY <1>7, <1>8, <1>12
    <3>2. mem[c] = me.plain[c]
      BY <1>4, <2>2, <3>1 DEF MemoryInv
    <3>3. me.plain[r.left - 1 - Done(r)] = me.plain[r.left - 1 - Done(r) + r.offset]
      BY <1>3, <1>4, <1>5, <2>2, BytesMeant
    <3> QED  BY <1>6, <1>12, <3>2, <3>3
  <2> QED  BY <2>1, <2>2
<1>14. /\ mem' \in [0 .. Memory - 1 -> 0 .. 255] /\ MemoryInv'
       /\ oBuf' = r.left - 1 - (Done(r) + 1)
  <2>1. /\ UNCHANGED <<me, iBuf>> /\ need = 0
        /\ \E b \in 0 .. 255 :
             Put(b) /\ (~ me.damaged => b = me.plain[r.left - 1 - Done(r)])
    BY <1>1, <1>11, <1>13
  <2>2. IsRun(me, r) /\ ReadingInv(r) /\ WritingInv(r)
    BY <1>3
  <2> QED  BY <1>2, <1>4, <2>1, <2>2, PutStep
<1>15. CASE count > 1
  <2>1. UNCHANGED <<stage, need, code>>
    BY <1>1, <1>15
  <2> QED  BY <1>1, <1>2, <1>3, <1>4, <1>14, <1>15, <2>1, NextByte
<1>16. CASE ~ (count > 1)
  <2>1. count = 1 /\ i + 1 = n /\ count' = 0
    BY <1>1, <1>7, <1>16
  <2>2. r.at + RunBits(r) = a + h + o
    <3>1. r.at + RunBits(r) = a + (h + o)
      BY <1>5, <1>6 DEF RunBits
    <3> QED  BY <1>7, <1>9, <3>1
  <2>3. oBuf' = r.left - 1 - r.n /\ datasize = r.left - r.n
    BY <1>2, <1>3, <1>6, <1>14, <2>1 DEF WritingInv
  <2>4. BitsRead(r.at + RunBits(r))
    BY <1>10, <2>2
  <2> QED  BY <1>1, <1>3, <1>4, <1>14, <1>16, <2>1, <2>3, <2>4, EndStep
<1> QED  BY <1>15, <1>16

-----------------------------------------------------------------------------

\* A word or a number that lies in the packed data has been copied.
LEMMA Copied ==
  ASSUME NEW m, NEW q, NEW i \in Nat, \A a \in i .. i + 3 : m[a] = q[a]
  PROVE  WordAt(m, i) = WordAt(q, i) /\ Number(m, i) = Number(q, i)
<1>1. \A k \in Word : m[i + 3 - k \div 8] = q[i + 3 - k \div 8]
  <2>1. ASSUME NEW k \in Word  PROVE i + 3 - k \div 8 \in i .. i + 3
    <3>1. k \div 8 \in 0 .. 3
      BY DEF Word
    <3> QED  BY <3>1
  <2> QED  BY <2>1
<1>2. WordAt(m, i) = WordAt(q, i)
  BY <1>1 DEF WordAt
<1>3. m[i] = q[i] /\ m[i + 1] = q[i + 1] /\ m[i + 2] = q[i + 2] /\ m[i + 3] = q[i + 3]
  OBVIOUS
<1> QED  BY <1>2, <1>3 DEF Number

\* The checksum, and the first word.
LEMMA FirstChecksum ==
  ASSUME NEW f
  PROVE  LET c == Xor(FileWord(f, -1), FileWord(f, 0)) IN
         /\ c \subseteq Word
         /\ \A k \in Word : k \in c <=> Cardinality({v \in -1 .. 0 : k \in FileWord(f, v)}) % 2 = 1
<1>1. FileWord(f, -1) \in SUBSET Word
  BY DEF FileWord, WordAt
<1>2. ASSUME NEW k \in Word
      PROVE  k \in FileWord(f, -1) <=> Cardinality({v \in -1 .. -1 : k \in FileWord(f, v)}) % 2 = 1
  <2>1. -1 .. -1 = {-1}
    OBVIOUS
  <2>2. CASE k \in FileWord(f, -1)
    <3>1. {v \in -1 .. -1 : k \in FileWord(f, v)} = {-1}
      BY <2>1, <2>2
    <3>2. Cardinality({-1}) = 1
      BY FS_Singleton
    <3> QED  BY <2>2, <3>1, <3>2
  <2>3. CASE k \notin FileWord(f, -1)
    <3>1. {v \in -1 .. -1 : k \in FileWord(f, v)} = {}
      BY <2>1, <2>3
    <3>2. Cardinality({}) = 0
      BY FS_EmptySet
    <3> QED  BY <2>3, <3>1, <3>2
  <2> QED  BY <2>2, <2>3
<1>3. -1 \in Nat \cup {-1} /\ -1 + 1 = 0
  OBVIOUS
<1>4. /\ Xor(FileWord(f, -1), FileWord(f, -1 + 1)) \subseteq Word
      /\ \A k \in Word :
           k \in Xor(FileWord(f, -1), FileWord(f, -1 + 1))
             <=> Cardinality({v \in -1 .. -1 + 1 : k \in FileWord(f, v)}) % 2 = 1
  BY <1>1, <1>2, <1>3, ChecksumGrows
<1> QED  BY <1>3, <1>4

\* A resource that is packed is read: unpack begins with the first bit.
LEMMA ReadPacked ==
  ASSUME NEW f \in Files, f.packedSize # f.size, Read(f),
         mem' \in [0 .. Memory - 1 -> 0 .. 255], count = 0,
         \A a \in 0 .. f.packedSize - 1 : mem'[a] = f.packed[a]
  PROVE  UnpackInv'
<1>1. PICK n, s : n = NumWords(f) /\ s = f.packedSize
  OBVIOUS
<1>2. n \in Nat \ {0} /\ s = 4 * n + 8
  BY <1>1, Sizes
<1>3. /\ me' = f /\ datasize' = Number(mem', s - 4) /\ oBuf' = datasize' - 1
      /\ chk' = WordAt(mem', s - 4 - 8) /\ crc' = Xor(WordAt(mem', s - 4 - 4), WordAt(mem', s - 4 - 8))
      /\ iBuf' = s - 4 - 12 /\ stage' = "first" /\ need' = 1 /\ code' = 0 /\ count' = 0
  BY <1>1 DEF Read, GetCode
<1>4. /\ s - 4 \in Nat /\ s - 8 \in Nat /\ s - 12 \in Nat
      /\ s - 4 - 8 = s - 12 /\ s - 4 - 4 = s - 8 /\ s - 4 - 12 = s - 16
      /\ s - 12 - 4 * 0 = s - 12 /\ s - 12 - 4 * (-1) = s - 8
  BY <1>2
<1>5. datasize' = f.size /\ chk' = FileWord(f, 0) /\ crc' = Xor(FileWord(f, -1), FileWord(f, 0))
      /\ iBuf' = s - 16
  <2>1. \A i \in {s - 4, s - 8, s - 12} : \A a \in i .. i + 3 : mem'[a] = f.packed[a]
    <3>1. \A i \in {s - 4, s - 8, s - 12} : \A a \in i .. i + 3 : a \in 0 .. s - 1
      BY <1>2
    <3> QED  BY <1>1, <3>1
  <2>2. Number(mem', s - 4) = Number(f.packed, s - 4)
    BY <1>4, <2>1, Copied
  <2>3. WordAt(mem', s - 12) = WordAt(f.packed, s - 12)
    BY <1>4, <2>1, Copied
  <2>4. WordAt(mem', s - 8) = WordAt(f.packed, s - 8)
    BY <1>4, <2>1, Copied
  <2>5. Number(f.packed, s - 4) = f.size
    BY <1>1, Sizes
  <2>6. FileWord(f, 0) = WordAt(f.packed, s - 12) /\ FileWord(f, -1) = WordAt(f.packed, s - 8)
    BY <1>1, <1>4 DEF FileWord
  <2> QED  BY <1>3, <1>4, <2>2, <2>3, <2>4, <2>5, <2>6
<1>6. PICK r : r = f.runs[1]
  OBVIOUS
<1>7. PICK q \in 1 .. 32 : q = FirstBit(f)
  BY Sizes
<1>8. IsRun(f, r) /\ r.at = q /\ r.left = f.size /\ SpellsHead(f, r)
  <2>1. NumRuns(f) \in Nat \ {0} /\ InSequence(f)
    BY Sizes
  <2>2. 1 \in 1 .. NumRuns(f)
    BY <2>1
  <2>3. IsRun(f, r)
    BY <1>6, <2>2 DEF IsRun
  <2>4. r.at = q /\ r.left = f.size
    BY <1>6, <1>7, <2>1 DEF InSequence, FirstBit
  <2> QED  BY <2>3, <2>4, RunSizes
<1>9. BitsRead(q)'
  <2>1. (q - 1) \div 32 = 0 /\ ((q - 1) % 32) + 1 = q
    OBVIOUS
  <2>2. iBuf' = WordAfter(f, q)
    <3>1. s - 16 - 4 * 0 = s - 16
      BY <1>2
    <3> QED  BY <1>1, <1>5, <2>1, <3>1 DEF WordAfter
  <2>3. chk' = Remaining(Data(f, 0), q)
    BY <1>5, <1>7, FirstWord
  <2>4. /\ crc' \subseteq Word
        /\ \A k \in Word : k \in crc' <=> Cardinality({v \in -1 .. 0 : k \in FileWord(f, v)}) % 2 = 1
    BY <1>5, FirstChecksum
  <2> QED  BY <1>3, <2>1, <2>2, <2>3, <2>4 DEF BitsRead
<1>10. Unpacking' /\ ~ Writing' /\ Done(r)' = 0
  BY <1>3 DEF Unpacking, Writing, Done
<1>11. WritingInv(r)'
  <2>1. f.size - 1 = f.size - 1 - 0
    BY Sizes
  <2>2. oBuf' = r.left - 1 - Done(r)'
    BY <1>3, <1>5, <1>8, <1>10, <2>1
  <2> QED  BY <1>3, <1>5, <1>8, <1>10, <2>2 DEF WritingInv
<1>12. ReadingInv(r)'
  <2>1. NumberAt(r, "first", 0) = q /\ NumberBits(r, "first") = 1
    BY <1>8 DEF NumberAt, NumberBits
  <2>2. "first" \in StagesOf(r)
    BY <1>8, Heads
  <2>3. q + 1 - 1 = q /\ 1 - 1 = 0
    OBVIOUS
  <2>4. Code(f, q, 0) = 0
    BY CodeIs
  <2>5. BitsRead(q + 1 - need)' /\ code' = Code(me', q, 1 - need') /\ need' \in 0 .. 1
    BY <1>3, <1>9, <2>3, <2>4
  <2> QED  BY <1>3, <1>10, <2>1, <2>2, <2>5 DEF ReadingInv
<1>13. MemoryInv'
  <2>1. \A a \in 0 .. s - 16 + 3 : a \in 0 .. s - 1
    BY <1>2
  <2>2. \A a \in 0 .. iBuf' + 3 : mem'[a] = f.packed[a]
    BY <1>1, <1>5, <2>1
  <2>3. oBuf' + 1 .. f.size - 1 = {}
    <3>1. f.size \in Nat
      BY Sizes
    <3>2. f.size - 1 + 1 .. f.size - 1 = {}
      BY <3>1
    <3> QED  BY <1>3, <1>5, <3>2
  <2> QED  BY <1>3, <2>2, <2>3 DEF MemoryInv
<1>14. \E j \in 1 .. NumRuns(f) : ReadingInv(f.runs[j])' /\ WritingInv(f.runs[j])'
  BY <1>8, <1>11, <1>12 DEF IsRun
<1> QED  BY <1>3, <1>10, <1>13, <1>14 DEF UnpackInv

\* Bank::read.
LEMMA ReadStep == ASSUME NEW f \in Files  PROVE UnpackInv /\ Read(f) => UnpackInv'
<1> SUFFICES ASSUME UnpackInv, Read(f)  PROVE UnpackInv'
  OBVIOUS
<1>1. count = 0 /\ mem \in [0 .. Memory - 1 -> 0 .. 255]
  BY DEF UnpackInv, Read, Unpacking
<1>2. PICK s : s = f.packedSize
  OBVIOUS
<1>3. Memory \in Nat /\ s \in 1 .. Memory /\ f.packed \in [0 .. s - 1 -> 0 .. 255]
  BY <1>2, BankAssumption
<1>4. mem' = [i \in 0 .. Memory - 1 |-> IF i < s THEN f.packed[i] ELSE mem[i]]
  BY <1>2 DEF Read
<1>5. mem' \in [0 .. Memory - 1 -> 0 .. 255]
  <2>1. ASSUME NEW i \in 0 .. Memory - 1
        PROVE  (IF i < s THEN f.packed[i] ELSE mem[i]) \in 0 .. 255
    <3>1. i < s => i \in 0 .. s - 1
      BY <1>3
    <3>2. i < s => f.packed[i] \in 0 .. 255
      BY <1>3, <3>1
    <3> QED  BY <1>1, <3>2
  <2> QED  BY <1>4, <2>1
<1>6. \A a \in 0 .. s - 1 : mem'[a] = f.packed[a]
  BY <1>3, <1>4
<1>7. CASE s = f.size
  <2>1. stage' = "returned" /\ me' = f /\ count' = count
    BY <1>2, <1>7 DEF Read
  <2>2. f.plain = f.packed /\ ~ f.damaged
    BY <1>2, <1>7, FormatAssumption
  <2> QED  BY <1>1, <1>5, <1>6, <1>7, <2>1, <2>2 DEF UnpackInv, Unpacking
<1>8. CASE s # f.size
  BY <1>1, <1>2, <1>5, <1>6, <1>8, ReadPacked
<1> QED  BY <1>7, <1>8

LEMMA UnpackInit == Init => UnpackInv
<1> SUFFICES ASSUME Init  PROVE UnpackInv
  OBVIOUS
<1>1. mem \in [0 .. Memory - 1 -> 0 .. 255]
  BY BankAssumption DEF Init
<1> QED  BY <1>1 DEF Init, UnpackInv, Unpacking

LEMMA UnpackStep == UnpackInv /\ [Next]_vars => UnpackInv'
<1> SUFFICES ASSUME UnpackInv, [Next]_vars  PROVE UnpackInv'
  OBVIOUS
<1>1. CASE Unpack
  BY <1>1, ChunkStep, HeaderStep, LiteralsStep, LiteralStep, CopyStep, CopyByteStep DEF Unpack
<1>2. ASSUME NEW f \in Files, Read(f)  PROVE UnpackInv'
  BY <1>2, ReadStep
<1>4. ASSUME NEW f \in Files, OpenFails(f)  PROVE UnpackInv'
  BY <1>4 DEF OpenFails, UnpackInv, Unpacking, unpCtx, bits
<1>3. CASE UNCHANGED vars
  <2>1. UNCHANGED <<me, mem, oBuf, iBuf, chk, crc, size, datasize, stage, need, code, count>>
    BY <1>3 DEF vars, unpCtx, bits
  <2>2. CASE ~ Unpacking
    BY <2>1, <2>2 DEF UnpackInv, Unpacking
  <2>3. CASE Unpacking
    <3>1. PICK r : IsRun(me, r) /\ ReadingInv(r) /\ WritingInv(r)
      BY <2>3, InRun
    <3>2. me \in Files /\ me.packedSize # me.size /\ MemoryInv /\ mem \in [0 .. Memory - 1 -> 0 .. 255]
      BY <2>3, InRun
    <3>3. Unpacking' /\ MemoryInv' /\ WritingInv(r)' /\ Done(r)' = Done(r)
      BY <2>1, <2>3, <3>1, <3>2 DEF Unpacking, MemoryInv, WritingInv, Done, Writing
    <3>4. PICK b, w : b = NumberAt(r, stage, Done(r)) /\ w = NumberBits(r, stage)
      OBVIOUS
    <3>5. BitsRead(b + w - need)'
      BY <2>1, <3>1, <3>4 DEF ReadingInv, BitsRead
    <3>6. ReadingInv(r)'
      BY <2>1, <3>1, <3>3, <3>4, <3>5 DEF ReadingInv
    <3> QED  BY <2>1, <3>1, <3>2, <3>3, <3>6, StillInRun
  <2> QED  BY <2>2, <2>3
<1> QED  BY <1>1, <1>2, <1>3, <1>4 DEF Next

LEMMA UnpackAlways == Spec => []UnpackInv
<1>1. Init => UnpackInv
  BY UnpackInit
<1>2. UnpackInv /\ [Next]_vars => UnpackInv'
  BY UnpackStep
<1> QED  BY <1>1, <1>2, PTL DEF Spec

\* decUnk1, decUnk2, unpack, for any resources that are packed as the format says:
\* what has been written is right, byte by byte, and a caller that goes on has
\* the whole resource; if error() is called, the resource is damaged.
THEOREM RestoresPlainAlways == Spec => []RestoresPlain
<1>1. UnpackInv => RestoresPlain
  <2> SUFFICES ASSUME UnpackInv  PROVE RestoresPlain
    OBVIOUS
  <2>1. CASE Unpacking
    <3>1. MemoryInv
      BY <2>1 DEF UnpackInv
    <3>2. stage # "returned" /\ stage # "error"
      BY <2>1 DEF Unpacking
    <3> QED  BY <3>1, <3>2 DEF MemoryInv, RestoresPlain
  <2>2. CASE ~ Unpacking
    <3>1. /\ stage = "returned" => ~ me.damaged /\ \A a \in 0 .. me.size - 1 : mem[a] = me.plain[a]
          /\ stage = "error" => me.damaged
      BY <2>2 DEF UnpackInv
    <3> QED  BY <2>2, <3>1 DEF RestoresPlain
  <2> QED  BY <2>1, <2>2
<1> QED  BY <1>1, UnpackAlways, PTL

\* The byte to be written lies above the word that is read next, though the bits
\* for it may not all have been read yet: they are in two words at most.
LEMMA AboveNextWord ==
  ASSUME UnpackInv, Unpacking, count > 0  PROVE oBuf >= iBuf /\ oBuf >= 0
<1>1. PICK r :
        /\ IsRun(me, r) /\ ReadingInv(r) /\ WritingInv(r)
        /\ r.n \in 1 .. 264 /\ Done(r) \in 0 .. r.n - 1 /\ r.at \in Nat
        /\ SpellsHead(me, r) /\ stage \in StagesOf(r)
  BY InRun
<1>2. me \in Files /\ me.packedSize # me.size
  BY InRun
<1>3. Writing
  BY <1>1 DEF WritingInv
<1>4. PICK n, i, b, w, s, o, l :
        /\ n = r.n /\ i = Done(r) /\ b = NumberAt(r, stage, i) /\ w = NumberBits(r, stage)
        /\ s = me.packedSize /\ o = oBuf /\ l = r.left
  OBVIOUS
<1>5. b \in Nat \ {0} /\ w \in 1 .. 12
  BY <1>1, <1>2, <1>4, NumberInRun
<1>6. PICK d \in 0 .. 12 : d = need /\ b + w - d \in Nat \ {0}
  <2>1. need \in 0 .. w
    BY <1>1, <1>4 DEF ReadingInv
  <2>2. need \in 0 .. 12 /\ b + w - need \in Nat \ {0}
    BY <1>5, <2>1
  <2> QED  BY <2>2
<1>7. iBuf = WordAfter(me, b + w - d)
  BY <1>1, <1>4, <1>6 DEF ReadingInv, BitsRead
<1>8. o = l - 1 - i /\ o >= WordAfter(me, b + w) + 4
  <2>1. o = l - 1 - i
    BY <1>1, <1>4 DEF WritingInv
  <2> QED  BY <1>1, <1>2, <1>3, <1>4, <2>1, Room
<1>9. s \in Int /\ l \in Int /\ l >= n /\ n \in Nat /\ i \in 0 .. n - 1
  <2>1. s \in Int
    BY <1>2, <1>4, Sizes
  <2>2. l \in Int /\ l >= n
    BY <1>1, <1>2, <1>4, RunSizes
  <2> QED  BY <1>1, <1>4, <2>1, <2>2
<1>10. o >= 0
  BY <1>8, <1>9
<1>11. WordAfter(me, b + w - d) <= WordAfter(me, b + w) + 4
  <2>1. \A k, j \in Nat : k - 12 <= j => k \div 32 <= (j \div 32) + 1
    OBVIOUS
  <2>2. PICK x, y : x = b + w /\ y = b + w - d
    OBVIOUS
  <2>3. x \in Nat \ {0} /\ y \in Nat \ {0} /\ (x - 1) - 12 <= y - 1 /\ x - 1 \in Nat /\ y - 1 \in Nat
    BY <1>5, <1>6, <2>2
  <2>4. (x - 1) \div 32 <= ((y - 1) \div 32) + 1
    BY <2>1, <2>3
  <2>5. WordAfter(me, x) = s - 16 - 4 * ((x - 1) \div 32)
        /\ WordAfter(me, y) = s - 16 - 4 * ((y - 1) \div 32)
    <3>1. me.packedSize = s
      BY <1>4
    <3> QED  BY <3>1 DEF WordAfter
  <2>6. PICK u, v \in Int : u = (x - 1) \div 32 /\ v = (y - 1) \div 32
    BY <2>3
  <2>7. s - 16 - 4 * v <= s - 16 - 4 * u + 4
    BY <1>9, <2>4, <2>6
  <2> QED  BY <2>2, <2>5, <2>6, <2>7
<1>12. WordAfter(me, b + w) \in Int /\ WordAfter(me, b + w - d) \in Int
  BY <1>4, <1>5, <1>6, <1>9 DEF WordAfter
<1>13. o \in Int
  BY <1>8, <1>9
<1>14. o >= WordAfter(me, b + w - d)
  BY <1>8, <1>11, <1>12, <1>13
<1> QED  BY <1>4, <1>7, <1>10, <1>14

\* unpack, decUnk1, decUnk2, in place: a byte is written into the memory of the
\* resource and not below the next word to read, and what has not been read is
\* still there.
THEOREM UnpacksInPlace == Spec => []InPlace
<1>1. UnpackInv => InPlace
  BY AboveNextWord DEF UnpackInv, MemoryInv, InPlace
<1> QED  BY <1>1, UnpackAlways, PTL

\* The checksum notices every single wrong bit, whichever of the words it is in,
\* the checksum included (unpack, the comparison in readBank).
THEOREM OneWrongBit ==
  ASSUME NEW f, NEW g, NumWords(f) \in Nat, NumWords(g) = NumWords(f), ChecksumHolds(f),
         NEW v \in -1 .. NumWords(f) - 1, NEW k \in Word,
         FileWord(g, v) = Xor(FileWord(f, v), {k}),
         \A w \in -1 .. NumWords(f) - 1 : w # v => FileWord(g, w) = FileWord(f, w)
  PROVE  ~ ChecksumHolds(g)
<1> DEFINE S == {w \in -1 .. NumWords(f) - 1 : k \in FileWord(f, w)}
           T == {w \in -1 .. NumWords(f) - 1 : k \in FileWord(g, w)}
<1>1. IsFiniteSet(S) /\ IsFiniteSet(T) /\ Cardinality(S) \in Nat /\ Cardinality(T) \in Nat
  <2>1. IsFiniteSet(-1 .. NumWords(f) - 1)
    BY FS_Interval
  <2> QED  BY <2>1, FS_Subset, FS_CardinalityType
<1>2. Cardinality(S) % 2 = 0
  BY DEF ChecksumHolds
<1>3. k \in FileWord(g, v) <=> k \notin FileWord(f, v)
  BY DEF Xor
<1>4. Cardinality(T) % 2 # 0
  <2>1. CASE k \in FileWord(f, v)
    <3>1. S = T \cup {v} /\ v \notin T
      BY <1>3, <2>1
    <3> HIDE DEF S, T
    <3>2. Cardinality(S) = Cardinality(T) + 1
      BY <1>1, <3>1, FS_AddElement
    <3> QED  BY <1>1, <1>2, <3>2
  <2>2. CASE k \notin FileWord(f, v)
    <3>1. T = S \cup {v} /\ v \notin S
      BY <1>3, <2>2
    <3> HIDE DEF S, T
    <3>2. Cardinality(T) = Cardinality(S) + 1
      BY <1>1, <3>1, FS_AddElement
    <3> QED  BY <1>1, <1>2, <3>2
  <2> QED  BY <2>1, <2>2
<1> QED  BY <1>4 DEF ChecksumHolds

-----------------------------------------------------------------------------

(***************************************************************************)
(* That unpack comes to an end: its loops and getCode's have no bound of   *)
(* their own, but each step leaves less to be done.                        *)
(***************************************************************************)
LeftToDo ==
  3 * (8 * (iBuf + 8) - taken) + oBuf
    + (IF need > 0 THEN 0 ELSE IF stage = "copy" THEN 1 ELSE 2)

\* The numbers are those that there is something to do for.
Understood ==
  need = 0 => CASE stage \in {"first", "second"} -> code \in 0 .. 1
                [] stage = "kind" -> code \in 0 .. 3
                [] OTHER -> stage \in {"literals", "manyLiterals", "literal", "size", "offset", "copy"}

TakenInv == Unpacking => taken \in 0 .. 32 /\ chk \subseteq 0 .. 32 - taken

LEMMA TakenStep == TakenInv /\ [Next]_vars => TakenInv'
<1> SUFFICES ASSUME TakenInv, [Next]_vars  PROVE TakenInv'
  OBVIOUS
<1>1. CASE NextChunk
  <2>1. stage' = stage
    BY <1>1 DEF NextChunk
  <2>2. ASSUME Unpacking  PROVE taken' \in 0 .. 32 /\ chk' \subseteq 0 .. 32 - taken'
    <3>1. PICK t \in 0 .. 32 : t = taken /\ chk \subseteq 0 .. 32 - t
      BY <2>2 DEF TakenInv
    <3>2. CASE Rcr(chk, FALSE) # {}
      <4>1. chk' = Rcr(chk, FALSE) /\ taken' = t + 1
        BY <1>1, <3>1, <3>2 DEF NextChunk
      <4>2. ASSUME NEW k \in Rcr(chk, FALSE)  PROVE k \in 0 .. 32 - (t + 1) /\ t + 1 \in 0 .. 32
        <5>1. PICK l \in chk \ {0} : k = l - 1
          BY <4>2 DEF Rcr
        <5> QED  BY <3>1, <5>1
      <4> QED  BY <3>2, <4>1, <4>2
    <3>3. CASE Rcr(chk, FALSE) = {}
      <4>1. chk' = Rcr(WordAt(mem, iBuf), TRUE) /\ taken' = 1
        BY <1>1, <3>3 DEF NextChunk
      <4>2. PICK w : w = WordAt(mem, iBuf)
        OBVIOUS
      <4>3. \A l \in w : l \in 0 .. 31
        BY <4>2 DEF WordAt, Word
      <4>5. 32 - 1 = 31 /\ 1 \in 0 .. 32
        OBVIOUS
      <4>4. ASSUME NEW k \in Rcr(w, TRUE)  PROVE k \in 0 .. 32 - 1
        <5>1. k = 31 \/ \E l \in w \ {0} : k = l - 1
          BY <4>4 DEF Rcr
        <5> QED  BY <4>3, <5>1
      <4> QED  BY <4>1, <4>2, <4>4, <4>5
    <3> QED  BY <3>2, <3>3
  <2> QED  BY <2>1, <2>2 DEF TakenInv, Unpacking
<1>2. ASSUME NEW f \in Files, Read(f)  PROVE TakenInv'
  <2>1. CASE f.packedSize = f.size
    BY <1>2, <2>1 DEF Read, TakenInv, Unpacking
  <2>2. CASE f.packedSize # f.size
    <3>1. taken' = 0 /\ \E m, i : chk' = WordAt(m, i)
      BY <1>2, <2>2 DEF Read
    <3>2. chk' \subseteq 0 .. 31
      BY <3>1 DEF WordAt, Word
    <3>3. 0 .. 31 \subseteq 0 .. 32 - 0 /\ 0 \in 0 .. 32
      OBVIOUS
    <3> QED  BY <3>1, <3>2, <3>3 DEF TakenInv
  <2> QED  BY <2>1, <2>2
<1>3. CASE UNCHANGED <<chk, taken>> /\ (Unpacking' => Unpacking)
  BY <1>3 DEF TakenInv
<1>4. CASE Header \/ Literals \/ Literal \/ Copy \/ CopyByte
  <2>1. Unpacking
    BY <1>4 DEF Header, Literals, Literal, Copy, CopyByte, Unpacking
  <2>2. UNCHANGED <<chk, taken>>
    BY <1>4 DEF Header, Literals, Literal, Copy, CopyByte, unpCtx, bits
  <2> QED  BY <1>3, <2>1, <2>2
<1>5. CASE UNCHANGED vars
  BY <1>3, <1>5 DEF vars, unpCtx, bits, Unpacking
<1>6. ASSUME NEW f \in Files, OpenFails(f)  PROVE TakenInv'
  BY <1>6 DEF OpenFails, TakenInv, Unpacking
<1> QED  BY <1>1, <1>2, <1>4, <1>5, <1>6 DEF Next, Unpack

\* A step leaves less to be done.
LEMMA LessToDo ==
  ASSUME UnpackInv, TakenInv, Unpacking, Unpack, Unpacking'
  PROVE  LeftToDo' < LeftToDo
<1>1. PICK r :
        /\ IsRun(me, r) /\ ReadingInv(r) /\ WritingInv(r)
        /\ r.n \in 1 .. 264 /\ Done(r) \in 0 .. r.n - 1 /\ r.at \in Nat
        /\ SpellsHead(me, r) /\ stage \in StagesOf(r)
  BY InRun
<1>2. PICK i \in Int, o \in Int, t \in 0 .. 32, d \in Nat : i = iBuf /\ o = oBuf /\ t = taken /\ d = need
  <2>1. me \in Files /\ me.packedSize # me.size
    BY InRun
  <2>2. PICK b, w : b = NumberAt(r, stage, Done(r)) /\ w = NumberBits(r, stage)
    OBVIOUS
  <2>3. b \in Nat \ {0} /\ w \in 1 .. 12
    BY <1>1, <2>1, <2>2, NumberInRun
  <2>4. need \in 0 .. w /\ BitsRead(b + w - need)
    BY <1>1, <2>2 DEF ReadingInv
  <2>5. need \in Nat
    BY <2>3, <2>4
  <2>6. iBuf \in Int
    <3>1. iBuf = WordAfter(me, b + w - need)
      BY <2>4 DEF BitsRead
    <3>2. b + w - need \in Int /\ me.packedSize \in Int
      BY <2>1, <2>3, <2>5, Sizes
    <3> QED  BY <3>1, <3>2 DEF WordAfter
  <2>7. oBuf \in Int
    <3>1. r.left \in Int
      BY <1>1, <2>1, RunSizes
    <3>2. Done(r) \in Int /\ oBuf = r.left - 1 - Done(r)
      BY <1>1 DEF WritingInv
    <3> QED  BY <3>1, <3>2
  <2>8. taken \in 0 .. 32
    BY DEF TakenInv
  <2> QED  BY <2>5, <2>6, <2>7, <2>8
<1>3. code \in Nat
  <2>1. me \in Files /\ me.packedSize # me.size
    BY InRun
  <2>2. PICK b, w : b = NumberAt(r, stage, Done(r)) /\ w = NumberBits(r, stage)
    OBVIOUS
  <2>3. w \in 1 .. 12
    BY <1>1, <2>1, <2>2, NumberInRun
  <2>4. code = Code(me, b, w - need) /\ need \in 0 .. w
    BY <1>1, <2>2 DEF ReadingInv
  <2>5. w - need \in 0 .. 12
    BY <2>3, <2>4
  <2> QED  BY <2>4, <2>5, CodeIs
<1> DEFINE S(x) == IF x = "copy" THEN 1 ELSE 2
           F(x, y, z, c, u) == 3 * (8 * (x + 8) - y) + z + (IF c > 0 THEN 0 ELSE S(u))
<1>4. LeftToDo = F(i, t, o, d, stage) /\ LeftToDo' = F(iBuf', taken', oBuf', need', stage')
  BY <1>2 DEF LeftToDo
<1>5. S(stage) \in 1 .. 2 /\ S(stage') \in 1 .. 2
  OBVIOUS
<1>6. CASE NextChunk
  <2>1. stage' = stage /\ oBuf' = o /\ need' = d - 1 /\ d > 0
    BY <1>2, <1>6 DEF NextChunk
  <2>2. (iBuf' = i /\ taken' = t + 1) \/ (iBuf' = i - 4 /\ taken' = 1)
    <3>1. CASE Rcr(chk, FALSE) # {}
      BY <1>2, <1>6, <3>1 DEF NextChunk
    <3>2. CASE Rcr(chk, FALSE) = {}
      BY <1>2, <1>6, <3>2 DEF NextChunk
    <3> QED  BY <3>1, <3>2
  <2>3. PICK s \in 1 .. 2 : s = S(stage)
    BY <1>5
  <2>4. \A c \in Nat : (IF c > 0 THEN 0 ELSE s) <= 2
    OBVIOUS
  <2> QED
    <3>1. F(i, t, o, d, stage) = 3 * (8 * (i + 8) - t) + o
      BY <2>1
    <3>2. PICK e \in 0 .. 2 : e = IF d - 1 > 0 THEN 0 ELSE s
      OBVIOUS
    <3>3. CASE iBuf' = i /\ taken' = t + 1
      <4>1. F(iBuf', taken', oBuf', need', stage') = 3 * (8 * (i + 8) - (t + 1)) + o + e
        BY <2>1, <2>3, <3>2, <3>3
      <4> QED  BY <1>4, <3>1, <4>1
    <3>4. CASE iBuf' = i - 4 /\ taken' = 1
      <4>1. F(iBuf', taken', oBuf', need', stage') = 3 * (8 * (i - 4 + 8) - 1) + o + e
        BY <2>1, <2>3, <3>2, <3>4
      <4> QED  BY <1>4, <3>1, <4>1
    <3> QED  BY <2>2, <3>3, <3>4
<1>7. CASE Header \/ Literals
  <2>1. iBuf' = i /\ taken' = t /\ oBuf' = o /\ d = 0 /\ stage # "copy" /\ need' > 0
    <3>1. CASE Header
      <4>1. UNCHANGED <<iBuf, taken, oBuf>> /\ need = 0
        BY <3>1 DEF Header
      <4>2. stage # "copy" /\ (need' \in {1, 2, 3, 8, 12} \/ need' = code + 9)
        BY <3>1, HeaderTo
      <4>3. need' > 0
        BY <1>3, <4>2
      <4> QED  BY <1>2, <4>1, <4>2, <4>3
    <3>2. CASE Literals
      BY <1>2, <1>7, <3>2 DEF Literals, GetCode
    <3> QED  BY <1>7, <3>1, <3>2
  <2>2. F(i, t, o, d, stage) = 3 * (8 * (i + 8) - t) + o + 2
    BY <2>1
  <2>3. F(iBuf', taken', oBuf', need', stage') = 3 * (8 * (i + 8) - t) + o
    <3>1. \A c, x : c > 0 => (IF c > 0 THEN 0 ELSE x) = 0
      OBVIOUS
    <3>2. (IF need' > 0 THEN 0 ELSE S(stage')) = 0
      BY <2>1, <3>1
    <3> HIDE DEF S
    <3> QED  BY <2>1, <3>2
  <2> QED  BY <1>4, <2>2, <2>3
<1>8. CASE Copy
  <2>1. iBuf' = i /\ taken' = t /\ oBuf' = o /\ d = 0 /\ need' = 0 /\ stage = "offset" /\ stage' = "copy"
    BY <1>2, <1>8 DEF Copy, bits
  <2> QED  BY <1>4, <2>1
<1>9. CASE Literal \/ CopyByte
  <2>1. iBuf' = i /\ taken' = t /\ oBuf' = o - 1 /\ d = 0
    BY <1>2, <1>9 DEF Literal, CopyByte, Put, unpCtx
  <2>2. need' > 0 \/ (need' = 0 /\ stage' = stage)
    <3>1. CASE count > 1
      BY <1>2, <1>9, <2>1, <3>1 DEF Literal, CopyByte, GetCode
    <3>2. CASE ~ (count > 1)
      <4>1. EndOfRun
        BY <1>9, <3>2 DEF Literal, CopyByte
      <4>2. stage' \notin {"returned", "error"}
        BY DEF Unpacking
      <4>3. CASE datasize > 0
        BY <4>1, <4>3 DEF EndOfRun, GetCode
      <4>4. CASE ~ (datasize > 0)
        <5>1. stage' = "returned" \/ stage' = "error"
          BY <4>1, <4>4 DEF EndOfRun
        <5> QED  BY <4>2, <5>1
      <4> QED  BY <4>3, <4>4
    <3> QED  BY <3>1, <3>2
  <2>3. PICK s \in 1 .. 2, e \in 0 .. 2 :
          s = S(stage) /\ e = IF need' > 0 THEN 0 ELSE S(stage')
    BY <1>5
  <2>4. e <= s
    <3> HIDE DEF S
    <3> QED  BY <2>2, <2>3
  <2>5. F(i, t, o, d, stage) = 3 * (8 * (i + 8) - t) + o + s
    BY <2>1, <2>3
  <2>6. F(iBuf', taken', oBuf', need', stage') = 3 * (8 * (i + 8) - t) + (o - 1) + e
    BY <2>1, <2>3
  <2> QED  BY <1>4, <2>4, <2>5, <2>6
<1> QED  BY <1>6, <1>7, <1>8, <1>9 DEF Unpack

\* What is left to be done is not less than nothing.
LEMMA NotNegative ==
  ASSUME UnpackInv, TakenInv, Unpacking  PROVE LeftToDo \in Nat
<1>1. PICK r :
        /\ IsRun(me, r) /\ ReadingInv(r) /\ WritingInv(r)
        /\ r.n \in 1 .. 264 /\ Done(r) \in 0 .. r.n - 1 /\ r.at \in Nat
        /\ SpellsHead(me, r) /\ stage \in StagesOf(r)
  BY InRun
<1>2. me \in Files /\ me.packedSize # me.size
  BY InRun
<1>3. PICK n \in Nat \ {0} : n = NumWords(me) /\ me.packedSize = 4 * n + 8
  BY <1>2, Sizes
<1>4. PICK b, w : b = NumberAt(r, stage, Done(r)) /\ w = NumberBits(r, stage)
  OBVIOUS
<1>5. b \in Nat \ {0} /\ w \in 1 .. 12 /\ b + w <= 32 * n
  BY <1>1, <1>2, <1>3, <1>4, NumberInRun
<1>6. need \in 0 .. w /\ BitsRead(b + w - need)
  BY <1>1, <1>4 DEF ReadingInv
<1>7. PICK p \in 1 .. 32 * n : p = b + w - need
  BY <1>3, <1>5, <1>6
<1>8. PICK v \in 0 .. n - 1 : v = (p - 1) \div 32
  <2>1. (p - 1) \div 32 \in 0 .. n - 1
    BY <1>3
  <2> QED  BY <2>1
<1>9. iBuf = 4 * n + 8 - 16 - 4 * v
  BY <1>3, <1>6, <1>7, <1>8 DEF BitsRead, WordAfter
<1>10. iBuf \in Int /\ iBuf >= -4
  BY <1>3, <1>8, <1>9
<1>11. oBuf \in Nat
  <2>1. PICK l \in Int, m \in 1 .. 264 : l = r.left /\ m = r.n /\ l >= m
    BY <1>1, <1>2, RunSizes
  <2>2. PICK d \in 0 .. m - 1 : d = Done(r)
    BY <1>1, <2>1
  <2>3. l - 1 - d \in Nat
    BY <2>1, <2>2
  <2> QED  BY <1>1, <2>1, <2>2, <2>3 DEF WritingInv
<1>12. taken \in 0 .. 32
  BY DEF TakenInv
<1>13. (IF need > 0 THEN 0 ELSE IF stage = "copy" THEN 1 ELSE 2) \in Nat
  OBVIOUS
<1> QED  BY <1>10, <1>11, <1>12, <1>13 DEF LeftToDo

\* Each number that has been read is one of those that there are.
LEMMA NumbersKnown ==
  ASSUME UnpackInv, Unpacking  PROVE Understood
<1>1. PICK r :
        /\ IsRun(me, r) /\ ReadingInv(r) /\ WritingInv(r)
        /\ r.n \in 1 .. 264 /\ Done(r) \in 0 .. r.n - 1 /\ r.at \in Nat
        /\ SpellsHead(me, r) /\ stage \in StagesOf(r)
  BY InRun
<1>2. me \in Files /\ me.packedSize # me.size
  BY InRun
<1>3. PICK a, n, h, o : a = r.at /\ n = r.n /\ h = HeadBits(r) /\ o = OffsetBits(r)
  OBVIOUS
<1>4. ASSUME need = 0, stage \in {"first", "second", "kind"}
      PROVE  code \in 0 .. 3 /\ (stage # "kind" => code \in 0 .. 1)
  <2>1. Done(r) = 0
    BY <1>4 DEF Done, Writing
  <2>2. NumberBits(r, stage) \in Nat
    BY <1>1, <1>2, NumberInRun
  <2>3. code = Code(me, NumberAt(r, stage, 0), NumberBits(r, stage))
    BY <1>1, <1>4, <2>1, <2>2, NumberRead
  <2>4. NumberPlaces(r, stage, 0, a, h, o)
    BY <1>3, PlacesOf
  <2>5. /\ stage = "first" => code = Code(me, a, 1)
        /\ stage = "second" => code = Code(me, a + 1, 1)
        /\ stage = "kind" => code = Code(me, a + 1, 2)
    BY <2>3, <2>4 DEF NumberPlaces
  <2>6. \/ /\ StagesOf(r) = {"first", "second", "literals", "literal"}
           /\ Code(me, a, 1) = 0 /\ Code(me, a + 1, 1) = 0
        \/ /\ StagesOf(r) = {"first", "kind", "manyLiterals", "literal"}
           /\ Code(me, a, 1) = 1 /\ Code(me, a + 1, 2) = 3
        \/ /\ StagesOf(r) = {"first", "second", "offset", "copy"}
           /\ Code(me, a, 1) = 0 /\ Code(me, a + 1, 1) = 1
        \/ /\ StagesOf(r) = {"first", "kind", "offset", "copy"} /\ n \in 3 .. 4
           /\ Code(me, a, 1) = 1 /\ Code(me, a + 1, 2) = n - 3
        \/ /\ StagesOf(r) = {"first", "kind", "size", "offset", "copy"}
           /\ Code(me, a, 1) = 1 /\ Code(me, a + 1, 2) = 2
    BY <1>1, <1>3, Heads
  <2>7. n \in 3 .. 4 => n - 3 \in 0 .. 1
    OBVIOUS
  <2>8. 0 \in 0 .. 3 /\ 1 \in 0 .. 3 /\ 2 \in 0 .. 3 /\ 3 \in 0 .. 3 /\ 0 \in 0 .. 1 /\ 1 \in 0 .. 1
        /\ 0 .. 1 \subseteq 0 .. 3
    OBVIOUS
  <2>9. CASE stage = "first"
    BY <2>5, <2>6, <2>8, <2>9
  <2>10. CASE stage = "second"
    BY <1>1, <2>5, <2>6, <2>8, <2>10
  <2>11. CASE stage = "kind"
    BY <1>1, <2>5, <2>6, <2>7, <2>8, <2>11
  <2> QED  BY <1>4, <2>9, <2>10, <2>11
<1>5. stage \in {"first", "second", "kind", "literals", "manyLiterals", "literal", "size", "offset", "copy"}
  <2>1. StagesOf(r) \subseteq {"first", "second", "kind", "literals", "manyLiterals", "literal",
                               "size", "offset", "copy"}
    BY <1>1, Heads
  <2> QED  BY <1>1, <2>1
<1> QED  BY <1>4, <1>5 DEF Understood

\* getCode, decUnk1, decUnk2, unpack, for any resources that are packed as the
\* format says: each step leaves less to be done, and what is left is never less
\* than nothing, so that unpack returns; and no number is read that the code has
\* nothing to do for.
THEOREM UnpackEnds ==
  Spec => /\ [](Unpacking => LeftToDo \in Nat /\ Understood)
          /\ [][Unpack /\ Unpacking' => LeftToDo' < LeftToDo]_vars
<1>1. Init => TakenInv
  BY DEF Init, TakenInv, Unpacking
<1>2. Spec => []TakenInv
  BY <1>1, TakenStep, PTL DEF Spec
<1>3. UnpackInv /\ TakenInv => (Unpacking => LeftToDo \in Nat /\ Understood)
  BY NotNegative, NumbersKnown
<1>4. UnpackInv /\ TakenInv /\ [Next]_vars => [Unpack /\ Unpacking' => LeftToDo' < LeftToDo]_vars
  <2> SUFFICES ASSUME UnpackInv, TakenInv, Unpack, Unpacking'  PROVE LeftToDo' < LeftToDo
    OBVIOUS
  <2>1. Unpacking
    BY DEF Unpack, NextChunk, Header, Literals, Literal, Copy, CopyByte, Unpacking
  <2> QED  BY <2>1, LessToDo
<1> QED  BY <1>2, <1>3, <1>4, UnpackAlways, PTL DEF Spec
=============================================================================
