-------------------------------- MODULE Bank --------------------------------
(***************************************************************************)
(* The reader of the banks (bank.cpp), as the resource manager calls it    *)
(* (readBank in resource.cpp): a resource is copied into the memory it is  *)
(* to have and, if it is packed, unpacked there, in place.                 *)
(*                                                                         *)
(* The packed data are words of 32 bits that are read downwards, and so    *)
(* are the bits that they hold and the bytes that come of them.  A word is *)
(* the set of its bits that are 1, bit 0 being the lowest.  Addresses are  *)
(* offsets from _startBuf; -1 is the one below it.                         *)
(***************************************************************************)
EXTENDS Integers

CONSTANTS
  Files,      \* the resources in the banks: their bytes there (packed), the
              \* bytes that are meant (plain) and the two sizes of their entries
  Memory      \* the number of bytes there are from _startBuf on

ASSUME BankAssumption ==
  /\ Memory \in Nat
  /\ \A f \in Files :
       /\ f.packedSize \in 1 .. Memory /\ f.size \in f.packedSize .. Memory
       /\ f.packed \in [0 .. f.packedSize - 1 -> 0 .. 255]
       /\ f.plain \in [0 .. f.size - 1 -> 0 .. 255]

Word == 0 .. 31

VARIABLES
  me,         \* the resource being read
  mem,        \* the bytes at buf
  iBuf, oBuf, \* the next word to read, the next byte to write
  chk, crc,   \* _unpCtx: the bits not read yet of a word, the checksum,
  size,       \* the length of a copy, less one,
  datasize,   \* and how many bytes are missing
  stage,      \* what the code that is being read is for
  need, code, \* getCode: the bits that are missing, those that are there
  count,      \* decUnk1, decUnk2: the bytes of a run that are missing
  word, taken \* (history) the last word read, and how many bits were taken of it

unpCtx == <<chk, crc, size, datasize>>
bits == <<iBuf, chk, crc, need, code, word, taken>>
vars == <<me, mem, oBuf, unpCtx, stage, count, bits>>

Bit(x, k) == (x \div 2^k) % 2

Xor(a, b) == (a \ b) \cup (b \ a)

\* READ_BE_UINT32
WordAt(m, i) == {k \in Word : Bit(m[i + 3 - k \div 8], k % 8) = 1}
Number(m, i) == ((m[i] * 256 + m[i + 1]) * 256 + m[i + 2]) * 256 + m[i + 3]

Init ==
  /\ me \in Files
  /\ mem = [i \in 0 .. Memory - 1 |-> 0]
  /\ iBuf = 0 /\ oBuf = 0 /\ chk = {} /\ crc = {} /\ size = 0 /\ datasize = 0
  /\ stage = "idle" /\ need = 0 /\ code = 0 /\ count = 0
  /\ word = {} /\ taken = 0

\* getCode(n), for what s says.
GetCode(n, s) == need' = n /\ code' = 0 /\ stage' = s

\* Bank::read: a resource that is not packed is only copied.
Read(f) ==
  LET read == [i \in 0 .. Memory - 1 |-> IF i < f.packedSize THEN f.packed[i] ELSE mem[i]]
      top == f.packedSize - 4
      first == WordAt(read, top - 8)
  IN
  /\ stage \in {"idle", "returned"}
  /\ me' = f
  /\ mem' = read
  /\ IF f.packedSize = f.size
     THEN /\ stage' = "returned"
          /\ UNCHANGED <<oBuf, unpCtx, count, bits>>
     ELSE /\ datasize' = Number(read, top)
          /\ oBuf' = datasize' - 1
          /\ chk' = first /\ word' = first /\ taken' = 0
          /\ crc' = Xor(WordAt(read, top - 4), first)
          /\ iBuf' = top - 12
          /\ size' = 0
          /\ GetCode(1, "first")
          /\ UNCHANGED count

\* Bank::read calls error() if it cannot open the file of the bank: nothing goes on.
OpenFails(f) ==
  /\ stage \in {"idle", "returned"}
  /\ me' = f
  /\ stage' = "unopened"
  /\ UNCHANGED <<mem, oBuf, unpCtx, count, bits>>

\* Mutant: the carry does not come in from above.
Rcr_NoMarker(w, CF) == {k - 1 : k \in w \ {0}}

\* rcr
Rcr(w, CF) == {k - 1 : k \in w \ {0}} \cup (IF CF THEN {31} ELSE {})

\* nextChunk, one turn of getCode: a word is used up when nothing is left of it
\* but zeros, as the last of its ones does not belong to the data.
NextChunk ==
  LET next == WordAt(mem, iBuf)
      Take(bit) == code' = 2 * code + bit /\ need' = need - 1
      Lowest(w) == IF 0 \in w THEN 1 ELSE 0
  IN
  /\ need > 0
  /\ IF Rcr(chk, FALSE) # {}
     THEN /\ chk' = Rcr(chk, FALSE)
          /\ Take(Lowest(chk))
          /\ taken' = taken + 1
          /\ UNCHANGED <<iBuf, crc, word>>
     ELSE /\ chk' = Rcr(next, TRUE)
          /\ Take(Lowest(next))
          /\ crc' = Xor(crc, next)
          /\ iBuf' = iBuf - 4
          /\ word' = next /\ taken' = 1
  /\ UNCHANGED <<me, mem, oBuf, size, datasize, stage, count>>

\* The bits that tell what comes next, and how long a copy is.
Header ==
  /\ need = 0
  /\ \/ stage = "first" /\ code = 0 /\ GetCode(1, "second") /\ size' = 1
     \/ stage = "first" /\ code = 1 /\ GetCode(2, "kind") /\ UNCHANGED size
     \/ stage = "second" /\ code = 0 /\ GetCode(3, "literals") /\ UNCHANGED size
     \/ stage = "second" /\ code = 1 /\ GetCode(8, "offset") /\ UNCHANGED size
     \/ stage = "kind" /\ code < 2 /\ size' = code + 2 /\ GetCode(code + 9, "offset")
     \/ stage = "kind" /\ code = 2 /\ GetCode(8, "size") /\ UNCHANGED size
     \/ stage = "kind" /\ code = 3 /\ GetCode(8, "manyLiterals") /\ UNCHANGED size
     \/ stage = "size" /\ size' = code /\ GetCode(12, "offset")
  /\ UNCHANGED <<me, mem, oBuf, iBuf, chk, crc, datasize, count, word, taken>>

\* Mutant: the checksum is not looked at.
EndOfRun_NoCheck ==
  IF datasize > 0
  THEN GetCode(1, "first")
  ELSE stage' = "returned" /\ UNCHANGED <<need, code>>

\* What follows a run: the next one, or the end of unpack; then readBank calls
\* error(), where nothing goes on, if the checksum is not zero.
EndOfRun ==
  IF datasize > 0
  THEN GetCode(1, "first")
  ELSE /\ stage' = IF crc = {} THEN "returned" ELSE "error"
       /\ UNCHANGED <<need, code>>

\* The head of decUnk1 and of decUnk2: the length of the run.
Run(n) ==
  /\ count' = n
  /\ datasize' = datasize - n

\* decUnk1: so many bytes follow as they are.
Literals ==
  /\ need = 0
  /\ \/ stage = "literals" /\ Run(code + 1)
     \/ stage = "manyLiterals" /\ Run(code + 8 + 1)
  /\ GetCode(8, "literal")
  /\ UNCHANGED <<me, mem, oBuf, iBuf, chk, crc, size, word, taken>>

\* Mutant: the pointer moves by two bytes.
Put_EveryOther(b) == mem' = [mem EXCEPT ![oBuf] = b] /\ oBuf' = oBuf - 2

Put(b) == mem' = [mem EXCEPT ![oBuf] = b] /\ oBuf' = oBuf - 1

Literal ==
  /\ need = 0 /\ stage = "literal"
  /\ Put(code)
  /\ count' = count - 1
  /\ IF count > 1 THEN GetCode(8, "literal") ELSE EndOfRun
  /\ UNCHANGED <<me, unpCtx, iBuf, word, taken>>

\* decUnk2: so many bytes are repeated; code, which nothing changes from here
\* on, is how far above they are.
Copy ==
  /\ need = 0 /\ stage = "offset"
  /\ Run(size + 1)
  /\ stage' = "copy"
  /\ UNCHANGED <<me, mem, oBuf, size, bits>>

CopyByte ==
  /\ need = 0 /\ stage = "copy"
  /\ Put(mem[oBuf + code])
  /\ count' = count - 1
  /\ IF count > 1 THEN UNCHANGED <<stage, need, code>> ELSE EndOfRun
  /\ UNCHANGED <<me, unpCtx, iBuf, word, taken>>

Unpack == NextChunk \/ Header \/ Literals \/ Literal \/ Copy \/ CopyByte

Next == Unpack \/ \E f \in Files : Read(f) \/ OpenFails(f)

Spec == Init /\ [][Next]_vars

-----------------------------------------------------------------------------

Unpacking == stage \notin {"idle", "unopened", "returned", "error"}

\* rcr, nextChunk: what chk holds is what is left of the word, in its place, and
\* a one behind it that says where it ends, which for a word that is not the
\* first comes after all of its 32 bits.
BitsInOrder ==
  Unpacking /\ iBuf + 4 < me.packedSize - 12 =>
    chk = {k - taken : k \in {k \in word : k >= taken}} \cup {32 - taken}

\* decUnk1, decUnk2, unpack: what has been written is right, byte by byte, and a
\* caller that goes on has the whole resource: a wrong bit in the packed data
\* is noticed at the end, if not before.
RestoresPlain ==
  /\ Unpacking /\ ~ me.damaged =>
       \A i \in oBuf + 1 .. me.size - 1 : mem[i] = me.plain[i]
  /\ stage = "returned" =>
       \A i \in 0 .. me.size - 1 : mem[i] = me.plain[i]
  /\ stage = "error" => me.damaged

\* unpack: the resource is unpacked over its packed data.  A byte that is written
\* lies in its memory and not below the next word to read (the assertions of
\* decUnk1 and decUnk2, which are commented out); and, as that word has four
\* bytes, none of what has not been read is written over.
InPlace ==
  /\ Unpacking /\ count > 0 => oBuf >= iBuf /\ oBuf >= 0
  /\ Unpacking => \A i \in 0 .. iBuf + 3 : mem[i] = me.packed[i]
=============================================================================
