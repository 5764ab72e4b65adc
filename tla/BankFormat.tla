----------------------------- MODULE BankFormat -----------------------------
(***************************************************************************)
(* What the packed resources of the banks are, as the program that packed  *)
(* them left them; it is not part of this repository.                      *)
(*                                                                         *)
(* From the end of the packed data to their beginning: the size that the   *)
(* resource has, a checksum, the words with the bits.  The bits are        *)
(* numbered so that word w has the bits from 32 * w on, the lowest one     *)
(* first; of the first word only the last ones are there.  They spell a    *)
(* sequence of runs (runs): the bytes of a run as they are, or copies of   *)
(* what is `offset` bytes above.  A run begins at the bit `at`, when there *)
(* are `left` bytes still to be written, and stands for n of them.         *)
(***************************************************************************)
EXTENDS Bank, FiniteSets, Sequences

NumWords(f) == (f.packedSize - 8) \div 4

\* Word -1 is the checksum.
FileWord(f, w) == WordAt(f.packed, f.packedSize - 12 - 4 * w)

NumRuns(f) == Len(f.runs)

FirstBit(f) == f.runs[1].at

\* The bits of a word, in their places: those of the first one are moved up, and
\* without the one behind them.
Data(f, w) ==
  IF w = 0 THEN {k + FirstBit(f) : k \in FileWord(f, 0) \ {32 - FirstBit(f)}}
           ELSE FileWord(f, w)

FileBit(f, p) == IF p % 32 \in Data(f, p \div 32) THEN 1 ELSE 0

\* The number that n bits spell, from the bit p on, the highest first.
Code(f, p, n) ==
  LET code_[k \in 0 .. 12] == IF k = 0 THEN 0 ELSE 2 * code_[k - 1] + FileBit(f, p + k - 1)
  IN  code_[n]

\* The bits of a run before the bytes or the offset, and all of them.
HeadBits(r) ==
  CASE r.kind = "bytes" -> IF r.n <= 8 THEN 5 ELSE 11
    [] r.kind = "short" -> IF r.n = 2 THEN 2 ELSE 3
    [] r.kind = "long"  -> 11

OffsetBits(r) == IF r.kind = "short" THEN r.n + 6 ELSE 12

RunBits(r) == HeadBits(r) + (IF r.kind = "bytes" THEN 8 * r.n ELSE OffsetBits(r))

\* The i-th byte of a run of bytes, from 0 on.
StoredByte(f, r, i) == Code(f, r.at + HeadBits(r) + 8 * i, 8)

SpellsHead(f, r) ==
  \/ /\ r.kind = "bytes" /\ r.n \in 1 .. 8
     /\ Code(f, r.at, 1) = 0 /\ Code(f, r.at + 1, 1) = 0 /\ Code(f, r.at + 2, 3) = r.n - 1
  \/ /\ r.kind = "bytes" /\ r.n \in 9 .. 264
     /\ Code(f, r.at, 1) = 1 /\ Code(f, r.at + 1, 2) = 3 /\ Code(f, r.at + 3, 8) = r.n - 9
  \/ /\ r.kind = "short" /\ r.n = 2
     /\ Code(f, r.at, 1) = 0 /\ Code(f, r.at + 1, 1) = 1
  \/ /\ r.kind = "short" /\ r.n \in 3 .. 4
     /\ Code(f, r.at, 1) = 1 /\ Code(f, r.at + 1, 2) = r.n - 3
  \/ /\ r.kind = "long" /\ r.n \in 1 .. 256
     /\ Code(f, r.at, 1) = 1 /\ Code(f, r.at + 1, 2) = 2 /\ Code(f, r.at + 3, 8) = r.n - 1

\* A copy is one of bytes that have been written.
SpellsOffset(f, r) ==
  /\ Code(f, r.at + HeadBits(r), OffsetBits(r)) = r.offset
  /\ r.offset \in 1 .. f.size - r.left

\* The runs follow each other, and come to an end with the bits and with the bytes.
InSequence(f) ==
  LET last == NumRuns(f)
      end(r) == r.at + RunBits(r)
  IN
  /\ last \in Nat \ {0}
  /\ f.runs[1].left = f.size
  /\ f.runs[last].left = f.runs[last].n /\ end(f.runs[last]) = 32 * NumWords(f)
  /\ \A j \in 1 .. last :
       /\ f.runs[j].at \in Nat \ {0} /\ end(f.runs[j]) <= 32 * NumWords(f)
       /\ f.runs[j].left \in f.runs[j].n .. f.size
  /\ \A j \in 1 .. last - 1 :
       /\ f.runs[j + 1].at = end(f.runs[j])
       /\ f.runs[j + 1].left = f.runs[j].left - f.runs[j].n

WellFormed(f) ==
  /\ f.packedSize % 4 = 0 /\ NumWords(f) > 0
  /\ Number(f.packed, f.packedSize - 4) = f.size
  /\ InSequence(f)
  /\ FirstBit(f) \in 1 .. 32
  /\ FileWord(f, 0) \cap (32 - FirstBit(f) .. 31) = {32 - FirstBit(f)}
  /\ \A j \in 1 .. NumRuns(f) :
       LET r == f.runs[j] IN SpellsHead(f, r) /\ (r.kind # "bytes" => SpellsOffset(f, r))

\* Every bit is in an even number of the words, the checksum included.
ChecksumHolds(f) ==
  \A k \in Word : Cardinality({w \in -1 .. NumWords(f) - 1 : k \in FileWord(f, w)}) % 2 = 0

\* The runs stand for the bytes that are meant.
StandsForPlain(f) ==
  \A j \in 1 .. NumRuns(f) :
    LET r == f.runs[j]  IN
    \A i \in 0 .. r.n - 1 :
      f.plain[r.left - 1 - i] = IF r.kind = "bytes" THEN StoredByte(f, r, i)
                                ELSE f.plain[r.left - 1 - i + r.offset]

\* The word that is to be read next when the bits up to p have been read.
WordAfter(f, p) == f.packedSize - 16 - 4 * ((p - 1) \div 32)

\* There is room to unpack in place: where a byte is to be written, there is nothing
\* that has not been read by then.
LeavesRoom(f) ==
  \A j \in 1 .. NumRuns(f) :
    LET r == f.runs[j]
        upTo(i) == r.at + HeadBits(r) + (IF r.kind = "bytes" THEN 8 * (i + 1) ELSE OffsetBits(r))
    IN \A i \in 0 .. r.n - 1 : r.left - 1 - i >= WordAfter(f, upTo(i)) + 4

\* A resource that is damaged has runs as well, but its checksum is wrong.
ASSUME FormatAssumption ==
  \A f \in Files :
    IF f.packedSize = f.size
    THEN f.plain = f.packed /\ ~ f.damaged
    ELSE /\ WellFormed(f) /\ LeavesRoom(f)
         /\ IF f.damaged THEN ~ ChecksumHolds(f) ELSE ChecksumHolds(f) /\ StandsForPlain(f)
=============================================================================
