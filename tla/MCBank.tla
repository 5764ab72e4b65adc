------------------------------- MODULE MCBank -------------------------------
(* Resources, packed here by what the format says: runs of bytes and copies,   *)
(* from the end of the resource to its beginning, as bits in words, the first  *)
(* word with the bits that do not fill one.                                    *)
EXTENDS BankFormat, SequencesExt

MCBits(x, n) == [k \in 1 .. n |-> Bit(x, n - k)]

MCRun(r) ==
  IF r.kind = "bytes"
  THEN LET n == Len(r.bytes)
           bytes == FlattenSeq([i \in 1 .. n |-> MCBits(r.bytes[i], 8)])
       IN (IF n <= 8 THEN <<0, 0>> \o MCBits(n - 1, 3) ELSE <<1, 1, 1>> \o MCBits(n - 9, 8)) \o bytes
  ELSE CASE r.kind = "short" /\ r.n = 2 -> <<0, 1>> \o MCBits(r.offset, 8)
         [] r.kind = "short" /\ r.n > 2 -> <<1, 0, r.n - 3>> \o MCBits(r.offset, r.n + 6)
         [] OTHER -> <<1, 1, 0>> \o MCBits(r.n - 1, 8) \o MCBits(r.offset, 12)

\* The bytes that a list of runs stands for, the highest first.
MCPlain(runs) ==
  FoldLeft(LAMBDA done, r :
             IF r.kind = "bytes" THEN done \o r.bytes
             ELSE FoldLeft(LAMBDA d, i : Append(d, d[Len(d) + 1 - r.offset]), done,
                           [i \in 1 .. r.n |-> i]),
           << >>, runs)

\* The words of the packed data, the first to be read first.
MCWords(runs) ==
  LET bits_ == FlattenSeq([i \in 1 .. Len(runs) |-> MCRun(runs[i])])
      n0 == Len(bits_) % 32
  IN [w \in 1 .. Len(bits_) \div 32 + 1 |->
        IF w = 1 THEN {k \in 0 .. n0 - 1 : bits_[k + 1] = 1} \cup {n0}
        ELSE {k \in Word : bits_[n0 + 32 * (w - 2) + k + 1] = 1}]

\* The runs with their places in the bits and in the bytes.
MCPlaces(runs, size_) ==
  LET n0 == Len(FlattenSeq([i \in 1 .. Len(runs) |-> MCRun(runs[i])])) % 32
      Length(r) == IF r.kind = "bytes" THEN Len(r.bytes) ELSE r.n
  IN FoldLeft(LAMBDA d, r :
                [at |-> d.at + Len(MCRun(r)), left |-> d.left - Length(r),
                 runs |-> Append(d.runs,
                            [kind |-> r.kind, n |-> Length(r), at |-> d.at, left |-> d.left,
                             offset |-> IF r.kind = "bytes" THEN 0 ELSE r.offset])],
              [at |-> 32 - n0, left |-> size_, runs |-> << >>], runs).runs

MCFile(runs) ==
  LET plain == MCPlain(runs)
      words == MCWords(runs)
      sum == FoldLeft(LAMBDA x, w : Xor(x, w), {}, words)
      length == {k \in 0 .. 15 : Bit(Len(plain), k) = 1}
      all == Reverse(<<length, sum>> \o words)
      ByteOf(w, j) == FoldLeft(LAMBDA x, k : 2 * x + (IF 8 * (3 - j) + 8 - k \in w THEN 1 ELSE 0), 0,
                               [k \in 1 .. 8 |-> k])
  IN [packedSize |-> 4 * Len(all), size |-> Len(plain), damaged |-> FALSE,
      runs |-> MCPlaces(runs, Len(plain)),
      packed |-> [i \in 0 .. 4 * Len(all) - 1 |-> ByteOf(all[i \div 4 + 1], i % 4)],
      plain |-> [i \in 0 .. Len(plain) - 1 |-> plain[Len(plain) - i]]]

\* One bit of byte i is wrong.
MCFlip(f, i, k) ==
  [f EXCEPT !.packed[i] = IF Bit(@, k) = 1 THEN @ - 2^k ELSE @ + 2^k, !.damaged = TRUE]

MCBytes(s) == [kind |-> "bytes", bytes |-> s]
MCCopy(n, o) == [kind |-> "short", n |-> n, offset |-> o]
MCLong(n, o) == [kind |-> "long", n |-> n, offset |-> o]

MCEach == MCFile(<<MCBytes(<<7, 128, 255>>), MCCopy(2, 2), MCCopy(3, 5), MCBytes(<<0>>),
                   MCCopy(4, 1), MCLong(15, 3)>>)
MCMany == MCFile(<<MCBytes(<<1, 2, 3, 4, 5, 6, 170, 85, 9>>), MCLong(30, 9), MCCopy(4, 39)>>)
MCTight == MCFile(<<MCBytes(<<200, 1>>), MCLong(16, 2), MCBytes(<<3>>), MCCopy(2, 1)>>)
MCUnpacked == [packedSize |-> 3, size |-> 3, damaged |-> FALSE,
               packed |-> [i \in 0 .. 2 |-> i + 5], plain |-> [i \in 0 .. 2 |-> i + 5]]

MCFiles == {MCEach, MCMany, MCTight, MCUnpacked, MCFlip(MCMany, 8, 3),
            MCFlip(MCMany, 11, 7), MCFlip(MCMany, 16, 0), MCFlip(MCTight, 6, 0)}
=============================================================================
