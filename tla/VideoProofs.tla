----------------------------- MODULE VideoProofs -----------------------------
(***************************************************************************)
(* Theorems about the drawing: for pages of any size and any shapes, texts *)
(* and pictures.                                                           *)
(***************************************************************************)
EXTENDS Video, SequenceTheorems, FiniteSetTheorems, WellFoundedInduction, TLAPS

Pair == Colors \X Colors
PageMemory == [Memory -> Pair]
Columns == Int \X Int
Glyph == {NewLine} \cup SUBSET ((0 .. CharW - 1) \X (0 .. CharH - 1))

Member == [shape : ShapeIds, at : Byte \X Byte, color : Inks \cup 128 .. 255]
Item == [shape : ShapeIds, zoom : Zooms, pt : Columns, color : Inks \cup 128 .. 255]

\* The polygon that is being filled, with m points.
Filling(m) ==
  [n : Nat, points : [0 .. m - 1 -> Columns], i : Nat, j : Int, left : Int,
   cpt1 : Int, cpt2 : Int, step1 : Int, step2 : Int, h : Nat, ink : Inks]

\* The points p are pairs of the same height, and the edges between them are no higher
\* than the table of quotients.
Facing(p, m) == \A k \in 0 .. m - 1 : p[k][2] = p[m - 1 - k][2]

LowEdges(p, m) == \A k \in 1 .. m \div 2 - 1 : (p[k][2] - p[k - 1][2]) % 65536 < TABLE_SIZE

\* The edges are taken from both ends of the points.
FillInv ==
  fill # NoFill => \E m \in 4 .. 49 :
    /\ m % 2 = 0
    /\ fill \in Filling(m)
    /\ Facing(fill.points, m) /\ LowEdges(fill.points, m)
    /\ fill.n = m - 2 * (fill.i - 1) /\ fill.n >= 2
    /\ fill.i >= 1 /\ fill.j = m - 1 - fill.i
    /\ hliney <= H - 1

\* Where the edges end that are being followed, when all their rows are drawn.
EdgesInv ==
  fill # NoFill /\ SmallEdges(fill.points) =>
    /\ Int16((fill.cpt1 + fill.h * fill.step1) \div FRACTION)
         = Int16(fill.left + fill.points[fill.j + 1][1])
    /\ Int16((fill.cpt2 + fill.h * fill.step2) \div FRACTION)
         = Int16(fill.left + fill.points[fill.i - 1][1])

VideoInv ==
  /\ mem \in PageMemory
  /\ curPagePtr1 \in Ptrs /\ curPagePtr2 \in Ptrs /\ curPagePtr3 \in Ptrs
  /\ paletteIdRequested \in Palettes \cup {NO_PALETTE_CHANGE_REQUESTED}
  /\ pal \in 0 .. 31 \cup {NO_PALETTE_CHANGE_REQUESTED}
  /\ todo \in Seq(Item)
  /\ hliney \in -HalfWord .. H
  /\ FillInv
  /\ done \in 0 .. MaxInstructions

-----------------------------------------------------------------------------
(* Numbers.                                                                *)

LEMMA Int16Type ==
  ASSUME NEW v \in Int
  PROVE  Int16(v) \in Int /\ -HalfWord <= Int16(v) /\ Int16(v) < HalfWord
BY DEF Int16, HalfWord

LEMMA Uint16Type == ASSUME NEW v \in Int PROVE Uint16(v) \in Nat
BY DEF Uint16

LEMMA Sizes ==
  /\ W \in Nat /\ W > 0 /\ H \in Nat /\ H > 0
  /\ PITCH \in Nat /\ W = 2 * PITCH
  /\ VID_PAGE_SIZE \in Nat /\ VID_PAGE_SIZE = PITCH * H /\ VID_PAGE_SIZE > 0
  /\ HalfWord \in Nat /\ HalfWord > 0
<1>1. W \in Nat /\ W > 0 /\ H \in Nat /\ H > 0 /\ W % 2 = 0
  BY SizeAssumption
<1>2. PITCH \in Nat /\ W = 2 * PITCH /\ PITCH > 0
  BY <1>1 DEF PITCH
<1>3. VID_PAGE_SIZE \in Nat /\ VID_PAGE_SIZE = PITCH * H /\ VID_PAGE_SIZE > 0
  BY <1>1, <1>2 DEF VID_PAGE_SIZE
<1> QED  BY <1>1, <1>2, <1>3 DEF HalfWord

LEMMA PtrType ==
  ASSUME NEW x \in Ptrs
  PROVE  x \in Nat /\ x + VID_PAGE_SIZE <= 4 * VID_PAGE_SIZE
<1>1. PICK p \in 0 .. 3 : x = p * VID_PAGE_SIZE
  BY DEF Ptrs, PagePtrs, Pages
<1>2. p = 0 \/ p = 1 \/ p = 2 \/ p = 3
  OBVIOUS
<1> QED  BY <1>1, <1>2, Sizes

LEMMA PagePtrsType == PagePtrs[0] \in Ptrs /\ PagePtrs[1] \in Ptrs /\ PagePtrs[2] \in Ptrs
<1>1. 0 \in Pages /\ 1 \in Pages /\ 2 \in Pages
  BY DEF Pages
<1> QED  BY <1>1 DEF Ptrs

LEMMA PagePtrType ==
  ASSUME curPagePtr2 \in Ptrs, curPagePtr3 \in Ptrs, NEW id
  PROVE  PagePtr(id) \in Ptrs
<1>1. CASE id \in Pages
  BY <1>1 DEF PagePtr, Ptrs
<1>2. CASE id \notin Pages
  BY <1>2, PagePtrsType DEF PagePtr
<1> QED  BY <1>1, <1>2

-----------------------------------------------------------------------------
(* Pages.                                                                  *)

\* The byte that memcpy takes for one of the target is one of the source, whichever way it
\* works, and the one in the same place when it does not meet what it has written.
LEMMA TakenPlace ==
  ASSUME NEW to \in Int, NEW from \in Int, NEW size \in Int, NEW way, NEW k \in 0 .. size - 1
  PROVE  /\ Taken(to, from, size, way, k) \in 0 .. size - 1
         /\ to = from \/ to - from >= size \/ from - to >= size
              => Taken(to, from, size, way, k) = k
<1>1. \A x, d \in Nat : d > 0 => x % d \in 0 .. x /\ (x < d => x % d = x)
  OBVIOUS
<1>2. CASE way = "upwards" /\ to > from
  <2>1. /\ k \in Nat /\ to - from \in Nat /\ to - from > 0
        /\ Taken(to, from, size, way, k) = k % (to - from)
    BY <1>2 DEF Taken
  <2>2. k % (to - from) \in 0 .. k /\ (k < to - from => k % (to - from) = k)
    BY <1>1, <2>1
  <2> DEFINE t == k % (to - from)
  <2> HIDE DEF t
  <2>3. Taken(to, from, size, way, k) = t /\ t \in 0 .. k /\ (k < to - from => t = k)
    BY <2>1, <2>2 DEF t
  <2> QED  BY <1>2, <2>3
<1>3. CASE way = "downwards" /\ to < from
  <2> DEFINE l == size - 1 - k
             t == l % (from - to)
  <2>1. /\ l \in Nat /\ from - to \in Nat /\ from - to > 0
        /\ Taken(to, from, size, way, k) = size - 1 - t
    BY <1>3 DEF Taken
  <2>2. t \in 0 .. l /\ (l < from - to => t = l)
    BY <1>1, <2>1
  <2> HIDE DEF t
  <2> QED  BY <1>3, <2>1, <2>2
<1>4. CASE ~ (way = "upwards" /\ to > from) /\ ~ (way = "downwards" /\ to < from)
  BY <1>4 DEF Taken
<1> QED  BY <1>2, <1>3, <1>4

LEMMA CopiedType ==
  ASSUME mem \in PageMemory, NEW to \in Int, NEW from \in Nat, NEW size \in Int, NEW way,
         from + size <= 4 * VID_PAGE_SIZE
  PROVE  Copied(to, from, size, way) \in PageMemory
<1>1. ASSUME NEW a \in Memory, a - to \in 0 .. size - 1
      PROVE  from + Taken(to, from, size, way, a - to) \in Memory
  <2> DEFINE t == Taken(to, from, size, way, a - to)
  <2>1. t \in 0 .. size - 1
    BY <1>1, TakenPlace
  <2> HIDE DEF t
  <2>2. from + t \in Memory
    BY <2>1, Sizes DEF Memory
  <2> QED  BY <2>2 DEF t
<1> QED  BY <1>1 DEF Copied, PageMemory

LEMMA ScrolledType ==
  ASSUME VideoInv, NEW s \in Ptrs, NEW d \in Ptrs, NEW vscroll \in Int, NEW way
  PROVE  Scrolled(d, s, vscroll, way) \in PageMemory
<1>2. s \in Nat /\ s + VID_PAGE_SIZE <= 4 * VID_PAGE_SIZE /\ d \in Nat
  BY PtrType
<1>3. CASE vscroll \notin 1 - H .. H - 1
  <2>1. vscroll \notin 1 - H .. -1 /\ vscroll \notin 0 .. H - 1
    BY <1>3, Sizes
  <2> QED  BY <1>3, <2>1 DEF Scrolled, VideoInv
<1>4. CASE vscroll \in 1 - H .. -1
  <2> DEFINE from == s - vscroll * PITCH
             size == (H + vscroll) * PITCH
  <2>1. from \in Nat /\ size \in Int
    <3>1. \A v, q : v \in Nat /\ q \in Nat => v * q \in Nat
      OBVIOUS
    <3>2. (-vscroll) * PITCH \in Nat
      BY <1>4, <3>1, Sizes
    <3>3. vscroll * PITCH = -((-vscroll) * PITCH) /\ vscroll * PITCH \in Int
      BY <1>4, Sizes
    <3> QED  BY <1>2, <1>4, <3>2, <3>3, Sizes
  <2>2. from + size = s + VID_PAGE_SIZE
    BY <1>2, <1>4, Sizes
  <2>3. vscroll \in 1 - H .. H - 1 /\ vscroll \notin 0 .. H - 1
    BY <1>4, Sizes
  <2> HIDE DEF from, size
  <2>4. Copied(d, from, size, way) \in PageMemory
    BY <1>2, <2>1, <2>2, CopiedType DEF VideoInv
  <2> QED  BY <1>4, <2>3, <2>4 DEF Scrolled, from, size
<1>5. CASE vscroll \in 0 .. H - 1
  <2> DEFINE to == d + vscroll * PITCH
             size == (H - vscroll) * PITCH
  <2>1. to \in Int /\ size \in Int /\ vscroll * PITCH \in Nat
    BY <1>2, <1>5, Sizes
  <2>2. size = VID_PAGE_SIZE - vscroll * PITCH
    BY <1>5, Sizes
  <2>3. s + size <= 4 * VID_PAGE_SIZE
    BY <1>2, <2>1, <2>2, Sizes
  <2>4. vscroll \in 1 - H .. H - 1 /\ vscroll \notin 1 - H .. -1
    BY <1>5, Sizes
  <2> HIDE DEF to, size
  <2>5. Copied(to, s, size, way) \in PageMemory
    BY <1>2, <2>1, <2>3, CopiedType DEF VideoInv
  <2> QED  BY <1>5, <2>4, <2>5 DEF Scrolled, to, size
<1>6. vscroll \in 1 - H .. H - 1 => vscroll \in 1 - H .. -1 \/ vscroll \in 0 .. H - 1
  BY Sizes
<1> QED  BY <1>3, <1>4, <1>5, <1>6

LEMMA CopiedPageType ==
  ASSUME VideoInv, NEW src, NEW dst, NEW vscroll \in Int, NEW way
  PROVE  CopiedPage(src, dst, vscroll, way) \in PageMemory
<1>1. \A id : PagePtr(id) \in Ptrs
  BY PagePtrType DEF VideoInv
<1>2. \A id : Copied(PagePtr(dst), PagePtr(id), VID_PAGE_SIZE, way) \in PageMemory
  BY <1>1, PtrType, Sizes, CopiedType DEF VideoInv
<1>3. \A id : Scrolled(PagePtr(dst), PagePtr(id), vscroll, way) \in PageMemory
  BY <1>1, ScrolledType
<1>4. CASE src = dst
  BY <1>4 DEF CopiedPage, VideoInv
<1>5. CASE src # dst /\ AsksForScroll(src)
  BY <1>3, <1>5 DEF CopiedPage
<1>6. CASE src # dst /\ ~ AsksForScroll(src)
  BY <1>2, <1>6 DEF CopiedPage
<1> QED  BY <1>4, <1>5, <1>6

\* Which byte of the planes a byte of page 0 comes of.
LEMMA GroupOf ==
  ASSUME NEW a \in Nat, a < VID_PAGE_SIZE
  PROVE  /\ a \div (Group \div 2) \in 0 .. (W * H) \div Group - 1
         /\ a % (Group \div 2) \in 0 .. Group \div 2 - 1
<1>1. Group \in Nat /\ Group > 0 /\ Group % 2 = 0 /\ W % Group = 0
  BY SizeAssumption
<1> DEFINE g == Group \div 2
           m == W \div Group
           k == a \div g
<1>2. g \in Nat /\ g > 0 /\ Group = 2 * g
  BY <1>1
<1>3. m \in Nat /\ W = Group * m
  BY <1>1, Sizes
<1> HIDE DEF g, m
<1>4. k \in Nat /\ g * k <= a /\ a % g \in 0 .. g - 1
  BY <1>2
<1>5. PITCH = g * m
  BY <1>2, <1>3, Sizes
<1>6. VID_PAGE_SIZE = g * (m * H)
  BY <1>2, <1>3, <1>5, Sizes
<1>7. m * H \in Nat
  BY <1>3, Sizes
<1>8. W * H = Group * (m * H)
  BY <1>1, <1>3, <1>7, Sizes
<1> HIDE DEF k
<1> DEFINE q == m * H
<1>9. g * k < g * q /\ q \in Nat
  BY <1>2, <1>4, <1>6, <1>7
<1>10. (W * H) \div Group = q
  <2>1. \A x, y \in Nat : x > 0 => (x * y) \div x = y
    OBVIOUS
  <2> QED  BY <1>1, <1>7, <1>8, <2>1
<1> HIDE DEF q
<1>11. k < q
  <2>1. SUFFICES ASSUME q <= k PROVE FALSE
    BY <1>4, <1>9
  <2>2. g * (k - q) \in Nat /\ g * (k - q) = g * k - g * q
    BY <1>2, <1>4, <1>9, <2>1
  <2> QED  BY <1>2, <1>4, <1>9, <2>2
<1> QED  BY <1>4, <1>9, <1>10, <1>11 DEF g, k

LEMMA PictureType == ASSUME VideoInv, CopyPagePtr  PROVE mem' \in PageMemory
<1>1. PICK src \in Pictures :
        mem' = [a \in Memory |->
                  IF a < VID_PAGE_SIZE
                  THEN Interleaved(src, a \div (Group \div 2), a % (Group \div 2))
                  ELSE mem[a]]
  BY DEF CopyPagePtr
<1>2. ASSUME NEW a \in Memory, a < VID_PAGE_SIZE
      PROVE  Interleaved(src, a \div (Group \div 2), a % (Group \div 2)) \in Pair
  <2>1. a \in Nat
    BY Sizes DEF Memory
  <2>2. /\ a \div (Group \div 2) \in 0 .. (W * H) \div Group - 1
        /\ a % (Group \div 2) \in 0 .. Group \div 2 - 1
    BY <1>2, <2>1, GroupOf
  <2> QED  BY <2>2, PicturesAssumption DEF Pair
<1>3. \A a \in Memory : mem[a] \in Pair
  BY DEF VideoInv, PageMemory
<1> QED  BY <1>1, <1>2, <1>3 DEF PageMemory

-----------------------------------------------------------------------------
(* Half bytes.                                                             *)

LEMMA HalfType ==
  ASSUME mem \in PageMemory, NEW a \in Memory, NEW half \in {1, 2}
  PROVE  mem[a][half] \in Colors
BY DEF PageMemory, Pair

LEMMA InkedType ==
  ASSUME VideoInv, NEW ink \in Inks, NEW a \in Memory, a >= curPagePtr1, NEW half \in {1, 2}
  PROVE  Inked(ink, a, half) \in Colors
<1>1. \A c \in Colors : c \in 0 .. 15 /\ (c < 8 => c + 8 \in Colors)
  BY SizeAssumption
<1>2. mem[a][half] \in Colors
  BY HalfType DEF VideoInv
<1>3. mem[a - curPagePtr1][half] \in Colors
  <2>1. curPagePtr1 \in Nat
    BY PtrType DEF VideoInv
  <2>2. a - curPagePtr1 \in Memory
    BY <2>1, Sizes DEF Memory
  <2> QED  BY <2>2, HalfType DEF VideoInv
<1> DEFINE c == mem[a][half]
           d == mem[a - curPagePtr1][half]
<1>4. c \in Colors /\ d \in Colors /\ (c < 8 => c + 8 \in Colors)
  BY <1>1, <1>2, <1>3
<1>5. Inked(ink, a, half) = CASE ink = 16 -> IF c < 8 THEN c + 8 ELSE c
                              [] ink = 17 -> d
                              [] OTHER -> ink
  BY DEF Inked, BLEND, PAGE0
<1> HIDE DEF c, d
<1>6. CASE ink = 16
  BY <1>4, <1>5, <1>6
<1>7. CASE ink = 17
  BY <1>4, <1>5, <1>7
<1>8. CASE ink # 16 /\ ink # 17
  BY <1>5, <1>8 DEF Inks, BLEND, PAGE0
<1> QED  BY <1>6, <1>7, <1>8

\* However the bytes of a line are counted, a count is a number.
LEMMA CountType ==
  ASSUME NEW ink, NEW v \in Int
  PROVE  v % Counts(ink) \in Nat /\ (v \in 0 .. 255 => v % Counts(ink) = v)
<1>1. CASE ink = PAGE0
  BY <1>1 DEF Counts
<1>2. CASE ink # PAGE0
  BY <1>2 DEF Counts
<1> QED  BY <1>1, <1>2

LEMMA LineType ==
  ASSUME VideoInv, hliney >= 0, NEW xa \in Nat, NEW xb \in Nat, NEW ink \in Inks
  PROVE  Line(xa, xb, ink) \in PageMemory
<1> DEFINE xmax == IF xa > xb THEN xa ELSE xb
           xmin == IF xa > xb THEN xb ELSE xa
           p == curPagePtr1 + hliney * PITCH + xmin \div 2
           s == IF xmin % 2 = 1 THEN 1 ELSE 0
           e == IF xmax % 2 = 0 THEN 1 ELSE 0
           w == (xmax \div 2 - xmin \div 2 + 1 - s - e) % Counts(ink)
           whole == p + s .. p + s + w - 1
           left(a) == a \in whole \/ (e = 1 /\ a = p + s + w)
           right(a) == a \in whole \/ (s = 1 /\ a = p)
<1>1. Line(xa, xb, ink) =
        [a \in Memory |-> << IF left(a) THEN Inked(ink, a, 1) ELSE mem[a][1],
                             IF right(a) THEN Inked(ink, a, 2) ELSE mem[a][2] >>]
  BY DEF Line
<1>2. xmin \in Nat /\ xmax \in Nat
  OBVIOUS
<1>3. s \in 0 .. 1 /\ e \in 0 .. 1
  OBVIOUS
<1> HIDE DEF xmin, xmax, s, e
<1>4. w \in Nat
  BY <1>2, <1>3, CountType
<1> HIDE DEF w
<1>5. curPagePtr1 \in Nat
  BY PtrType DEF VideoInv
<1>6. hliney * PITCH \in Nat
  <2>1. hliney \in Nat
    BY Sizes DEF VideoInv
  <2> QED  BY <2>1, Sizes
<1>7. p \in Nat /\ p >= curPagePtr1
  BY <1>2, <1>5, <1>6
<1> HIDE DEF p
<1>8. ASSUME NEW a \in Memory  PROVE left(a) \/ right(a) => a >= curPagePtr1
  <2>1. a \in Nat
    BY Sizes DEF Memory
  <2> QED  BY <1>3, <1>4, <1>5, <1>7, <2>1
<1>9. ASSUME NEW a \in Memory
      PROVE  << IF left(a) THEN Inked(ink, a, 1) ELSE mem[a][1],
                IF right(a) THEN Inked(ink, a, 2) ELSE mem[a][2] >> \in Pair
  <2>1. mem[a][1] \in Colors /\ mem[a][2] \in Colors
    BY HalfType DEF VideoInv
  <2>2. left(a) => Inked(ink, a, 1) \in Colors
    BY <1>8, InkedType
  <2>3. right(a) => Inked(ink, a, 2) \in Colors
    BY <1>8, InkedType
  <2> HIDE DEF left, right
  <2> QED  BY <2>1, <2>2, <2>3 DEF Pair
<1> HIDE DEF left, right
<1> QED  BY <1>1, <1>9 DEF PageMemory

\* Where a pixel of the page is that is drawn to.
LEMMA PointAddress ==
  ASSUME VideoInv, NEW x \in 0 .. W - 1, NEW y \in 0 .. H - 1
  PROVE  /\ curPagePtr1 + y * PITCH + x \div 2 \in Memory
         /\ curPagePtr1 + y * PITCH + x \div 2 >= curPagePtr1
<1>1. curPagePtr1 \in Nat /\ curPagePtr1 + VID_PAGE_SIZE <= 4 * VID_PAGE_SIZE
  BY PtrType DEF VideoInv
<1>2. x \div 2 \in Nat /\ x \div 2 < PITCH
  BY Sizes
<1>3. y * PITCH \in Nat /\ y * PITCH <= VID_PAGE_SIZE - PITCH
  <2>1. (H - 1 - y) * PITCH \in Nat
    BY Sizes
  <2>2. (H - 1 - y) * PITCH = H * PITCH - PITCH - y * PITCH
    BY Sizes
  <2> QED  BY <2>1, <2>2, Sizes
<1> DEFINE r == y * PITCH
           c == x \div 2
<1> HIDE DEF r, c
<1>4. r \in Nat /\ c \in Nat /\ r <= VID_PAGE_SIZE - PITCH /\ c < PITCH
  BY <1>2, <1>3 DEF r, c
<1>5. curPagePtr1 + r + c \in Memory /\ curPagePtr1 + r + c >= curPagePtr1
  BY <1>1, <1>4, Sizes DEF Memory
<1> QED  BY <1>5 DEF r, c

LEMMA PointType ==
  ASSUME VideoInv, NEW ink \in Inks, NEW x \in Int, NEW y \in Int
  PROVE  Point(ink, x, y) \in PageMemory
<1> DEFINE p == curPagePtr1 + y * PITCH + x \div 2
           half == IF x % 2 = 1 THEN 2 ELSE 1
<1>1. CASE x \in 0 .. W - 1 /\ y \in 0 .. H - 1
  <2>1. p \in Memory /\ p >= curPagePtr1
    BY <1>1, PointAddress
  <2>2. Point(ink, x, y) = [mem EXCEPT ![p][half] = Inked(ink, p, half)]
    BY <1>1 DEF Point
  <2>3. half \in {1, 2}
    OBVIOUS
  <2> HIDE DEF p, half
  <2>4. Inked(ink, p, half) \in Colors
    BY <2>1, <2>3, InkedType
  <2>5. ASSUME NEW t \in Pair, NEW c \in Colors  PROVE [t EXCEPT ![half] = c] \in Pair
    BY <2>3 DEF Pair
  <2>6. mem[p] \in Pair
    BY <2>1 DEF VideoInv, PageMemory
  <2>7. [mem[p] EXCEPT ![half] = Inked(ink, p, half)] \in Pair
    BY <2>4, <2>5, <2>6
  <2>8. Point(ink, x, y) = [mem EXCEPT ![p] = [mem[p] EXCEPT ![half] = Inked(ink, p, half)]]
    BY <2>2
  <2> QED  BY <2>7, <2>8 DEF VideoInv, PageMemory
<1>2. CASE ~ (x \in 0 .. W - 1 /\ y \in 0 .. H - 1)
  BY <1>2 DEF Point, VideoInv
<1> QED  BY <1>1, <1>2

LEMMA CharType ==
  ASSUME NEW m \in PageMemory, NEW glyph, NEW x, NEW y, NEW c \in Colors
  PROVE  Char(m, glyph, x, y, c) \in PageMemory
<1> DEFINE p == curPagePtr1 + x * (CharW \div 2) + y * PITCH
           bit(a, half) == <<2 * ((a - p) % PITCH) + half - 1, (a - p) \div PITCH>> \in glyph
<1>1. ASSUME NEW a \in Memory
      PROVE  m[a] \in Pair /\ << IF bit(a, 1) THEN c ELSE m[a][1],
                                 IF bit(a, 2) THEN c ELSE m[a][2] >> \in Pair
  <2>1. m[a] \in Pair /\ m[a][1] \in Colors /\ m[a][2] \in Colors
    BY <1>1 DEF PageMemory, Pair
  <2> HIDE DEF bit
  <2> QED  BY <2>1 DEF Pair
<1>2. Char(m, glyph, x, y, c) =
        IF x <= W \div CharW - 1 /\ y <= H - CharH
        THEN [a \in Memory |-> IF a < p THEN m[a]
                               ELSE << IF bit(a, 1) THEN c ELSE m[a][1],
                                       IF bit(a, 2) THEN c ELSE m[a][2] >>]
        ELSE m
  BY DEF Char
<1> HIDE DEF p, bit
<1> QED  BY <1>1, <1>2 DEF PageMemory

-----------------------------------------------------------------------------
(* Texts: the fold over the characters.                                    *)

LEMMA SmallestSubset ==
  ASSUME NEW S, IsFiniteSet(S), NEW T, T \subseteq SUBSET S, T # {}
  PROVE  \E s \in T : \A t \in T : ~ (t \subseteq s /\ t # s)
<1> DEFINE R == StrictSubsetOrdering(S)
<1>1. IsWellFoundedOn(R, SUBSET S)
  BY FS_StrictSubsetOrderingWellFounded, FS_FiniteSubsetsOfFinite
<1>2. PICK s \in T : \A t \in T : ~ (<<t, s>> \in R)
  BY <1>1, WFMin
<1>3. ASSUME NEW t \in T, t \subseteq s, t # s PROVE FALSE
  <2>1. <<t, s>> \in R
    BY <1>3 DEF StrictSubsetOrdering
  <2> QED  BY <1>2, <2>1
<1> QED  BY <1>3

LEMMA SmallestNumber ==
  ASSUME NEW n \in Nat, NEW T, T \subseteq 0 .. n, T # {}
  PROVE  \E k \in T : \A i \in T : k <= i
<1> DEFINE S == 1 .. n
           Q == {1 .. k : k \in T}
<1>1. Q \subseteq SUBSET S
  <2>1. ASSUME NEW k \in T  PROVE 1 .. k \subseteq S
    BY <2>1
  <2> QED  BY <2>1
<1>2. Q # {} /\ IsFiniteSet(S)
  <2>1. PICK k \in T : TRUE
    OBVIOUS
  <2>2. 1 .. k \in Q
    BY <2>1, Zenon
  <2>3. IsFiniteSet(S)
    BY FS_Interval
  <2> HIDE DEF Q, S
  <2> QED  BY <2>2, <2>3
<1> HIDE DEF S, Q
<1>3. PICK q \in Q : \A r \in Q : ~ (r \subseteq q /\ r # q)
  BY <1>1, <1>2, SmallestSubset
<1> USE DEF Q
<1>4. PICK k \in T : q = 1 .. k
  BY <1>3
<1>5. ASSUME NEW i \in T, i < k  PROVE FALSE
  <2>1. 1 .. i \in Q /\ 1 .. i \subseteq 1 .. k
    BY <1>5
  <2>2. k \in 1 .. k /\ k \notin 1 .. i
    BY <1>5
  <2> QED  BY <1>3, <1>4, <2>1, <2>2
<1> QED  BY <1>5

LEMMA MaxIn ==
  ASSUME NEW n \in Nat, NEW S \in SUBSET (1 .. n), S # {}
  PROVE  Max(S) \in S /\ \A y \in S : Max(S) >= y
<1> DEFINE T == {k \in 0 .. n : \A y \in S : y <= k}
<1>1. n \in T
  BY DEF T
<1>0. T \subseteq 0 .. n
  OBVIOUS
<1> HIDE DEF T
<1>2. PICK k \in T : \A i \in T : k <= i
  BY <1>0, <1>1, SmallestNumber
<1> USE DEF T
<1>3. k \in S
  <2>1. SUFFICES ASSUME k \notin S PROVE FALSE
    OBVIOUS
  <2>2. \A y \in S : y \in Int /\ y <= k - 1 /\ y >= 1
    BY <2>1
  <2> DEFINE i == k - 1
  <2>3. i \in 0 .. n /\ i < k
    <3>1. k \in 0 .. n
      OBVIOUS
    <3>2. PICK y \in S : TRUE
      OBVIOUS
    <3>3. y \in Int /\ y <= k - 1 /\ y >= 1
      BY <2>2
    <3> QED  BY <3>1, <3>3
  <2>4. i \in T
    BY <2>2, <2>3
  <2> QED  BY <1>2, <2>3, <2>4
<1>4. \A y \in S : k >= y
  OBVIOUS
<1> QED  BY <1>3, <1>4 DEF Max

\* A text w: its characters, the pen at its beginning, the column that new lines begin
\* in, and the colour.  The pen after the characters at t, the last of them coming last.
PenAfter(g, w, t) ==
  IF t = {} THEN w.start ELSE Typed(g[t \ {Max(t)}], w.s[Max(t)], w.x, w.c)

Writes(g, w, S) == \A t \in SUBSET S : g[t] = PenAfter(g, w, t)

IsWriting(g, w, S) == g = [t \in SUBSET S |-> PenAfter(g, w, t)]

\* The sets whose subsets have a last element.
Topped(S) == IsFiniteSet(S) /\ \A t \in SUBSET S : t # {} => Max(t) \in t

LEMMA WritingsAgree ==
  ASSUME NEW S, Topped(S), NEW w, NEW s \in SUBSET S, NEW u \in SUBSET S,
         NEW g, Writes(g, w, s), NEW h, Writes(h, w, u)
  PROVE  \A t \in SUBSET (s \cap u) : g[t] = h[t]
<1> DEFINE T == {t \in SUBSET (s \cap u) : g[t] # h[t]}
<1>1. SUFFICES ASSUME T # {} PROVE FALSE
  OBVIOUS
<1>2. T \subseteq SUBSET S /\ IsFiniteSet(S)
  BY DEF Topped
<1> HIDE DEF T
<1>3. PICK t \in T : \A v \in T : ~ (v \subseteq t /\ v # t)
  BY <1>1, <1>2, SmallestSubset
<1> USE DEF T
<1>4. t # {}
  BY DEF Writes, PenAfter
<1> DEFINE v == t \ {Max(t)}
<1>5. Max(t) \in t
  BY <1>4 DEF Topped
<1>6. v \subseteq t /\ v # t /\ v \in SUBSET (s \cap u)
  BY <1>5
<1>7. g[v] = h[v]
  BY <1>3, <1>6
<1>8. /\ g[t] = Typed(g[v], w.s[Max(t)], w.x, w.c)
      /\ h[t] = Typed(h[v], w.s[Max(t)], w.x, w.c)
  BY <1>4 DEF Writes, PenAfter
<1> QED  BY <1>7, <1>8

LEMMA WritingExists ==
  ASSUME NEW S, Topped(S), NEW w
  PROVE  \E g : IsWriting(g, w, S)
<1> DEFINE Solved(s) == \E g : Writes(g, w, s)
           K(s) == CHOOSE g : Writes(g, w, s)
           Step(t) == IF t = {} THEN w.start
                      ELSE Typed(K(t \ {Max(t)})[t \ {Max(t)}], w.s[Max(t)], w.x, w.c)
           G(s) == [t \in SUBSET s |-> Step(t)]
           T == {s \in SUBSET S : ~ Solved(s)}
<1>1. ASSUME NEW s \in SUBSET S, \A u \in SUBSET s : u # s => Solved(u)
      PROVE  Writes(G(s), w, s)
  <2>1. SUFFICES ASSUME NEW t \in SUBSET s PROVE G(s)[t] = PenAfter(G(s), w, t)
    BY DEF Writes
  <2>2. CASE t = {}
    BY <2>2 DEF PenAfter
  <2>3. CASE t # {}
    <3> DEFINE u == t \ {Max(t)}
    <3>0. Max(t) \in t
      BY <2>3 DEF Topped
    <3>1. u \in SUBSET s /\ u # s /\ u \in SUBSET u /\ u \in SUBSET S
      BY <3>0
    <3>2. Writes(K(u), w, u)
      BY <1>1, <3>1
    <3>3. G(s)[t] = Typed(K(u)[u], w.s[Max(t)], w.x, w.c)
      BY <2>3
    <3>4. PenAfter(G(s), w, t) = Typed(G(s)[u], w.s[Max(t)], w.x, w.c)
      BY <2>3 DEF PenAfter
    <3>5. K(u)[u] = PenAfter(K(u), w, u)
      BY <3>1, <3>2 DEF Writes
    <3>6. G(s)[u] = Step(u)
      BY <3>1
    <3> HIDE DEF G, K
    <3>7. K(u)[u] = Step(u)
      <4>1. CASE u = {}
        BY <3>5, <4>1 DEF PenAfter
      <4>2. CASE u # {}
        <5> DEFINE v == u \ {Max(u)}
        <5>0. Max(u) \in u
          BY <3>1, <4>2 DEF Topped
        <5>1. /\ v \in SUBSET u /\ v \in SUBSET s /\ v # s
              /\ v \in SUBSET S /\ v \in SUBSET (u \cap v)
          BY <3>1, <5>0
        <5>2. K(u)[u] = Typed(K(u)[v], w.s[Max(u)], w.x, w.c)
          BY <3>5, <4>2 DEF PenAfter
        <5>3. Step(u) = Typed(K(v)[v], w.s[Max(u)], w.x, w.c)
          BY <4>2
        <5>4. Writes(K(v), w, v)
          BY <1>1, <5>1 DEF K
        <5> HIDE DEF u, v
        <5>5. \A x \in SUBSET (u \cap v) : K(u)[x] = K(v)[x]
          BY <3>1, <3>2, <5>1, <5>4, WritingsAgree
        <5>6. K(u)[v] = K(v)[v]
          BY <5>1, <5>5
        <5> HIDE DEF Step
        <5> QED  BY <5>2, <5>3, <5>6
      <4> QED  BY <4>1, <4>2
    <3> HIDE DEF Step, u
    <3> QED  BY <3>3, <3>4, <3>6, <3>7
  <2> QED  BY <2>2, <2>3
<1>2. \A s \in SUBSET S : Solved(s)
  <2>1. SUFFICES ASSUME T # {} PROVE FALSE
    OBVIOUS
  <2>2. T \subseteq SUBSET S /\ IsFiniteSet(S)
    BY DEF Topped
  <2> HIDE DEF T
  <2>3. PICK s \in T : \A u \in T : ~ (u \subseteq s /\ u # s)
    BY <2>1, <2>2, SmallestSubset
  <2>4. s \in SUBSET S /\ ~ Solved(s)
    BY <2>3 DEF T
  <2>5. \A u \in SUBSET s : u # s => Solved(u)
    BY <2>3, <2>4 DEF T
  <2> HIDE DEF G
  <2>6. Writes(G(s), w, s)
    BY <1>1, <2>4, <2>5
  <2> QED  BY <2>4, <2>6
<1> HIDE DEF K
<1>3. Writes(G(S), w, S)
  BY <1>1, <1>2
<1>4. G(S) = [t \in SUBSET S |-> G(S)[t]]
  OBVIOUS
<1> HIDE DEF G
<1>5. G(S) = [t \in SUBSET S |-> PenAfter(G(S), w, t)]
  BY <1>3, <1>4 DEF Writes
<1> QED  BY <1>5 DEF IsWriting

LEMMA IntervalTopped == ASSUME NEW n \in Nat PROVE Topped(1 .. n)
<1>1. IsFiniteSet(1 .. n)
  BY FS_Interval
<1>2. \A t \in SUBSET (1 .. n) : t # {} => Max(t) \in t
  BY MaxIn
<1> QED  BY <1>1, <1>2 DEF Topped

TextOf(s, at, c) ==
  [s |-> s, start |-> [m |-> mem, x |-> at[1], y |-> at[2]], x |-> at[1], c |-> c]

\* What drawString does is to write one character after the other.
LEMMA TextIsWritten ==
  ASSUME NEW s, NEW at, NEW c, NEW S, S = DOMAIN s, Topped(S)
  PROVE  \E g : Writes(g, TextOf(s, at, c), S) /\ Written(s, at, c) = g[S].m
<1> DEFINE start == [m |-> mem, x |-> at[1], y |-> at[2]]
           w == TextOf(s, at, c)
           Unfolded(g) == [t \in SUBSET DOMAIN s |->
             IF t = {} THEN start
             ELSE LET x == Max(t) IN Typed(g[t \ {x}], s[x], at[1], c)]
           Chosen == CHOOSE g : g = Unfolded(g)
<1>1. Written(s, at, c) = Chosen[S].m
  BY DEF Written, FoldLeft, MapThenFoldSet
<1>2. w.s = s /\ w.start = start /\ w.x = at[1] /\ w.c = c
  BY DEF TextOf
<1> HIDE DEF w, start
<1>3. \A g : Unfolded(g) = [t \in SUBSET S |-> PenAfter(g, w, t)]
  BY <1>2 DEF PenAfter
<1> HIDE DEF Unfolded
<1>4. \E g : g = Unfolded(g)
  <2>1. PICK g : IsWriting(g, w, S)
    BY WritingExists
  <2> QED  BY <1>3, <2>1 DEF IsWriting
<1>5. Chosen = Unfolded(Chosen)
  BY <1>4
<1> HIDE DEF Chosen
<1>6. Chosen = [t \in SUBSET S |-> PenAfter(Chosen, w, t)]
  BY <1>3, <1>5
<1>7. Writes(Chosen, w, S)
  BY <1>6 DEF Writes
<1> QED  BY <1>1, <1>7 DEF w

\* The pens f before and after every character of a text.
Pens(f, s, n, at, c) ==
  /\ f[0] = [m |-> mem, x |-> at[1], y |-> at[2]]
  /\ \A k \in 1 .. n : f[k] = Typed(f[k - 1], s[k], at[1], c)
  /\ Written(s, at, c) = f[n].m

LEMMA PenSteps ==
  ASSUME NEW s, NEW at, NEW c, NEW n \in Nat, DOMAIN s = 1 .. n
  PROVE  \E f : Pens(f, s, n, at, c)
<1> DEFINE S == 1 .. n
           w == TextOf(s, at, c)
<1>0. w.s = s /\ w.start = [m |-> mem, x |-> at[1], y |-> at[2]] /\ w.x = at[1] /\ w.c = c
  BY DEF TextOf
<1>1. S = DOMAIN s /\ Topped(S)
  BY IntervalTopped
<1> HIDE DEF S
<1>2. PICK g : Writes(g, w, S) /\ Written(s, at, c) = g[S].m
  BY <1>1, TextIsWritten
<1> HIDE DEF w
<1> DEFINE f == [k \in 0 .. n |-> g[1 .. k]]
<1>3. f[n] = g[S]
  BY DEF S
<1>4. f[0] = w.start
  <2>1. 1 .. 0 = {} /\ {} \in SUBSET S
    OBVIOUS
  <2>2. f[0] = g[{}]
    BY <2>1
  <2>3. g[{}] = PenAfter(g, w, {})
    BY <1>2, <2>1 DEF Writes
  <2> QED  BY <2>2, <2>3 DEF PenAfter
<1>5. ASSUME NEW k \in 1 .. n  PROVE f[k] = Typed(f[k - 1], w.s[k], w.x, w.c)
  <2> DEFINE t == 1 .. k
  <2>1. t \in SUBSET S /\ t \in SUBSET (1 .. n) /\ t # {}
    <3>1. k \in t
      OBVIOUS
    <3>2. t \subseteq 1 .. n
      OBVIOUS
    <3> HIDE DEF t
    <3> QED  BY <3>1, <3>2 DEF S
  <2>2. Max(t) = k
    <3>1. Max(t) \in t /\ \A y \in t : Max(t) >= y
      BY <2>1, MaxIn
    <3>2. k \in t
      OBVIOUS
    <3> QED  BY <3>1, <3>2
  <2>3. t \ {k} = 1 .. k - 1
    OBVIOUS
  <2>4. f[k] = g[t] /\ f[k - 1] = g[1 .. k - 1]
    OBVIOUS
  <2> HIDE DEF t, f
  <2>5. g[t] = PenAfter(g, w, t)
    BY <1>2, <2>1 DEF Writes
  <2>6. g[t] = Typed(g[t \ {k}], w.s[k], w.x, w.c)
    BY <2>1, <2>2, <2>5 DEF PenAfter
  <2> QED  BY <2>3, <2>4, <2>6
<1> HIDE DEF f
<1> QED  BY <1>0, <1>2, <1>3, <1>4, <1>5 DEF Pens

PenState == [m : PageMemory, x : Int, y : Int]

LEMMA TypedType ==
  ASSUME NEW pen \in PenState, NEW glyph, NEW x \in Int, NEW c \in Colors
  PROVE  Typed(pen, glyph, x, c) \in PenState
<1>1. CharH \in Int
  BY SizeAssumption
<1>2. Uint16(pen.y + CharH) \in Int /\ Uint16(pen.x + 1) \in Int
  BY <1>1, Uint16Type DEF PenState
<1>3. Char(pen.m, glyph, pen.x, pen.y, c) \in PageMemory
  BY CharType DEF PenState
<1> QED  BY <1>2, <1>3 DEF Typed, PenState

LEMMA TextType ==
  ASSUME VideoInv, NEW s, NEW n \in Nat, DOMAIN s = 1 .. n, NEW at \in Columns, NEW c \in Colors
  PROVE  Written(s, at, c) \in PageMemory
<1> DEFINE start == [m |-> mem, x |-> at[1], y |-> at[2]]
<1>0. PICK f : Pens(f, s, n, at, c)
  BY PenSteps
<1>1. /\ f[0] = start
      /\ \A k \in 1 .. n : f[k] = Typed(f[k - 1], s[k], at[1], c)
      /\ Written(s, at, c) = f[n].m
  BY <1>0 DEF Pens
<1>2. start \in PenState /\ at[1] \in Int
  BY DEF PenState, VideoInv, Columns
<1> DEFINE T == {k \in 0 .. n : f[k] \notin PenState}
<1>3. SUFFICES ASSUME T # {} PROVE FALSE
  BY <1>1 DEF PenState
<1>4. T \subseteq 0 .. n
  OBVIOUS
<1> HIDE DEF T, start
<1>5. PICK k \in T : \A i \in T : k <= i
  BY <1>3, <1>4, SmallestNumber
<1>6. k \in 1 .. n /\ f[k] \notin PenState
  BY <1>1, <1>2, <1>5 DEF T
<1>7. f[k - 1] \in PenState
  BY <1>5, <1>6 DEF T
<1> QED  BY <1>1, <1>2, <1>6, <1>7, TypedType

LEMMA StringType == ASSUME VideoInv, DrawString  PROVE mem' \in PageMemory
<1>0. CASE mem' = mem
  BY <1>0 DEF VideoInv
<1>1. SUFFICES ASSUME NEW s \in Strings, NEW at \in TextPlaces, NEW c \in Colors,
                      mem' = Written(s, at, c)
               PROVE  mem' \in PageMemory
  BY <1>0 DEF DrawString
<1>2. s \in Seq(Glyph) /\ at \in Nat \X Nat
  BY SizeAssumption, StringsAssumption DEF Glyph
<1>3. at \in Columns
  BY <1>2 DEF Columns
<1> DEFINE n == Len(s)
<1>4. n \in Nat /\ DOMAIN s = 1 .. n
  BY <1>2
<1> HIDE DEF n
<1> QED  BY <1>1, <1>3, <1>4, TextType

-----------------------------------------------------------------------------
(* Shapes.                                                                 *)

LEMMA MovedType ==
  ASSUME NEW pt \in Columns, NEW d \in Columns, NEW zoom \in Nat, NEW sign \in {-1, 1}
  PROVE  Moved(pt, d, zoom, sign) \in Columns
<1>1. /\ pt[1] \in Int /\ pt[2] \in Int /\ d[1] \in Int /\ d[2] \in Int
  BY DEF Columns
<1>2. \A a, b \in Int : a + sign * ((b * zoom) \div 64) \in Int
  OBVIOUS
<1>3. /\ Int16(pt[1] + sign * ((d[1] * zoom) \div 64)) \in Int
      /\ Int16(pt[2] + sign * ((d[2] * zoom) \div 64)) \in Int
  BY <1>1, <1>2, Int16Type
<1> QED  BY <1>3 DEF Moved, Columns

LEMMA BytesAreColumns == \A pt \in Byte \X Byte : pt \in Columns
BY DEF Byte, Columns

LEMMA HeadType ==
  ASSUME VideoInv, todo # <<>>
  PROVE  Head1 \in Item /\ Tail(todo) \in Seq(Item) /\ WellFormed(Shape)
<1>1. Head1 \in Item /\ Tail(todo) \in Seq(Item)
  BY HeadTailProperties DEF VideoInv, Head1
<1>2. Head1.shape \in ShapeIds
  BY <1>1 DEF Item
<1> QED  BY <1>1, <1>2, ShapesAssumption DEF Shape

LEMMA GroupType == ASSUME VideoInv, OpenGroup  PROVE todo' \in Seq(Item)
<1> DEFINE origin == Moved(Head1.pt, Shape.at, Head1.zoom, -1)
           member(m) == [shape |-> m.shape, zoom |-> Head1.zoom, color |-> m.color,
                         pt |-> Moved(origin, m.at, Head1.zoom, 1)]
           ms == Shape.members
           opened == [k \in DOMAIN ms |-> member(ms[k])]
<1>1. todo # <<>> /\ Shape.kind = "group" /\ todo' = opened \o Tail(todo)
  BY DEF OpenGroup
<1>2. Head1 \in Item /\ Tail(todo) \in Seq(Item) /\ WellFormed(Shape)
  BY <1>1, HeadType
<1>3. Shape.at \in Columns /\ ms \in Seq(Member)
  <2>1. Shape.at \in Byte \X Byte /\ ms \in Seq(Member)
    BY <1>1, <1>2 DEF WellFormed, Member
  <2> QED  BY <2>1, BytesAreColumns
<1>4. Head1.pt \in Columns /\ Head1.zoom \in Zooms /\ Head1.zoom \in Nat
  <2>1. Zooms \subseteq Nat
    BY SizeAssumption
  <2> QED  BY <1>2, <2>1 DEF Item
<1>5. origin \in Columns
  BY <1>3, <1>4, MovedType
<1> HIDE DEF origin, ms
<1>6. ASSUME NEW k \in 1 .. Len(ms)  PROVE member(ms[k]) \in Item
  <2> DEFINE mk == ms[k]
  <2>1. mk \in Member
    BY <1>3, ElementOfSeq
  <2> HIDE DEF mk
  <2>2. mk.at \in Columns /\ mk.shape \in ShapeIds /\ mk.color \in Inks \cup 128 .. 255
    BY <2>1, BytesAreColumns DEF Member
  <2>3. Moved(origin, mk.at, Head1.zoom, 1) \in Columns
    BY <1>4, <1>5, <2>2, MovedType
  <2>4. member(mk) \in Item
    BY <1>4, <2>2, <2>3 DEF Item
  <2> QED  BY <2>4 DEF mk
<1>7. Len(ms) \in Nat /\ DOMAIN ms = 1 .. Len(ms)
  BY <1>3
<1> HIDE DEF member
<1>8. opened \in Seq(Item)
  <2>1. opened \in [1 .. Len(ms) -> Item]
    BY <1>6, <1>7
  <2> HIDE DEF opened
  <2> QED  BY <1>7, <2>1, SeqDef
<1> HIDE DEF opened
<1> QED  BY <1>1, <1>2, <1>8, ConcatProperties

NumPoints(s) == Len(s.points)

\* The points of a polygon on the screen, from a zoom.
PointsOf(s, zoom) ==
  [k \in 0 .. Len(s.points) - 1 |-> << Int16(Scaled(s.points[k + 1][1], zoom)),
                                       Int16(Scaled(s.points[k + 1][2], zoom)) >>]

LEMMA ScaledType ==
  ASSUME NEW v \in Int, NEW zoom \in Nat
  PROVE  Scaled(v, zoom) \in Nat
<1>1. (v * zoom) \div 64 \in Int
  OBVIOUS
<1> QED  BY <1>1, Uint16Type DEF Scaled

LEMMA PointsType ==
  ASSUME NEW s, WellFormed(s), s.kind = "polygon", NEW zoom \in Zooms, InTable(s, zoom),
         NEW m, m = NumPoints(s)
  PROVE  /\ m \in 4 .. 49 /\ m % 2 = 0
         /\ PointsOf(s, zoom) \in [0 .. m - 1 -> Columns]
         /\ Facing(PointsOf(s, zoom), m)
         /\ LowEdges(PointsOf(s, zoom), m)
<1> DEFINE pts == s.points
           P == PointsOf(s, zoom)
<1>1. /\ m \in 4 .. 49 /\ m % 2 = 0 /\ pts \in Seq(Byte \X Byte)
      /\ \A k \in DOMAIN pts : pts[k][2] = pts[m + 1 - k][2]
      /\ \A k \in 1 .. m \div 2 - 1 : pts[k][2] <= pts[k + 1][2]
  BY DEF WellFormed, NumPoints
<1>0. m \in Nat /\ m >= 4
  <2>1. m \in 4 .. 49
    BY <1>1
  <2> QED  BY <2>1
<1>2. zoom \in Nat
  BY SizeAssumption
<1>3. P = [k \in 0 .. m - 1 |-> << Int16(Scaled(pts[k + 1][1], zoom)),
                                   Int16(Scaled(pts[k + 1][2], zoom)) >>]
  BY DEF PointsOf, NumPoints
<1>4. m = Len(pts)
  BY DEF NumPoints
<1> HIDE DEF pts, P
<1>5. DOMAIN pts = 1 .. m /\ \A k \in 1 .. m : pts[k] \in Byte \X Byte
  BY <1>1, <1>4, LenProperties, ElementOfSeq
<1>6. \A k \in 1 .. m : pts[k][1] \in Byte /\ pts[k][2] \in Byte
  BY <1>5
<1>7. \A b \in Byte : Int16(Scaled(b, zoom)) \in Int
  BY <1>2, ScaledType, Int16Type DEF Byte
<1>8. P \in [0 .. m - 1 -> Columns]
  <2>1. ASSUME NEW k \in 0 .. m - 1
        PROVE  << Int16(Scaled(pts[k + 1][1], zoom)), Int16(Scaled(pts[k + 1][2], zoom)) >> \in Columns
    <3>1. k + 1 \in 1 .. m
      BY <1>0
    <3> QED  BY <1>6, <1>7, <3>1 DEF Columns
  <2> QED  BY <1>3, <2>1
<1>9. \A k \in 0 .. m - 1 : P[k][2] = Int16(Scaled(pts[k + 1][2], zoom))
  BY <1>3
<1>10. Facing(P, m)
  <2>1. ASSUME NEW k \in 0 .. m - 1  PROVE P[k][2] = P[m - 1 - k][2]
    <3>1. m - 1 - k \in 0 .. m - 1 /\ k + 1 \in 1 .. m /\ (m - 1 - k) + 1 = m + 1 - (k + 1)
      BY <1>0
    <3>2. pts[k + 1][2] = pts[m + 1 - (k + 1)][2]
      BY <1>1, <1>5, <3>1
    <3>3. P[k][2] = Int16(Scaled(pts[k + 1][2], zoom))
      BY <1>9
    <3> DEFINE i == m - 1 - k
    <3>4. P[i][2] = Int16(Scaled(pts[i + 1][2], zoom))
      BY <1>9, <3>1
    <3>5. i + 1 = m + 1 - (k + 1)
      BY <3>1
    <3> HIDE DEF i
    <3>6. P[i][2] = Int16(Scaled(pts[k + 1][2], zoom))
      BY <3>2, <3>4, <3>5
    <3> QED  BY <3>3, <3>6 DEF i
  <2> QED  BY <2>1 DEF Facing
<1>11. LowEdges(P, m)
  <2>1. \A k \in 1 .. m \div 2 - 1 :
          Uint16(Scaled(pts[k + 1][2], zoom) - Scaled(pts[k][2], zoom)) < TABLE_SIZE
    BY DEF InTable, NumPoints, pts
  <2>2. ASSUME NEW k \in 1 .. m \div 2 - 1
        PROVE  (P[k][2] - P[k - 1][2]) % 65536 < TABLE_SIZE
    <3>1. k - 1 \in 0 .. m - 1 /\ k \in 0 .. m - 1 /\ k \in 1 .. m /\ k + 1 \in 1 .. m
      BY <1>0
    <3> DEFINE a == Scaled(pts[k][2], zoom)
               b == Scaled(pts[k + 1][2], zoom)
    <3>2. a \in Nat /\ b \in Nat
      <4>1. \A v \in Byte : v \in Int
        BY DEF Byte
      <4> QED  BY <1>2, <1>6, <3>1, <4>1, ScaledType
    <3>3. P[k - 1][2] = Int16(a)
      <4>1. (k - 1) + 1 = k
        BY <3>1
      <4> QED  BY <1>9, <3>1, <4>1
    <3>4. P[k][2] = Int16(b)
      BY <1>9, <3>1
    <3>5. (b - a) % 65536 < TABLE_SIZE
      BY <2>1 DEF Uint16
    <3> HIDE DEF a, b
    <3>6. (Int16(b) - Int16(a)) % 65536 = (b - a) % 65536
      BY <3>2 DEF Int16, HalfWord
    <3> QED  BY <3>3, <3>4, <3>5, <3>6
  <2> QED  BY <2>2 DEF LowEdges
<1> QED  BY <1>1, <1>8, <1>10, <1>11 DEF P

LEMMA HeadPolygon ==
  ASSUME VideoInv, todo # <<>>, Shape.kind = "polygon"
  PROVE  /\ Head1.pt[1] \in Int /\ Head1.pt[2] \in Int
         /\ Bbw \in Nat /\ Bbh \in Nat /\ Ink \in Inks
         /\ X1 \in Int /\ Y1 \in Int /\ -HalfWord <= Y1
         /\ Points = PointsOf(Shape, Head1.zoom)
         /\ Head1.zoom \in Zooms /\ InTable(Shape, Head1.zoom)
<1>1. Head1 \in Item /\ WellFormed(Shape)
  BY HeadType
<1>2. /\ Head1.pt \in Columns /\ Head1.zoom \in Zooms /\ Head1.zoom \in Nat
      /\ Head1.color \in Inks \cup 128 .. 255
  BY <1>1, SizeAssumption DEF Item
<1>3. Shape.box \in Byte \X Byte /\ Shape.color \in Inks
  BY <1>1 DEF WellFormed
<1>4. Shape.box[1] \in Int /\ Shape.box[2] \in Int
  BY <1>3, BytesAreColumns DEF Columns
<1>5. Bbw \in Nat /\ Bbh \in Nat
  BY <1>2, <1>4, ScaledType DEF Bbw, Bbh
<1>6. Head1.pt[1] \in Int /\ Head1.pt[2] \in Int
  BY <1>2 DEF Columns
<1>7. Head1.pt[1] - Bbw \div 2 \in Int /\ Head1.pt[2] - Bbh \div 2 \in Int
  BY <1>5, <1>6
<1>8. X1 \in Int /\ Y1 \in Int /\ -HalfWord <= Y1
  BY <1>7, Int16Type DEF X1, Y1
<1>9. Ink \in Inks
  <2>1. CASE Head1.color >= 128
    BY <1>3, <2>1 DEF Ink
  <2>2. CASE ~ (Head1.color >= 128)
    <3>1. \A c \in 128 .. 255 : c >= 128
      OBVIOUS
    <3>2. Head1.color \in Inks
      BY <1>2, <2>2, <3>1, Zenon
    <3> QED  BY <2>2, <3>2 DEF Ink
  <2> QED  BY <2>1, <2>2
<1>10. Points = PointsOf(Shape, Head1.zoom)
  BY DEF Points, PointsOf
<1>11. InTable(Shape, Head1.zoom)
  <2>1. Head1.shape \in ShapeIds
    BY <1>1 DEF Item
  <2> QED  BY <1>2, <2>1, TableAssumption DEF Shape
<1> QED  BY <1>2, <1>5, <1>6, <1>8, <1>9, <1>10, <1>11

LEMMA Int16Again == ASSUME NEW v \in Int  PROVE Int16(Int16(v)) = Int16(v)
BY DEF Int16, HalfWord

LEMMA FractionType ==
  /\ FRACTION \in Nat /\ FRACTION > 0
  /\ \A v \in Int : v * FRACTION \in Int /\ (v * FRACTION) \div FRACTION = v
BY DEF FRACTION

LEMMA StartOfFill ==
  ASSUME VideoInv, StartPolygon, ~ IsPoint, ~ OffScreen
  PROVE  hliney' \in -HalfWord .. H /\ FillInv' /\ EdgesInv'
<1> DEFINE m == NumPoints(Shape)
           P == Points
           a == Int16(P[m - 1][1] + X1)
           b == Int16(P[0][1] + X1)
<1>1. todo # <<>> /\ Shape.kind = "polygon"
  BY DEF StartPolygon
<1>2. /\ hliney' = Y1
      /\ fill' = [n |-> m, points |-> P, i |-> 1, j |-> m - 2, left |-> X1,
                  cpt1 |-> a * FRACTION, cpt2 |-> b * FRACTION,
                  step1 |-> 0, step2 |-> 0, h |-> 0, ink |-> Ink]
  BY DEF StartPolygon, NumPoints
<1>3. /\ Ink \in Inks /\ X1 \in Int /\ Y1 \in Int /\ -HalfWord <= Y1
      /\ P = PointsOf(Shape, Head1.zoom) /\ Head1.zoom \in Zooms /\ WellFormed(Shape)
      /\ InTable(Shape, Head1.zoom)
  BY <1>1, HeadPolygon, HeadType
<1>4. Y1 <= H - 1
  BY <1>3, Sizes DEF OffScreen
<1> HIDE DEF m, P
<1>5. /\ m \in 4 .. 49 /\ m % 2 = 0 /\ P \in [0 .. m - 1 -> Columns]
      /\ Facing(P, m) /\ LowEdges(P, m)
  BY <1>1, <1>3, PointsType DEF m
<1>6. P[m - 1][1] \in Int /\ P[0][1] \in Int
  <2>1. m - 1 \in 0 .. m - 1 /\ 0 \in 0 .. m - 1
    BY <1>5
  <2>2. P[m - 1] \in Columns /\ P[0] \in Columns
    BY <1>5, <2>1
  <2> QED  BY <2>2 DEF Columns
<1>7. /\ a \in Int /\ b \in Int
      /\ Int16(a) = Int16(X1 + P[m - 1][1]) /\ Int16(b) = Int16(X1 + P[0][1])
  <2>1. /\ P[m - 1][1] + X1 \in Int /\ P[m - 1][1] + X1 = X1 + P[m - 1][1]
        /\ P[0][1] + X1 \in Int /\ P[0][1] + X1 = X1 + P[0][1]
    BY <1>3, <1>6
  <2> QED  BY <2>1, Int16Type, Int16Again
<1> HIDE DEF a, b
<1>8. hliney' \in -HalfWord .. H
  BY <1>2, <1>3, <1>4, Sizes
<1>9. FillInv'
  <2>1. fill' \in Filling(m)
    <3>1. a * FRACTION \in Int /\ b * FRACTION \in Int
      BY <1>7, FractionType
    <3> QED  BY <1>2, <1>3, <1>5, <3>1 DEF Filling
  <2>2. fill'.n = m /\ fill'.i = 1 /\ fill'.j = m - 2 /\ fill'.points = P
    BY <1>2
  <2>3. /\ fill'.n = m - 2 * (fill'.i - 1) /\ fill'.n >= 2
        /\ fill'.i >= 1 /\ fill'.j = m - 1 - fill'.i
    BY <1>5, <2>2
  <2> QED  BY <1>2, <1>4, <1>5, <2>1, <2>2, <2>3 DEF FillInv
<1>10. EdgesInv'
  <2>1. /\ fill'.j + 1 = m - 1 /\ fill'.i - 1 = 0 /\ fill'.points = P /\ fill'.left = X1
        /\ fill'.cpt1 = a * FRACTION /\ fill'.cpt2 = b * FRACTION
        /\ fill'.h = 0 /\ fill'.step1 = 0 /\ fill'.step2 = 0
    BY <1>2, <1>5
  <2>2. /\ (fill'.cpt1 + fill'.h * fill'.step1) \div FRACTION = a
        /\ (fill'.cpt2 + fill'.h * fill'.step2) \div FRACTION = b
    <3>1. /\ fill'.cpt1 + fill'.h * fill'.step1 = a * FRACTION
          /\ fill'.cpt2 + fill'.h * fill'.step2 = b * FRACTION
      BY <1>7, <2>1, FractionType
    <3> QED  BY <1>7, <3>1, FractionType
  <2> QED  BY <1>7, <2>1, <2>2 DEF EdgesInv
<1> QED  BY <1>8, <1>9, <1>10

LEMMA StartType ==
  ASSUME VideoInv, StartPolygon
  PROVE  /\ mem' \in PageMemory /\ todo' \in Seq(Item)
         /\ hliney' \in -HalfWord .. H /\ FillInv' /\ EdgesInv'
<1>1. todo # <<>> /\ Shape.kind = "polygon" /\ fill = NoFill /\ todo' = Tail(todo)
  BY DEF StartPolygon
<1>2. todo' \in Seq(Item)
  BY <1>1, HeadType
<1>3. mem' \in PageMemory
  <2>1. CASE IsPoint
    <3>1. Point(Ink, Head1.pt[1], Head1.pt[2]) \in PageMemory
      BY <1>1, HeadPolygon, PointType
    <3> QED  BY <2>1, <3>1 DEF StartPolygon
  <2>2. CASE ~ IsPoint
    BY <2>2 DEF StartPolygon, VideoInv
  <2> QED  BY <2>1, <2>2
<1>4. CASE IsPoint \/ OffScreen
  <2>1. fill' = NoFill /\ hliney' = hliney
    BY <1>1, <1>4 DEF StartPolygon
  <2> QED  BY <1>2, <1>3, <2>1 DEF FillInv, EdgesInv, VideoInv
<1>5. CASE ~ IsPoint /\ ~ OffScreen
  BY <1>2, <1>3, <1>5, StartOfFill
<1> QED  BY <1>4, <1>5

-----------------------------------------------------------------------------
(* Edges in fixed point.                                                   *)

LEMMA Int16Shift ==
  ASSUME NEW a \in Int, NEW b \in Int, NEW d \in Int, Int16(a) = Int16(b)
  PROVE  Int16(a + d) = Int16(b + d)
BY DEF Int16, HalfWord

LEMMA AbsProduct ==
  ASSUME NEW x \in Int, NEW y \in Nat, NEW r \in Nat, r <= y, Abs(x) * Abs(y) < 8192
  PROVE  -8192 < x * r /\ x * r < 8192
<1> DEFINE a == Abs(x)
<1>1. a \in Nat /\ Abs(y) = y /\ (x = a \/ x = -a)
  BY DEF Abs
<1>2. a * y < 8192
  BY <1>1
<1> HIDE DEF a
<1>3. a * r \in Nat /\ a * (y - r) \in Nat /\ a * (y - r) = a * y - a * r
  BY <1>1
<1>4. a * r < 8192 /\ a * r >= 0
  BY <1>1, <1>2, <1>3
<1>5. x * r = a * r \/ x * r = -(a * r)
  BY <1>1
<1> QED  BY <1>3, <1>4, <1>5

\* An edge from x0 to x1, over dy rows: the steps add up to the way between them, but
\* for less than half a pixel.
LEMMA StepsAddUp ==
  ASSUME NEW d \in Int, NEW dy \in Nat, dy > 0, Abs(d) * Abs(dy) < 8192,
         NEW q \in Int, NEW half \in 32767 .. 32768
  PROVE  (q * 65536 + half + dy * (d * (16384 \div dy) * 4)) \div 65536 = q + d
<1> DEFINE n == 16384 \div dy
           r == 16384 % dy
<1>1. n \in Int /\ r \in Nat /\ r < dy /\ 16384 = dy * n + r
  <2>1. n \in Int /\ r \in Nat /\ r < dy
    OBVIOUS
  <2>2. 16384 = dy * n + r
    OBVIOUS
  <2> QED  BY <2>1, <2>2
<1> HIDE DEF n, r
<1>2. -8192 < d * r /\ d * r < 8192 /\ d * r \in Int
  BY <1>1, AbsProduct
<1>3. dy * (d * n * 4) = 4 * (d * (dy * n))
  BY <1>1
<1>4. d * (dy * n) = 16384 * d - d * r
  <2>1. dy * n = 16384 - r
    BY <1>1
  <2>2. d * (16384 - r) = 16384 * d - d * r
    BY <1>1
  <2> QED  BY <2>1, <2>2
<1> DEFINE e == d * r
<1>5. q * 65536 + half + dy * (d * n * 4) = (q + d) * 65536 + (half - 4 * e)
  BY <1>2, <1>3, <1>4
<1> HIDE DEF e
<1>6. half - 4 * e \in Int /\ 0 <= half - 4 * e /\ half - 4 * e < 65536
  BY <1>2 DEF e
<1>7. \A x, y \in Int : 0 <= y /\ y < 65536 => (x * 65536 + y) \div 65536 = x
  OBVIOUS
<1> QED  BY <1>5, <1>6, <1>7 DEF n

\* What NextEdges and the rows make of an edge.
EdgeEnd(cpt, half, d, dy) ==
  LET step == d * Interp(dy) * 4
  IN  Rounded(cpt, half) + (IF dy = 0 THEN step ELSE 0) + dy * step

LEMMA EdgeEndsAtVertex ==
  ASSUME NEW cpt \in Int, NEW d \in Int, NEW dy \in Nat, Abs(d) * Abs(dy) < 8192,
         NEW half \in 32767 .. 32768
  PROVE  EdgeEnd(cpt, half, d, dy) \div FRACTION = cpt \div FRACTION + d
<1> DEFINE q == cpt \div 65536
<1>1. q \in Int /\ FRACTION = 65536 /\ Rounded(cpt, half) = q * 65536 + half
  BY DEF FRACTION, Rounded
<1> HIDE DEF q
<1>2. CASE dy = 0
  <2>1. EdgeEnd(cpt, half, d, dy) = q * 65536 + half + d * 16384 * 4
    BY <1>1, <1>2 DEF EdgeEnd, Interp
  <2>2. q * 65536 + half + d * 16384 * 4 = (q + d) * 65536 + half
    BY <1>1
  <2>3. ((q + d) * 65536 + half) \div 65536 = q + d
    BY <1>1
  <2> QED  BY <1>1, <2>1, <2>2, <2>3 DEF q
<1>3. CASE dy > 0
  <2>1. EdgeEnd(cpt, half, d, dy) = q * 65536 + half + dy * (d * (16384 \div dy) * 4)
    BY <1>1, <1>3 DEF EdgeEnd, Interp
  <2> QED  BY <1>1, <1>3, <2>1, StepsAddUp DEF q
<1> QED  BY <1>2, <1>3

\* The pair of edges that NextEdges goes to, if there is one: from the points i - 1 and
\* j + 1 of the polygon to i and j.
NextPair(m) ==
  /\ m \in 4 .. 49 /\ m % 2 = 0
  /\ fill \in Filling(m)
  /\ Facing(fill.points, m) /\ LowEdges(fill.points, m)
  /\ fill.i \in 1 .. m \div 2 - 1 /\ fill.j = m - 1 - fill.i
  /\ fill.n = m - 2 * (fill.i - 1) /\ hliney <= H - 1

LEMMA PairType ==
  ASSUME NEW m, NextPair(m)
  PROVE  LET p == fill.points
             i == fill.i
             j == fill.j
         IN  /\ i \in Nat /\ i - 1 \in 0 .. m - 1 /\ i \in 0 .. m - 1
             /\ j \in Nat /\ j \in 0 .. m - 1 /\ j + 1 \in 0 .. m - 1
             /\ \A k \in 0 .. m - 1 : p[k][1] \in Int /\ p[k][2] \in Int
             /\ p[j][2] = p[i][2] /\ p[j + 1][2] = p[i - 1][2]
<1> DEFINE p == fill.points
           i == fill.i
           j == fill.j
<1>1. m \in Nat /\ m >= 4 /\ i \in 1 .. m \div 2 - 1 /\ j = m - 1 - i
  <2>1. m \in 4 .. 49 /\ i \in 1 .. m \div 2 - 1 /\ j = m - 1 - i
    BY DEF NextPair
  <2> QED  BY <2>1
<1>2. p \in [0 .. m - 1 -> Columns] /\ \A k \in 0 .. m - 1 : p[k][2] = p[m - 1 - k][2]
  BY DEF NextPair, Filling, Facing
<1> HIDE DEF p, i, j
<1>3. /\ i \in Nat /\ i - 1 \in 0 .. m - 1 /\ i \in 0 .. m - 1
      /\ j \in Nat /\ j \in 0 .. m - 1 /\ j + 1 \in 0 .. m - 1
      /\ m - 1 - i = j /\ m - 1 - (i - 1) = j + 1
  BY <1>1
<1>4. \A k \in 0 .. m - 1 : p[k][1] \in Int /\ p[k][2] \in Int
  BY <1>2 DEF Columns
<1>5. p[i][2] = p[m - 1 - i][2] /\ p[i - 1][2] = p[m - 1 - (i - 1)][2]
  BY <1>2, <1>3
<1>6. p[j][2] = p[i][2] /\ p[j + 1][2] = p[i - 1][2]
  BY <1>3, <1>5
<1> QED  BY <1>3, <1>4, <1>6 DEF p, i, j

LEMMA InterpType == ASSUME NEW dy \in Nat  PROVE Interp(dy) \in Int
BY DEF Interp

LEMMA CalcStepType ==
  ASSUME NEW p1, NEW p2, p1[1] \in Int, p1[2] \in Int, p2[1] \in Int, p2[2] \in Int
  PROVE  Dy(p1, p2) \in Nat /\ CalcStep(p1, p2) \in Int
<1>1. Dy(p1, p2) \in Nat
  BY Uint16Type DEF Dy
<1>2. Interp(Dy(p1, p2)) \in Int
  BY <1>1, InterpType
<1>3. \A a, b, c \in Int : (a - b) * c * 4 \in Int
  OBVIOUS
<1> QED  BY <1>1, <1>2, <1>3 DEF CalcStep

LEMMA AddedType ==
  ASSUME NEW u \in Int, NEW v \in Int, NEW w  PROVE u + (IF w = 0 THEN v ELSE 0) \in Int
<1>1. CASE w = 0
  BY <1>1
<1>2. CASE w # 0
  BY <1>2
<1> QED  BY <1>1, <1>2

\* NextEdges, when there are edges left.
TakesPair ==
  LET p == fill.points
      i == fill.i
      j == fill.j
      dy == Dy(p[i - 1], p[i])
      step1 == CalcStep(p[j + 1], p[j])
      step2 == CalcStep(p[i - 1], p[i])
  IN  fill' = [fill EXCEPT !.n = (fill.n - 2) % 256, !.i = i + 1, !.j = j - 1, !.h = dy,
                 !.step1 = step1, !.step2 = step2,
                 !.cpt1 = Rounded(@, 32767) + (IF dy = 0 THEN step1 ELSE 0),
                 !.cpt2 = Rounded(@, 32768) + (IF dy = 0 THEN step2 ELSE 0)]

LEMMA NextEdgesCases ==
  ASSUME VideoInv, NextEdges
  PROVE  \/ fill' = NoFill
         \/ fill # NoFill /\ fill.h = 0 /\ TakesPair /\ \E m : NextPair(m)
<1>1. fill # NoFill /\ fill.h = 0
  BY DEF NextEdges
<1>2. (fill.n - 2) % 256 = 0 => fill' = NoFill
  BY DEF NextEdges
<1>3. (fill.n - 2) % 256 # 0 => TakesPair
  BY DEF NextEdges, TakesPair
<1>4. PICK m \in 4 .. 49 :
        /\ m % 2 = 0
        /\ fill \in Filling(m)
        /\ Facing(fill.points, m) /\ LowEdges(fill.points, m)
        /\ fill.n = m - 2 * (fill.i - 1) /\ fill.n >= 2
        /\ fill.i >= 1 /\ fill.j = m - 1 - fill.i
        /\ hliney <= H - 1
  BY <1>1 DEF VideoInv, FillInv
<1>5. (fill.n - 2) % 256 # 0 => NextPair(m)
  <2>1. fill.i \in Nat
    BY <1>4 DEF Filling
  <2>2. m \in Nat /\ m <= 49 /\ m % 2 = 0 /\ fill.n = m - 2 * (fill.i - 1) /\ fill.i >= 1
    BY <1>4
  <2>3. (fill.n - 2) % 256 # 0 => fill.i \in 1 .. m \div 2 - 1
    BY <2>1, <2>2, <1>4
  <2> QED  BY <1>4, <2>3 DEF NextPair
<1> QED  BY <1>1, <1>2, <1>3, <1>5

\* What it changes of the polygon, and what not.
LEMMA TakenFields ==
  ASSUME NEW m, NextPair(m), TakesPair
  PROVE  LET p == fill.points
             i == fill.i
             j == fill.j
             dy == Dy(p[i - 1], p[i])
             step1 == CalcStep(p[j + 1], p[j])
             step2 == CalcStep(p[i - 1], p[i])
         IN  /\ dy \in Nat /\ step1 \in Int /\ step2 \in Int
             /\ fill' \in Filling(m)
             /\ fill'.n = m - 2 * i /\ m - 2 * i >= 2
             /\ fill'.i = i + 1 /\ fill'.j = j - 1 /\ fill'.h = dy
             /\ fill'.points = p /\ fill'.left = fill.left
             /\ fill'.step1 = step1 /\ fill'.step2 = step2
             /\ fill'.cpt1 = Rounded(fill.cpt1, 32767) + (IF dy = 0 THEN step1 ELSE 0)
             /\ fill'.cpt2 = Rounded(fill.cpt2, 32768) + (IF dy = 0 THEN step2 ELSE 0)
<1> DEFINE p == fill.points
           i == fill.i
           j == fill.j
           dy == Dy(p[i - 1], p[i])
           step1 == CalcStep(p[j + 1], p[j])
           step2 == CalcStep(p[i - 1], p[i])
           cpt1 == Rounded(fill.cpt1, 32767) + (IF dy = 0 THEN step1 ELSE 0)
           cpt2 == Rounded(fill.cpt2, 32768) + (IF dy = 0 THEN step2 ELSE 0)
           n == (fill.n - 2) % 256
<1>1. fill \in Filling(m)
  BY DEF NextPair
<1>2. /\ i \in Nat /\ i - 1 \in 0 .. m - 1 /\ i \in 0 .. m - 1
      /\ j \in Nat /\ j \in 0 .. m - 1 /\ j + 1 \in 0 .. m - 1
      /\ \A k \in 0 .. m - 1 : p[k][1] \in Int /\ p[k][2] \in Int
  BY PairType
<1>3. dy \in Nat /\ step1 \in Int /\ step2 \in Int
  BY <1>2, CalcStepType
<1>4. cpt1 \in Int /\ cpt2 \in Int
  <2>1. fill.cpt1 \in Int /\ fill.cpt2 \in Int
    BY <1>1 DEF Filling
  <2>2. Rounded(fill.cpt1, 32767) \in Int /\ Rounded(fill.cpt2, 32768) \in Int
    BY <2>1 DEF Rounded, FRACTION
  <2> DEFINE u1 == Rounded(fill.cpt1, 32767)
             u2 == Rounded(fill.cpt2, 32768)
  <2> HIDE DEF dy, step1, step2, u1, u2
  <2>4. u1 + (IF dy = 0 THEN step1 ELSE 0) \in Int /\ u2 + (IF dy = 0 THEN step2 ELSE 0) \in Int
    <3>1. u1 \in Int /\ u2 \in Int
      BY <2>2 DEF u1, u2
    <3> QED  BY <1>3, <3>1, AddedType
  <2> QED  BY <2>4 DEF u1, u2
<1>5. n = m - 2 * i /\ m - 2 * i >= 2 /\ n \in Nat
  <2>1. m \in Nat /\ m <= 49 /\ m % 2 = 0 /\ i \in 1 .. m \div 2 - 1 /\ fill.n = m - 2 * (i - 1)
    <3>1. m \in 4 .. 49
      BY DEF NextPair
    <3> QED  BY <3>1 DEF NextPair
  <2> HIDE DEF i
  <2> QED  BY <2>1
<1>6. fill' = [fill EXCEPT !.n = n, !.i = i + 1, !.j = j - 1, !.h = dy,
                 !.step1 = step1, !.step2 = step2, !.cpt1 = cpt1, !.cpt2 = cpt2]
  BY DEF TakesPair
<1> HIDE DEF n, dy, step1, step2, cpt1, cpt2, i, j, p
<1>9. i \in Nat /\ i + 1 \in Nat /\ j - 1 \in Int
  BY <1>2
<1>7. /\ fill' \in Filling(m)
      /\ fill'.n = n /\ fill'.i = i + 1 /\ fill'.j = j - 1 /\ fill'.h = dy
      /\ fill'.points = p /\ fill'.left = fill.left
      /\ fill'.step1 = step1 /\ fill'.step2 = step2
      /\ fill'.cpt1 = cpt1 /\ fill'.cpt2 = cpt2
  BY <1>1, <1>9, <1>3, <1>4, <1>5, <1>6 DEF Filling, p
<1> QED  BY <1>3, <1>5, <1>7 DEF dy, step1, step2, cpt1, cpt2, i, j, p

LEMMA TakenFill ==
  ASSUME NEW m, NextPair(m), TakesPair, hliney' = hliney
  PROVE  FillInv'
<1> DEFINE p == fill.points
           i == fill.i
           j == fill.j
<1>1. /\ fill' \in Filling(m)
      /\ fill'.n = m - 2 * i /\ m - 2 * i >= 2
      /\ fill'.i = i + 1 /\ fill'.j = j - 1 /\ fill'.points = p
  BY TakenFields
<1>2. /\ m \in 4 .. 49 /\ m % 2 = 0 /\ Facing(p, m) /\ LowEdges(p, m)
      /\ i \in 1 .. m \div 2 - 1 /\ j = m - 1 - i /\ hliney <= H - 1
  BY DEF NextPair
<1>0. m \in Nat /\ i \in Nat /\ i >= 1
  BY <1>2
<1> HIDE DEF p, i, j
<1>3. /\ fill'.n = m - 2 * (fill'.i - 1) /\ fill'.n >= 2
      /\ fill'.i >= 1 /\ fill'.j = m - 1 - fill'.i
  BY <1>0, <1>1, <1>2
<1> QED  BY <1>1, <1>2, <1>3 DEF FillInv

\* Heights are looked up as words: small ones are the heights themselves.
LEMMA LowEdge ==
  ASSUME NEW d \in Int, NEW height \in Int, height % 65536 < 1024,
         Abs(d) * Abs(height) < 8192
  PROVE  Abs(d) * Abs(height % 65536) < 8192
<1> DEFINE a == Abs(d)
           b == Abs(height)
           r == height % 65536
<1>1. a \in Nat /\ b \in Nat /\ r \in Nat /\ Abs(r) = r /\ r <= b
  BY DEF Abs
<1> HIDE DEF a, b, r
<1>2. a * b < 8192
  BY DEF a, b
<1>3. a * (b - r) \in Nat /\ a * (b - r) = a * b - a * r
  BY <1>1
<1>4. a * r < 8192
  BY <1>1, <1>2, <1>3
<1> QED  BY <1>1, <1>4 DEF a, r

\* The edges that are taken end at their vertices.
LEMMA TakenEdges ==
  ASSUME NEW m, NextPair(m), TakesPair, EdgesInv, fill.h = 0, fill # NoFill
  PROVE  EdgesInv'
<1> DEFINE p == fill.points
           i == fill.i
           j == fill.j
           d1 == p[j][1] - p[j + 1][1]
           d2 == p[i][1] - p[i - 1][1]
           height == p[i][2] - p[i - 1][2]
           dy == height % 65536
<1>1. SUFFICES ASSUME SmallEdges(p)
      PROVE  /\ Int16((fill'.cpt1 + fill'.h * fill'.step1) \div FRACTION)
                  = Int16(fill'.left + fill'.points[fill'.j + 1][1])
             /\ Int16((fill'.cpt2 + fill'.h * fill'.step2) \div FRACTION)
                  = Int16(fill'.left + fill'.points[fill'.i - 1][1])
  <2>1. fill'.points = p
    BY TakenFields
  <2> QED  BY <1>1, <2>1 DEF EdgesInv
<1>2. /\ i \in Nat /\ i - 1 \in 0 .. m - 1 /\ i \in 0 .. m - 1
      /\ j \in Nat /\ j \in 0 .. m - 1 /\ j + 1 \in 0 .. m - 1
      /\ \A k \in 0 .. m - 1 : p[k][1] \in Int /\ p[k][2] \in Int
      /\ p[j][2] = p[i][2] /\ p[j + 1][2] = p[i - 1][2]
  BY PairType
<1>3. d1 \in Int /\ d2 \in Int /\ height \in Int
  BY <1>2
<1>4. dy \in Nat /\ dy < 1024
  <2>1. i \in 1 .. m \div 2 - 1 /\ LowEdges(p, m)
    BY DEF NextPair
  <2>2. dy < TABLE_SIZE
    BY <2>1 DEF LowEdges
  <2> HIDE DEF height
  <2> QED  BY <1>3, <2>2 DEF TABLE_SIZE
<1>5. Dy(p[i - 1], p[i]) = dy /\ Dy(p[j + 1], p[j]) = dy
  BY <1>2 DEF Dy, Uint16
<1>6. CalcStep(p[j + 1], p[j]) = d1 * Interp(dy) * 4 /\ CalcStep(p[i - 1], p[i]) = d2 * Interp(dy) * 4
  BY <1>5 DEF CalcStep
<1>7. Abs(d1) * Abs(dy) < 8192 /\ Abs(d2) * Abs(dy) < 8192
  <2>1. DOMAIN p = 0 .. m - 1
    BY DEF NextPair, Filling
  <2>2. /\ Abs(p[i][1] - p[i - 1][1]) * Abs(p[i][2] - p[i - 1][2]) < 8192
        /\ Abs(p[j + 1][1] - p[j][1]) * Abs(p[j + 1][2] - p[j][2]) < 8192
    <3>1. i \in DOMAIN p \ {0} /\ j + 1 \in DOMAIN p \ {0} /\ (j + 1) - 1 = j
      <4>1. i >= 1
        BY <1>2
      <4> QED  BY <1>2, <2>1, <4>1
    <3> QED  BY <1>1, <3>1 DEF SmallEdges
  <2>3. /\ Abs(p[j + 1][1] - p[j][1]) = Abs(d1)
        /\ Abs(p[j + 1][2] - p[j][2]) = Abs(height)
    BY <1>2 DEF Abs
  <2>4. Abs(d1) * Abs(height) < 8192 /\ Abs(d2) * Abs(height) < 8192
    BY <2>2, <2>3
  <2> HIDE DEF d1, d2
  <2>5. height % 65536 < 1024
    BY <1>4
  <2> HIDE DEF height
  <2>6. Abs(d1) * Abs(height % 65536) < 8192 /\ Abs(d2) * Abs(height % 65536) < 8192
    BY <1>3, <2>4, <2>5, LowEdge
  <2> QED  BY <2>6 DEF height
<1> DEFINE a == fill.cpt1 \div FRACTION
           b == fill.cpt2 \div FRACTION
<1>8. /\ fill.cpt1 \in Int /\ fill.cpt2 \in Int /\ fill.left \in Int
      /\ a \in Int /\ b \in Int
  <2>1. fill.cpt1 \in Int /\ fill.cpt2 \in Int /\ fill.left \in Int
    BY DEF NextPair, Filling
  <2> QED  BY <2>1 DEF FRACTION
<1>9. Int16(a) = Int16(fill.left + p[j + 1][1]) /\ Int16(b) = Int16(fill.left + p[i - 1][1])
  <2>1. fill.step1 \in Int /\ fill.step2 \in Int
    BY DEF NextPair, Filling
  <2>2. fill.cpt1 + fill.h * fill.step1 = fill.cpt1 /\ fill.cpt2 + fill.h * fill.step2 = fill.cpt2
    BY <1>8, <2>1
  <2> QED  BY <1>1, <2>2 DEF EdgesInv
<1>10. /\ fill'.j + 1 = j /\ fill'.i - 1 = i /\ fill'.points = p /\ fill'.left = fill.left
       /\ fill'.h = dy
       /\ fill'.step1 = d1 * Interp(dy) * 4 /\ fill'.step2 = d2 * Interp(dy) * 4
       /\ fill'.cpt1 = Rounded(fill.cpt1, 32767) + (IF dy = 0 THEN d1 * Interp(dy) * 4 ELSE 0)
       /\ fill'.cpt2 = Rounded(fill.cpt2, 32768) + (IF dy = 0 THEN d2 * Interp(dy) * 4 ELSE 0)
  <2>1. /\ fill'.i = i + 1 /\ fill'.j = j - 1 /\ fill'.h = Dy(p[i - 1], p[i])
        /\ fill'.points = p /\ fill'.left = fill.left
        /\ fill'.step1 = CalcStep(p[j + 1], p[j]) /\ fill'.step2 = CalcStep(p[i - 1], p[i])
        /\ fill'.cpt1 = Rounded(fill.cpt1, 32767)
             + (IF Dy(p[i - 1], p[i]) = 0 THEN CalcStep(p[j + 1], p[j]) ELSE 0)
        /\ fill'.cpt2 = Rounded(fill.cpt2, 32768)
             + (IF Dy(p[i - 1], p[i]) = 0 THEN CalcStep(p[i - 1], p[i]) ELSE 0)
    BY TakenFields
  <2>2. fill'.j + 1 = j /\ fill'.i - 1 = i
    BY <1>2, <2>1
  <2> HIDE DEF i, j, d1, d2, dy, p
  <2> QED  BY <1>5, <1>6, <2>1, <2>2
<1>11. /\ fill'.cpt1 + fill'.h * fill'.step1 = EdgeEnd(fill.cpt1, 32767, d1, dy)
       /\ fill'.cpt2 + fill'.h * fill'.step2 = EdgeEnd(fill.cpt2, 32768, d2, dy)
  BY <1>10 DEF EdgeEnd
<1>12. /\ EdgeEnd(fill.cpt1, 32767, d1, dy) \div FRACTION = a + d1
       /\ EdgeEnd(fill.cpt2, 32768, d2, dy) \div FRACTION = b + d2
  <2> HIDE DEF d1, d2, dy
  <2>1. dy \in Nat /\ dy \in Int
    BY <1>4
  <2> QED  BY <1>3, <1>7, <1>8, <2>1, EdgeEndsAtVertex
<1>13. Int16(a + d1) = Int16(fill.left + p[j][1]) /\ Int16(b + d2) = Int16(fill.left + p[i][1])
  <2> DEFINE u == fill.left + p[j + 1][1]
             v == fill.left + p[i - 1][1]
  <2>1. u \in Int /\ v \in Int /\ u + d1 = fill.left + p[j][1] /\ v + d2 = fill.left + p[i][1]
    BY <1>2, <1>8
  <2> HIDE DEF u, v, a, b, d1, d2
  <2>2. Int16(a) = Int16(u) /\ Int16(b) = Int16(v)
    BY <1>9 DEF u, v
  <2>3. a \in Int /\ b \in Int /\ d1 \in Int /\ d2 \in Int
    BY <1>3, <1>8
  <2>4. Int16(a + d1) = Int16(u + d1)
    BY <2>1, <2>2, <2>3, Int16Shift
  <2>5. Int16(b + d2) = Int16(v + d2)
    BY <2>1, <2>2, <2>3, Int16Shift
  <2> QED  BY <2>1, <2>4, <2>5
<1> HIDE DEF a, b, d1, d2, dy
<1> QED  BY <1>10, <1>11, <1>12, <1>13

LEMMA NextEdgesType ==
  ASSUME VideoInv, NextEdges
  PROVE  FillInv' /\ (EdgesInv => EdgesInv')
<1>1. hliney' = hliney
  BY DEF NextEdges
<1>2. CASE fill' = NoFill
  BY <1>2 DEF FillInv, EdgesInv
<1>3. ASSUME fill # NoFill, fill.h = 0, TakesPair, NEW m, NextPair(m)
      PROVE  FillInv' /\ (EdgesInv => EdgesInv')
  BY <1>1, <1>3, TakenFill, TakenEdges
<1> QED  BY <1>2, <1>3, NextEdgesCases

LEMMA RowMemory == ASSUME VideoInv, Row  PROVE mem' \in PageMemory
<1>1. PICK m \in 4 .. 49 : fill \in Filling(m)
  BY DEF Row, VideoInv, FillInv
<1>2. fill.cpt1 \in Int /\ fill.cpt2 \in Int /\ fill.ink \in Inks
  BY <1>1 DEF Filling
<1>3. RowX1 \in Int /\ RowX2 \in Int
  <2>1. fill.cpt1 \div FRACTION \in Int /\ fill.cpt2 \div FRACTION \in Int
    BY <1>2 DEF FRACTION
  <2> QED  BY <2>1, Int16Type DEF RowX1, RowX2
<1> DEFINE xa == IF RowX1 < 0 THEN 0 ELSE RowX1
           xb == IF RowX2 > W - 1 THEN W - 1 ELSE RowX2
<1>4. mem' = IF RowVisible THEN Line(xa, xb, fill.ink) ELSE mem
  BY DEF Row
<1>5. RowVisible => hliney >= 0 /\ xa \in Nat /\ xb \in Nat
  BY <1>3, Sizes DEF RowVisible
<1> HIDE DEF xa, xb
<1>6. CASE RowVisible
  <2>1. Line(xa, xb, fill.ink) \in PageMemory
    BY <1>2, <1>5, <1>6, LineType
  <2> QED  BY <1>4, <1>6, <2>1
<1>7. CASE ~ RowVisible
  BY <1>4, <1>7 DEF VideoInv
<1> QED  BY <1>6, <1>7

LEMMA RowType ==
  ASSUME VideoInv, Row
  PROVE  hliney' \in -HalfWord .. H /\ FillInv' /\ (EdgesInv => EdgesInv')
<1>1. fill # NoFill /\ fill.h # 0 /\ hliney' = hliney + 1
  BY DEF Row
<1>2. PICK m \in 4 .. 49 :
        /\ m % 2 = 0
        /\ fill \in Filling(m)
        /\ Facing(fill.points, m) /\ LowEdges(fill.points, m)
        /\ fill.n = m - 2 * (fill.i - 1) /\ fill.n >= 2
        /\ fill.i >= 1 /\ fill.j = m - 1 - fill.i
        /\ hliney <= H - 1
  BY <1>1 DEF VideoInv, FillInv
<1>3. hliney' \in -HalfWord .. H
  BY <1>1, <1>2, Sizes DEF VideoInv
<1>4. CASE hliney' > H - 1
  <2>1. fill' = NoFill
    BY <1>4 DEF Row
  <2> QED  BY <1>3, <2>1 DEF FillInv, EdgesInv
<1>5. CASE ~ (hliney' > H - 1)
  <2> DEFINE h == fill.h - 1
             cpt1 == fill.cpt1 + fill.step1
             cpt2 == fill.cpt2 + fill.step2
  <2>1. fill' = [fill EXCEPT !.h = h, !.cpt1 = cpt1, !.cpt2 = cpt2]
    BY <1>5 DEF Row
  <2>2. /\ fill.h \in Nat /\ fill.cpt1 \in Int /\ fill.cpt2 \in Int
        /\ fill.step1 \in Int /\ fill.step2 \in Int
    BY <1>2 DEF Filling
  <2>3. /\ h \in Nat /\ cpt1 \in Int /\ cpt2 \in Int
        /\ cpt1 + h * fill.step1 = fill.cpt1 + fill.h * fill.step1
        /\ cpt2 + h * fill.step2 = fill.cpt2 + fill.h * fill.step2
    BY <1>1, <2>2
  <2> HIDE DEF h, cpt1, cpt2
  <2>4. /\ fill' \in Filling(m)
        /\ fill'.points = fill.points /\ fill'.left = fill.left
        /\ fill'.n = fill.n /\ fill'.i = fill.i /\ fill'.j = fill.j
        /\ fill'.step1 = fill.step1 /\ fill'.step2 = fill.step2
        /\ fill'.h = h /\ fill'.cpt1 = cpt1 /\ fill'.cpt2 = cpt2
    BY <1>2, <2>1, <2>3 DEF Filling
  <2>5. hliney' <= H - 1
    BY <1>3, <1>5, Sizes
  <2>6. FillInv'
    BY <1>2, <2>4, <2>5 DEF FillInv
  <2>7. EdgesInv => EdgesInv'
    <3>1. SUFFICES ASSUME EdgesInv, SmallEdges(fill.points)
          PROVE  /\ Int16((cpt1 + h * fill.step1) \div FRACTION)
                      = Int16(fill.left + fill.points[fill.j + 1][1])
                 /\ Int16((cpt2 + h * fill.step2) \div FRACTION)
                      = Int16(fill.left + fill.points[fill.i - 1][1])
      BY <2>4 DEF EdgesInv
    <3> QED  BY <1>1, <2>3, <3>1 DEF EdgesInv
  <2> QED  BY <1>3, <2>6, <2>7
<1> QED  BY <1>4, <1>5

-----------------------------------------------------------------------------
(* The invariants.                                                         *)

LEMMA InstructionType == ASSUME VideoInv, Instruction  PROVE done' \in 0 .. MaxInstructions
<1>1. MaxInstructions \in Nat
  BY SizeAssumption
<1> QED  BY <1>1 DEF Instruction, VideoInv

LEMMA ShapeUnchanged ==
  ASSUME VideoInv, UNCHANGED <<fill, hliney>>
  PROVE  FillInv' /\ hliney' \in -HalfWord .. H /\ (EdgesInv => EdgesInv')
BY DEF VideoInv, FillInv, EdgesInv

LEMMA FilledType == ASSUME VideoInv, FillPage  PROVE mem' \in PageMemory
<1>1. PICK id \in PageIds, c \in Colors :
        mem' = [a \in Memory |-> IF a - PagePtr(id) \in 0 .. VID_PAGE_SIZE - 1 THEN <<c, c>>
                                 ELSE mem[a]]
  BY DEF FillPage
<1>2. <<c, c>> \in Pair
  BY DEF Pair
<1> QED  BY <1>1, <1>2 DEF VideoInv, PageMemory

LEMMA CopyType == ASSUME VideoInv, CopyPage  PROVE mem' \in PageMemory
<1>1. PICK src \in Sources, dst \in PageIds, way \in Ways :
      \E vscroll \in IF AsksForScroll(src) THEN -H .. H ELSE {0} :
        mem' = CopiedPage(src, dst, vscroll, way)
  BY DEF CopyPage
<1>2. PICK vscroll \in Int : mem' = CopiedPage(src, dst, vscroll, way)
  BY <1>1, Sizes
<1> QED  BY <1>2, CopiedPageType

LEMMA DrawShapeType == ASSUME VideoInv, DrawShape  PROVE todo' \in Seq(Item)
<1>1. PICK id \in ShapeIds, zoom \in Zooms, pt \in Places :
        todo' = <<[shape |-> id, zoom |-> zoom, pt |-> pt, color |-> OWN_COLOR]>>
  BY DEF DrawShape
<1>2. pt \in Columns /\ OWN_COLOR \in Inks \cup 128 .. 255
  BY SizeAssumption DEF Columns, OWN_COLOR
<1> QED  BY <1>1, <1>2 DEF Item

LEMMA PageOpsInv ==
  ASSUME VideoInv, PageOps  PROVE VideoInv' /\ (EdgesInv => EdgesInv')
<1>1. Instruction /\ UNCHANGED <<todo, fill, hliney>>
  BY DEF PageOps, ChangePagePtr1, FillPage, CopyPage, CopyPagePtr, SetPalette, UpdateDisplay,
         shapeVars
<1>2. /\ done' \in 0 .. MaxInstructions /\ FillInv' /\ hliney' \in -HalfWord .. H
      /\ todo' \in Seq(Item) /\ (EdgesInv => EdgesInv')
  BY <1>1, InstructionType, ShapeUnchanged DEF VideoInv
<1>3. \A id : PagePtr(id) \in Ptrs
  BY PagePtrType DEF VideoInv
<1>4. ASSUME ChangePagePtr1  PROVE VideoInv'
  BY <1>2, <1>3, <1>4 DEF VideoInv, ChangePagePtr1, palVars
<1>5. ASSUME FillPage  PROVE VideoInv'
  <2>1. mem' \in PageMemory
    BY <1>5, FilledType
  <2> QED  BY <1>2, <1>5, <2>1 DEF VideoInv, FillPage, palVars, ptrVars
<1>6. ASSUME CopyPage  PROVE VideoInv'
  <2>1. mem' \in PageMemory
    BY <1>6, CopyType
  <2> QED  BY <1>2, <1>6, <2>1 DEF VideoInv, CopyPage, palVars, ptrVars
<1>7. ASSUME CopyPagePtr  PROVE VideoInv'
  <2>1. mem' \in PageMemory
    BY <1>7, PictureType
  <2> QED  BY <1>2, <1>7, <2>1 DEF VideoInv, CopyPagePtr, palVars, ptrVars
<1>8. ASSUME SetPalette  PROVE VideoInv'
  BY <1>2, <1>8 DEF VideoInv, SetPalette, ptrVars
<1>9. ASSUME UpdateDisplay  PROVE VideoInv'
  <2>1. curPagePtr2' \in Ptrs /\ curPagePtr3' \in Ptrs
    BY <1>3, <1>9 DEF VideoInv, UpdateDisplay
  <2>2. /\ pal' \in 0 .. 31 \cup {NO_PALETTE_CHANGE_REQUESTED}
        /\ paletteIdRequested' \in Palettes \cup {NO_PALETTE_CHANGE_REQUESTED}
    <3>1. Palettes \subseteq 0 .. 255
      <4>1. PageIds \cup Sources \cup Palettes \subseteq 0 .. 255
        BY SizeAssumption
      <4> QED  BY <4>1, Zenon
    <3>2. \A q \in Palettes : q \in Nat
      BY <3>1
    <3>3. paletteIdRequested \in Nat
      BY <3>2 DEF VideoInv, NO_PALETTE_CHANGE_REQUESTED
    <3>4. /\ pal' = IF paletteIdRequested < 32 THEN paletteIdRequested ELSE pal
          /\ paletteIdRequested' = NO_PALETTE_CHANGE_REQUESTED
          /\ pal \in 0 .. 31 \cup {NO_PALETTE_CHANGE_REQUESTED}
      BY <1>9 DEF VideoInv, UpdateDisplay
    <3>5. CASE paletteIdRequested < 32
      <4>1. pal' \in 0 .. 31
        BY <3>3, <3>4, <3>5
      <4> QED  BY <3>4, <4>1
    <3>6. CASE ~ (paletteIdRequested < 32)
      BY <3>4, <3>6
    <3> QED  BY <3>5, <3>6
  <2> QED  BY <1>2, <1>9, <2>1, <2>2 DEF VideoInv, UpdateDisplay
<1> QED  BY <1>2, <1>4, <1>5, <1>6, <1>7, <1>8, <1>9 DEF PageOps

LEMMA InitInv == ASSUME Init  PROVE VideoInv /\ EdgesInv
<1>1. 0 \in Colors /\ MaxInstructions \in Nat
  BY SizeAssumption
<1>2. mem \in PageMemory
  BY <1>1 DEF Init, PageMemory, Pair
<1>3. hliney \in -HalfWord .. H
  BY Sizes DEF Init
<1>4. todo \in Seq(Item)
  BY DEF Init
<1>5. curPagePtr1 \in Ptrs /\ curPagePtr2 \in Ptrs /\ curPagePtr3 \in Ptrs
  BY PagePtrsType DEF Init
<1>6. FillInv /\ EdgesInv
  BY DEF Init, FillInv, EdgesInv
<1> QED  BY <1>1, <1>2, <1>3, <1>4, <1>5, <1>6 DEF VideoInv, Init

\* Every step of the program keeps it, and the edges.
LEMMA StepInv ==
  ASSUME VideoInv, [Next]_vars
  PROVE  VideoInv' /\ (EdgesInv => EdgesInv')
<1>1. CASE PageOps
  BY <1>1, PageOpsInv
<1>2. CASE DrawString
  <2>1. Instruction /\ UNCHANGED <<ptrVars, palVars, shapeVars>>
    BY <1>2 DEF DrawString
  <2>2. mem' \in PageMemory /\ done' \in 0 .. MaxInstructions
    BY <1>2, <2>1, StringType, InstructionType
  <2>3. FillInv' /\ hliney' \in -HalfWord .. H /\ (EdgesInv => EdgesInv')
    BY <2>1, ShapeUnchanged DEF shapeVars
  <2> QED  BY <2>1, <2>2, <2>3 DEF VideoInv, ptrVars, palVars, shapeVars
<1>3. CASE DrawShape
  <2>1. Instruction /\ UNCHANGED <<mem, ptrVars, palVars, fill, hliney>>
    BY <1>3 DEF DrawShape
  <2>2. todo' \in Seq(Item) /\ done' \in 0 .. MaxInstructions
    BY <1>3, <2>1, DrawShapeType, InstructionType
  <2>3. FillInv' /\ hliney' \in -HalfWord .. H /\ (EdgesInv => EdgesInv')
    BY <2>1, ShapeUnchanged
  <2> QED  BY <2>1, <2>2, <2>3 DEF VideoInv, ptrVars, palVars
<1>4. CASE OpenGroup
  <2>1. UNCHANGED <<mem, ptrVars, palVars, fill, hliney, done>>
    BY <1>4 DEF OpenGroup
  <2>2. todo' \in Seq(Item)
    BY <1>4, GroupType
  <2>3. FillInv' /\ hliney' \in -HalfWord .. H /\ (EdgesInv => EdgesInv')
    BY <2>1, ShapeUnchanged
  <2> QED  BY <2>1, <2>2, <2>3 DEF VideoInv, ptrVars, palVars
<1>5. CASE StartPolygon
  <2>1. UNCHANGED <<ptrVars, palVars, done>>
    BY <1>5 DEF StartPolygon
  <2> QED  BY <1>5, <2>1, StartType DEF VideoInv, ptrVars, palVars
<1>6. CASE NextEdges
  <2>1. UNCHANGED <<mem, ptrVars, palVars, todo, hliney, done>>
    BY <1>6 DEF NextEdges
  <2> QED  BY <1>6, <2>1, NextEdgesType DEF VideoInv, ptrVars, palVars
<1>7. CASE Row
  <2>1. UNCHANGED <<ptrVars, palVars, todo, done>>
    BY <1>7 DEF Row
  <2> QED  BY <1>7, <2>1, RowMemory, RowType DEF VideoInv, ptrVars, palVars
<1>8. CASE UNCHANGED vars
  <2>1. UNCHANGED <<mem, ptrVars, palVars, shapeVars, done>>
    BY <1>8 DEF vars
  <2>2. FillInv' /\ hliney' \in -HalfWord .. H /\ (EdgesInv => EdgesInv')
    BY <2>1, ShapeUnchanged DEF shapeVars
  <2> QED  BY <2>1, <2>2 DEF VideoInv, ptrVars, palVars, shapeVars
<1> QED  BY <1>1, <1>2, <1>3, <1>4, <1>5, <1>6, <1>7, <1>8 DEF Next, FillPolygon

LEMMA InvImpliesType == VideoInv => TypeOK
<1>1. SUFFICES ASSUME VideoInv PROVE TypeOK
  OBVIOUS
<1>2. ASSUME fill # NoFill  PROVE fill.h \in Nat /\ fill.i \in DOMAIN fill.points
  <2>1. PICK m \in 4 .. 49 :
          /\ m % 2 = 0
          /\ fill \in Filling(m)
          /\ fill.n = m - 2 * (fill.i - 1) /\ fill.n >= 2
          /\ fill.i >= 1
    BY <1>1, <1>2 DEF VideoInv, FillInv
  <2>2. fill.h \in Nat /\ fill.i \in Nat /\ DOMAIN fill.points = 0 .. m - 1
    BY <2>1 DEF Filling
  <2> DEFINE i == fill.i
             n == fill.n
  <2>4. m \in Nat /\ i \in Nat /\ n = m - 2 * (i - 1) /\ n >= 2 /\ i >= 1
    BY <2>1, <2>2
  <2>5. i >= 2 \/ i = 1
    BY <2>4
  <2>6. m >= 4
    OBVIOUS
  <2> HIDE DEF i, n
  <2>7. i \in 0 .. m - 1
    BY <2>4, <2>5, <2>6
  <2>3. fill.i \in 0 .. m - 1
    BY <2>7 DEF i
  <2> QED  BY <2>2, <2>3
<1> QED  BY <1>1, <1>2 DEF VideoInv, TypeOK, PageMemory, Pair

\* Pages keep to the colours in use and the pointers to pages, whatever is drawn, at any
\* place and any zoom: no row, point, character or copy takes a byte from outside of the
\* pages, and every edge that is followed has its two points.
THEOREM TypeCorrect == Spec => []TypeOK
<1>1. Init => VideoInv
  BY InitInv
<1>2. VideoInv /\ [Next]_vars => VideoInv'
  BY StepInv
<1> QED  BY <1>1, <1>2, InvImpliesType, PTL DEF Spec

\* What is left to fill of a polygon gets less: another pair of its points is done, or
\* another row between two pairs.
LessToFill ==
  /\ fill'.n \in Nat /\ fill'.h \in Nat
  /\ \/ fill'.n < fill.n
     \/ fill'.n = fill.n /\ fill'.h < fill.h

LEMMA PairLess ==
  ASSUME VideoInv, NextEdges
  PROVE  fill' = NoFill \/ LessToFill
<1>1. CASE fill' = NoFill
  BY <1>1
<1>2. CASE fill' # NoFill
  <2>1. TakesPair
    BY <1>2, NextEdgesCases
  <2>2. PICK m : NextPair(m)
    BY <1>2, NextEdgesCases
  <2>3. fill' \in Filling(m) /\ fill'.n = m - 2 * fill.i /\ m - 2 * fill.i >= 2
    BY <2>1, <2>2, TakenFields
  <2>4. PICK i \in Nat : i = fill.i /\ m \in 4 .. 49 /\ fill.n = m - 2 * (i - 1)
    BY <2>2 DEF NextPair, Filling
  <2>5. m - 2 * i < m - 2 * (i - 1)
    BY <2>4
  <2>6. fill'.n \in Nat /\ fill'.h \in Nat
    BY <2>3 DEF Filling
  <2> QED  BY <2>3, <2>4, <2>5, <2>6 DEF LessToFill
<1> QED  BY <1>1, <1>2

LEMMA RowLess ==
  ASSUME VideoInv, Row
  PROVE  fill' = NoFill \/ LessToFill
<1>1. CASE hliney' > H - 1
  BY <1>1 DEF Row
<1>2. CASE ~ (hliney' > H - 1)
  <2>1. fill # NoFill /\ fill.h # 0
    BY DEF Row
  <2>2. PICK m \in 4 .. 49 : fill \in Filling(m)
    BY <2>1 DEF VideoInv, FillInv
  <2>3. PICK h \in Nat, n \in Nat : h = fill.h /\ n = fill.n
    BY <2>2 DEF Filling
  <2>4. fill' = [fill EXCEPT !.h = @ - 1, !.cpt1 = @ + fill.step1, !.cpt2 = @ + fill.step2]
    BY <1>2 DEF Row
  <2>5. fill'.h = h - 1 /\ fill'.n = n
    BY <2>2, <2>3, <2>4 DEF Filling
  <2>6. h - 1 \in Nat /\ h - 1 < h
    BY <2>1, <2>3
  <2> QED  BY <2>3, <2>5, <2>6 DEF LessToFill
<1> QED  BY <1>1, <1>2

\* fillPolygon: the number of points, which is counted down by two in eight bits and
\* only compared with zero, does not miss it, and a pair of edges has as many rows as it
\* is high: every turn of the two loops leaves fewer points, or as many and fewer rows,
\* until the polygon is done, whatever its shape, place and size.
THEOREM FillingRunsOut ==
  Spec => [][NextEdges \/ Row => fill' = NoFill \/ LessToFill]_vars
<1>1. Init => VideoInv
  BY InitInv
<1>2. VideoInv /\ [Next]_vars => VideoInv'
  BY StepInv
<1>3. VideoInv /\ [Next]_vars => [NextEdges \/ Row => fill' = NoFill \/ LessToFill]_vars
  BY PairLess, RowLess
<1> QED  BY <1>1, <1>2, <1>3, PTL DEF Spec

\* In any polygon with small edges, both edges come out at their vertices, from which the
\* next ones go on: polygons that share an edge leave no gap between them.
THEOREM NeighboursMeet == Spec => []EdgesMeet
<1>1. Init => VideoInv /\ EdgesInv
  BY InitInv
<1>2. VideoInv /\ EdgesInv /\ [Next]_vars => VideoInv' /\ EdgesInv'
  BY StepInv
<1>3. VideoInv /\ EdgesInv => EdgesMeet
  <2>1. SUFFICES ASSUME VideoInv, EdgesInv, fill # NoFill, fill.h = 0, SmallEdges(fill.points)
        PROVE  /\ RowX1 = Int16(fill.left + fill.points[fill.j + 1][1])
               /\ RowX2 = Int16(fill.left + fill.points[fill.i - 1][1])
    BY DEF EdgesMeet
  <2>2. PICK m \in 4 .. 49 : fill \in Filling(m)
    BY <2>1 DEF VideoInv, FillInv
  <2>3. /\ fill.cpt1 \in Int /\ fill.cpt2 \in Int
        /\ fill.step1 \in Int /\ fill.step2 \in Int
    BY <2>2 DEF Filling
  <2>4. /\ fill.cpt1 + fill.h * fill.step1 = fill.cpt1
        /\ fill.cpt2 + fill.h * fill.step2 = fill.cpt2
    BY <2>1, <2>3
  <2> QED  BY <2>1, <2>4 DEF EdgesInv, RowX1, RowX2
<1> QED  BY <1>1, <1>2, <1>3, PTL DEF Spec

-----------------------------------------------------------------------------
(* Where the pixels are.                                                   *)

PagePixels == (0 .. W - 1) \X (0 .. H - 1)

Offset(xy) == xy[2] * PITCH + xy[1] \div 2

PixelOf(m, q, xy) == m[PagePtrs[q] + xy[2] * PITCH + xy[1] \div 2][1 + (xy[1] % 2)]

LEMMA RowColumn ==
  ASSUME NEW n \in Nat, NEW y \in Nat, NEW z \in Nat, NEW c \in Nat, NEW d \in Nat,
         c < n, d < n, y * n + c = z * n + d
  PROVE  y = z /\ c = d
<1>1. ASSUME NEW u \in Nat, NEW v \in Nat, NEW a \in Nat, NEW b \in Nat,
             a < n, b < n, u * n + a = v * n + b, u < v
      PROVE  FALSE
  <2>1. (v - u - 1) * n \in Nat
    BY <1>1
  <2>2. (v - u - 1) * n = v * n - u * n - n
    BY <1>1
  <2>3. u * n \in Int /\ v * n \in Int
    BY <1>1
  <2> QED  BY <1>1, <2>1, <2>2, <2>3
<1>2. ~ (y < z)
  BY <1>1
<1>3. ~ (z < y)
  BY <1>1
<1>4. y = z
  BY <1>2, <1>3
<1>5. y * n \in Int
  OBVIOUS
<1> QED  BY <1>4, <1>5

LEMMA PageStart == ASSUME NEW q \in Pages  PROVE PagePtrs[q] = q * VID_PAGE_SIZE /\ q \in Nat
BY DEF PagePtrs, Pages

LEMMA InPage ==
  ASSUME NEW q \in Pages, NEW r \in 0 .. VID_PAGE_SIZE - 1
  PROVE  PagePtrs[q] \in Nat /\ PagePtrs[q] + r \in Memory
<1>1. PagePtrs[q] \in Ptrs
  BY DEF Ptrs
<1>2. PagePtrs[q] \in Nat /\ PagePtrs[q] + VID_PAGE_SIZE <= 4 * VID_PAGE_SIZE
  BY <1>1, PtrType
<1> QED  BY <1>2, Sizes DEF Memory

LEMMA SamePlace ==
  ASSUME NEW q \in Pages, NEW p \in Pages,
         NEW r \in 0 .. VID_PAGE_SIZE - 1, NEW t \in 0 .. VID_PAGE_SIZE - 1,
         PagePtrs[q] + r = PagePtrs[p] + t
  PROVE  q = p /\ r = t
<1>1. r \in Nat /\ t \in Nat /\ r < VID_PAGE_SIZE /\ t < VID_PAGE_SIZE
  BY Sizes
<1>2. q * VID_PAGE_SIZE + r = p * VID_PAGE_SIZE + t /\ q \in Nat /\ p \in Nat
  BY PageStart
<1> QED  BY <1>1, <1>2, RowColumn, Sizes

LEMMA PixelPlace ==
  ASSUME NEW xy \in PagePixels
  PROVE  /\ xy = <<xy[1], xy[2]>> /\ xy[1] \in Nat /\ xy[2] \in Nat /\ xy[1] < W /\ xy[2] < H
         /\ xy[1] \div 2 \in Nat /\ xy[1] \div 2 < PITCH
         /\ xy[2] * PITCH \in Nat
         /\ Offset(xy) \in 0 .. VID_PAGE_SIZE - 1
         /\ 1 + (xy[1] % 2) \in {1, 2}
<1> DEFINE x == xy[1]
           y == xy[2]
<1>1. x \in Nat /\ y \in Nat /\ x < W /\ y < H /\ xy = <<x, y>>
  BY Sizes DEF PagePixels
<1> HIDE DEF x, y
<1>2. x \div 2 \in Nat /\ x \div 2 < PITCH /\ 1 + (x % 2) \in {1, 2}
  BY <1>1, Sizes
<1>3. y * PITCH \in Nat /\ y * PITCH <= VID_PAGE_SIZE - PITCH
  <2>1. (H - 1 - y) * PITCH \in Nat
    BY <1>1, Sizes
  <2>2. (H - 1 - y) * PITCH = H * PITCH - PITCH - y * PITCH
    BY <1>1, Sizes
  <2>3. y * PITCH \in Nat
    BY <1>1, Sizes
  <2> QED  BY <2>1, <2>2, <2>3, Sizes
<1>4. y * PITCH + x \div 2 \in 0 .. VID_PAGE_SIZE - 1
  <2> DEFINE r == y * PITCH
             c == x \div 2
  <2> HIDE DEF r, c
  <2>1. r \in Nat /\ c \in Nat /\ r <= VID_PAGE_SIZE - PITCH /\ c < PITCH
    BY <1>2, <1>3 DEF r, c
  <2>2. r + c \in 0 .. VID_PAGE_SIZE - 1
    BY <2>1, Sizes
  <2> QED  BY <2>2 DEF r, c
<1> QED  BY <1>1, <1>2, <1>3, <1>4 DEF x, y, Offset

\* Pixels of different pages, rows or bytes have different addresses.
LEMMA PixelAt ==
  ASSUME NEW q \in Pages, NEW p \in Pages, NEW xy \in PagePixels,
         NEW y \in Nat, y < H, NEW c \in Nat, c < PITCH,
         PagePtrs[q] + Offset(xy) = PagePtrs[p] + (y * PITCH + c)
  PROVE  q = p /\ xy[2] = y /\ xy[1] \div 2 = c
<1> DEFINE z == xy[2]
           d == xy[1] \div 2
<1>1. Offset(xy) \in 0 .. VID_PAGE_SIZE - 1 /\ z \in Nat /\ d \in Nat /\ d < PITCH
  BY PixelPlace
<1>2. y * PITCH + c \in 0 .. VID_PAGE_SIZE - 1
  <2>1. (H - 1 - y) * PITCH \in Nat
    BY Sizes
  <2>2. (H - 1 - y) * PITCH = H * PITCH - PITCH - y * PITCH
    BY Sizes
  <2>3. y * PITCH \in Nat
    BY Sizes
  <2> DEFINE r == y * PITCH
  <2>4. r <= VID_PAGE_SIZE - PITCH
    BY <2>1, <2>2, <2>3, Sizes
  <2> HIDE DEF r
  <2>5. r + c \in 0 .. VID_PAGE_SIZE - 1
    <3>1. r \in Nat
      BY <2>3 DEF r
    <3> QED  BY <2>4, <3>1, Sizes
  <2> QED  BY <2>5 DEF r
<1> DEFINE t == y * PITCH + c
<1> HIDE DEF t
<1>3. q = p /\ Offset(xy) = t
  BY <1>1, <1>2, SamePlace DEF t
<1>4. z * PITCH + d = y * PITCH + c
  BY <1>3 DEF Offset, t
<1> HIDE DEF z, d
<1>5. z = y /\ d = c
  BY <1>1, <1>4, RowColumn, Sizes
<1> QED  BY <1>3, <1>5 DEF z, d

\* What is seen of the pages m.
Seen(m) == [p \in Pages |-> [xy \in PagePixels |-> PixelOf(m, p, xy)]]

LEMMA SeenType ==
  ASSUME NEW m \in PageMemory, NEW q \in Pages, NEW xy \in PagePixels
  PROVE  PixelOf(m, q, xy) \in Colors
<1> DEFINE a == PagePtrs[q] + Offset(xy)
           half == 1 + (xy[1] % 2)
<1>1. a \in Memory /\ half \in {1, 2}
  BY PixelPlace, InPage
<1> HIDE DEF half
<1>2. PixelOf(m, q, xy) = m[a][half]
  <2>1. PagePtrs[q] + xy[2] * PITCH + xy[1] \div 2 = a
    BY PixelPlace, InPage DEF Offset
  <2> QED  BY <2>1 DEF PixelOf, half
<1> HIDE DEF a
<1>3. m[a] \in Pair
  BY <1>1 DEF PageMemory
<1> QED  BY <1>1, <1>2, <1>3 DEF Pair

-----------------------------------------------------------------------------
(* The steps of module Screen.                                             *)

\* The pages m are those of now, with a region of page p painted.
Ink2(p, xy, ink) ==
  CASE ink = BLEND -> IF PixelOf(mem, p, xy) < 8 THEN PixelOf(mem, p, xy) + 8
                      ELSE PixelOf(mem, p, xy)
    [] ink = PAGE0 -> PixelOf(mem, 0, xy)
    [] OTHER       -> ink

Painted(m, p, region, ink) ==
  \A q \in Pages, xy \in PagePixels :
    PixelOf(m, q, xy) = IF q = p /\ xy \in region THEN Ink2(p, xy, ink) ELSE PixelOf(mem, q, xy)

\* ... with page s copied to page p, v rows further down.
Target(p, v, q, xy) == q = p /\ xy[2] - v \in 0 .. H - 1

CopiedFrom(m, p, s, v) ==
  \A q \in Pages, xy \in PagePixels :
    PixelOf(m, q, xy) = IF Target(p, v, q, xy) THEN PixelOf(mem, s, <<xy[1], xy[2] - v>>)
                        ELSE PixelOf(mem, q, xy)

LEMMA PageNow == Page = Seen(mem)
BY DEF Page, Seen, Pixel, PixelOf, PagePixels

LEMMA PageThen == Page' = Seen(mem')
BY DEF Page, Seen, Pixel, PixelOf, PagePixels

LEMMA SeenAt ==
  ASSUME NEW m, NEW q \in Pages, NEW xy \in PagePixels
  PROVE  Seen(m)[q][xy] = PixelOf(m, q, xy)
BY DEF Seen

LEMMA ScreenPages == Scr!Pages = Pages /\ Scr!Pixels = PagePixels
BY DEF Scr!Pages, Scr!Pixels, Pages, PagePixels

LEMMA PaintIsStep ==
  ASSUME NEW p \in Pages, NEW region, NEW ink, Painted(mem', p, region, ink)
  PROVE  Scr!Paint(p, region, ink)
<1>1. ASSUME NEW q \in Pages, NEW xy \in PagePixels
      PROVE  PixelOf(mem', q, xy) = IF q = p /\ xy \in region THEN Scr!Inked(p, xy, ink)
                                    ELSE Page[q][xy]
  <2>1. /\ Page[q][xy] = PixelOf(mem, q, xy) /\ Page[p][xy] = PixelOf(mem, p, xy)
        /\ Page[0][xy] = PixelOf(mem, 0, xy)
    <3>1. 0 \in Pages
      BY DEF Pages
    <3> QED  BY <3>1, PageNow, SeenAt
  <2>2. Scr!Inked(p, xy, ink) = Ink2(p, xy, ink)
    BY <2>1 DEF Scr!Inked, Scr!Light, Scr!BLEND, Scr!PAGE0, BLEND, PAGE0, Ink2
  <2> QED  BY <2>1, <2>2 DEF Painted
<1>2. Seen(mem') = [q \in Pages |-> [xy \in PagePixels |->
                      IF q = p /\ xy \in region THEN Scr!Inked(p, xy, ink) ELSE Page[q][xy]]]
  BY <1>1 DEF Seen
<1> QED  BY <1>2, PageThen, ScreenPages DEF Scr!Paint

LEMMA ShiftIsStep ==
  ASSUME NEW p \in Pages, NEW s \in Pages, NEW v \in Int, CopiedFrom(mem', p, s, v)
  PROVE  Scr!Shift(s, p, v)
<1>1. ASSUME NEW q \in Pages, NEW xy \in PagePixels
      PROVE  PixelOf(mem', q, xy) = IF q = p /\ xy[2] - v \in 0 .. H - 1
                                    THEN Page[s][<<xy[1], xy[2] - v>>] ELSE Page[q][xy]
  <2>1. Page[q][xy] = PixelOf(mem, q, xy)
    BY PageNow, SeenAt
  <2>2. CASE Target(p, v, q, xy)
    <3>1. <<xy[1], xy[2] - v>> \in PagePixels
      BY <2>2 DEF PagePixels, Target
    <3>2. Page[s][<<xy[1], xy[2] - v>>] = PixelOf(mem, s, <<xy[1], xy[2] - v>>)
      BY <3>1, PageNow, SeenAt
    <3> QED  BY <2>2, <3>2 DEF CopiedFrom, Target
  <2>3. CASE ~ Target(p, v, q, xy)
    BY <2>1, <2>3 DEF CopiedFrom, Target
  <2> QED  BY <2>2, <2>3
<1>2. Seen(mem') = [q \in Pages |-> [xy \in PagePixels |->
                      IF q = p /\ xy[2] - v \in 0 .. H - 1
                      THEN Page[s][<<xy[1], xy[2] - v>>] ELSE Page[q][xy]]]
  BY <1>1 DEF Seen
<1> QED  BY <1>2, PageThen, ScreenPages DEF Scr!Shift

LEMMA SmearIsStep ==
  ASSUME mem' \in PageMemory, NEW p \in Pages, NEW v \in Int,
         \A q \in Pages, xy \in PagePixels :
           ~ Target(p, v, q, xy) => PixelOf(mem', q, xy) = PixelOf(mem, q, xy)
  PROVE  Scr!Smear(p, v)
<1>1. Page' \in [Pages -> [PagePixels -> Colors]]
  <2>1. Seen(mem') \in [Pages -> [PagePixels -> Colors]]
    BY SeenType DEF Seen
  <2> QED  BY <2>1, PageThen
<1>2. ASSUME NEW q \in Pages, NEW xy \in PagePixels, ~ (q = p /\ xy[2] - v \in 0 .. H - 1)
      PROVE  Page'[q][xy] = Page[q][xy]
  <2>1. Page[q][xy] = PixelOf(mem, q, xy) /\ Page'[q][xy] = PixelOf(mem', q, xy)
    BY PageNow, PageThen, SeenAt
  <2> QED  BY <1>2, <2>1 DEF Target
<1> QED  BY <1>1, <1>2, ScreenPages DEF Scr!Smear

LEMMA SameIsStutter ==
  ASSUME \A q \in Pages, xy \in PagePixels : PixelOf(mem', q, xy) = PixelOf(mem, q, xy)
  PROVE  Page' = Page
<1>1. Seen(mem') = Seen(mem)
  BY DEF Seen
<1> QED  BY <1>1, PageNow, PageThen

LEMMA SameMemory == ASSUME mem' = mem  PROVE Page' = Page
BY SameIsStutter

-----------------------------------------------------------------------------
(* The pages and the pointers to them.                                     *)

LEMMA PixelIs ==
  ASSUME NEW m, NEW q \in Pages, NEW xy \in PagePixels
  PROVE  /\ PixelOf(m, q, xy) = m[PagePtrs[q] + Offset(xy)][1 + (xy[1] % 2)]
         /\ PagePtrs[q] + Offset(xy) \in Memory
         /\ PagePtrs[q] \in Nat /\ Offset(xy) \in 0 .. VID_PAGE_SIZE - 1
<1>1. /\ Offset(xy) \in 0 .. VID_PAGE_SIZE - 1
      /\ PagePtrs[q] \in Nat /\ PagePtrs[q] + Offset(xy) \in Memory
  BY PixelPlace, InPage
<1>2. PagePtrs[q] + xy[2] * PITCH + xy[1] \div 2 = PagePtrs[q] + Offset(xy)
  BY <1>1, PixelPlace DEF Offset
<1> QED  BY <1>1, <1>2 DEF PixelOf

\* A byte of page q lies in page p only if these are the same.
LEMMA InWhichPage ==
  ASSUME NEW q \in Pages, NEW p \in Pages, NEW r \in 0 .. VID_PAGE_SIZE - 1
  PROVE  (PagePtrs[q] + r) - PagePtrs[p] \in 0 .. VID_PAGE_SIZE - 1 <=> q = p
<1>1. PagePtrs[q] \in Nat /\ PagePtrs[p] \in Nat
  BY InPage
<1>2. CASE q = p
  BY <1>1, <1>2
<1>3. ASSUME (PagePtrs[q] + r) - PagePtrs[p] \in 0 .. VID_PAGE_SIZE - 1  PROVE q = p
  <2> DEFINE t == (PagePtrs[q] + r) - PagePtrs[p]
  <2>1. t \in 0 .. VID_PAGE_SIZE - 1 /\ PagePtrs[q] + r = PagePtrs[p] + t
    BY <1>1, <1>3
  <2> QED  BY <2>1, SamePlace
<1> QED  BY <1>2, <1>3

\* Two pages are at least a page apart.
LEMMA PtrsApart ==
  ASSUME NEW p \in Pages, NEW q \in Pages
  PROVE  /\ PagePtrs[p] \in Nat /\ PagePtrs[q] \in Nat
         /\ p # q => \/ PagePtrs[p] >= PagePtrs[q] + VID_PAGE_SIZE
                     \/ PagePtrs[q] >= PagePtrs[p] + VID_PAGE_SIZE
<1> DEFINE V == VID_PAGE_SIZE
<1>1. V \in Nat /\ p \in 0 .. 3 /\ q \in 0 .. 3
  BY Sizes DEF Pages
<1>2. PagePtrs[p] = p * V /\ PagePtrs[q] = q * V
  BY DEF PagePtrs
<1> HIDE DEF V
<1>3. p \in {0, 1, 2, 3} /\ q \in {0, 1, 2, 3}
  BY <1>1
<1>4. \A k \in {0, 1, 2, 3} : k * V \in Nat
  BY <1>1
<1>5. 0 * V = 0 /\ 1 * V = V /\ 2 * V = V + V /\ 3 * V = V + V + V
  BY <1>1
<1>6. p # q => p * V >= q * V + V \/ q * V >= p * V + V
  BY <1>1, <1>3, <1>5
<1> QED  BY <1>2, <1>3, <1>4, <1>6 DEF V

LEMMA PageOfPtr ==
  ASSUME NEW ptr \in Ptrs
  PROVE  PageOf(ptr) \in Pages /\ PagePtrs[PageOf(ptr)] = ptr
<1>1. \E p \in Pages : PagePtrs[p] = ptr
  BY DEF Ptrs
<1> QED  BY <1>1, Zenon DEF PageOf

LEMMA PageIs == ASSUME NEW p \in Pages  PROVE PageOf(PagePtrs[p]) = p
<1>1. PagePtrs[p] \in Ptrs
  BY DEF Ptrs
<1>2. PageOf(PagePtrs[p]) \in Pages /\ PagePtrs[PageOf(PagePtrs[p])] = PagePtrs[p]
  BY <1>1, PageOfPtr
<1> DEFINE q == PageOf(PagePtrs[p])
<1> HIDE DEF q
<1>3. q \in Pages /\ PagePtrs[q] = PagePtrs[p]
  BY <1>2 DEF q
<1>4. q = p
  BY <1>3, PtrsApart, Sizes
<1> QED  BY <1>4 DEF q

\* Pointers and screen know the pages by the same names.
LEMMA NamedPage ==
  ASSUME VideoInv, NEW id
  PROVE  /\ Scr!Named(id) \in Pages /\ PagePtrs[Scr!Named(id)] = PagePtr(id)
         /\ PageOf(PagePtr(id)) = Scr!Named(id)
<1>1. 0 \in Pages /\ FRONT \notin Pages /\ BACK \notin Pages /\ FRONT # BACK
  BY DEF Pages, FRONT, BACK
<1>2. Scr!FRONT = FRONT /\ Scr!BACK = BACK
  BY DEF Scr!FRONT, Scr!BACK, FRONT, BACK
<1>3. /\ PageOf(curPagePtr2) \in Pages /\ PagePtrs[PageOf(curPagePtr2)] = curPagePtr2
      /\ PageOf(curPagePtr3) \in Pages /\ PagePtrs[PageOf(curPagePtr3)] = curPagePtr3
  BY PageOfPtr DEF VideoInv
<1>4. Scr!Named(id) \in Pages /\ PagePtrs[Scr!Named(id)] = PagePtr(id)
  <2>1. CASE id \in Pages
    <3>1. Scr!Named(id) = id
      BY <1>1, <1>2, <2>1, ScreenPages DEF Scr!Named
    <3>2. PagePtr(id) = PagePtrs[id]
      BY <1>1, <2>1 DEF PagePtr
    <3> QED  BY <2>1, <3>1, <3>2
  <2>2. CASE id = FRONT
    <3>1. Scr!Named(id) = PageOf(curPagePtr2)
      BY <1>1, <1>2, <2>2, ScreenPages DEF Scr!Named
    <3>2. PagePtr(id) = curPagePtr2
      BY <1>1, <2>2 DEF PagePtr
    <3> QED  BY <1>3, <3>1, <3>2
  <2>3. CASE id = BACK
    <3>1. Scr!Named(id) = PageOf(curPagePtr3)
      BY <1>1, <1>2, <2>3, ScreenPages DEF Scr!Named
    <3>2. PagePtr(id) = curPagePtr3
      BY <1>1, <2>3 DEF PagePtr
    <3> QED  BY <1>3, <3>1, <3>2
  <2>4. CASE id \notin Pages /\ id # FRONT /\ id # BACK
    <3>1. Scr!Named(id) = 0
      BY <1>2, <2>4, ScreenPages DEF Scr!Named
    <3>2. PagePtr(id) = PagePtrs[0]
      BY <2>4 DEF PagePtr
    <3> QED  BY <1>1, <3>1, <3>2
  <2> QED  BY <2>1, <2>2, <2>3, <2>4
<1>5. PageOf(PagePtrs[Scr!Named(id)]) = Scr!Named(id)
  BY <1>4, PageIs
<1> QED  BY <1>4, <1>5

LEMMA SameTurned == ASSUME UNCHANGED ptrVars  PROVE UNCHANGED Scr!turned
BY DEF ptrVars, Scr!turned, PageOf

LEMMA SelectIsStep == ASSUME VideoInv, ChangePagePtr1  PROVE Scr!Select
<1>1. PICK id \in PageIds : curPagePtr1' = PagePtr(id) /\ drawn' = [do |-> "select", page |-> id]
  BY DEF ChangePagePtr1
<1>2. drawn'.do = "select" /\ drawn'.page = id
  BY <1>1
<1>3. PageOf(curPagePtr1') = Scr!Named(id)
  BY <1>1, NamedPage
<1>4. mem' = mem /\ curPagePtr2' = curPagePtr2 /\ curPagePtr3' = curPagePtr3 /\ hliney' = hliney
  BY DEF ChangePagePtr1, shapeVars
<1>5. Page' = Page
  BY <1>4, SameMemory
<1>6. PageOf(curPagePtr2)' = PageOf(curPagePtr2) /\ PageOf(curPagePtr3)' = PageOf(curPagePtr3)
  BY <1>4 DEF PageOf
<1>7. PageOf(curPagePtr1)' = Scr!Named(id)
  BY <1>3 DEF PageOf
<1> QED  BY <1>2, <1>4, <1>5, <1>6, <1>7 DEF Scr!Select

LEMMA ShowIsStep == ASSUME VideoInv, UpdateDisplay  PROVE Scr!Show
<1>1. PICK id \in PageIds :
        /\ curPagePtr2' = IF id = BACK THEN curPagePtr3 ELSE PagePtr(id)
        /\ curPagePtr3' = IF id = BACK THEN curPagePtr2 ELSE curPagePtr3
        /\ drawn' = [do |-> "show", page |-> id]
  BY DEF UpdateDisplay
<1>2. drawn'.do = "show" /\ drawn'.page = id /\ Scr!BACK = BACK
  BY <1>1 DEF Scr!BACK, BACK
<1>3. PagePtr(BACK) = curPagePtr3
  BY DEF PagePtr, BACK, FRONT, Pages
<1>4. PageOf(curPagePtr2') = Scr!Named(id)
  BY <1>1, <1>3, NamedPage
<1>5. mem' = mem /\ curPagePtr1' = curPagePtr1 /\ hliney' = hliney
  BY DEF UpdateDisplay, shapeVars
<1>6. Page' = Page
  BY <1>5, SameMemory
<1>7. PageOf(curPagePtr1)' = PageOf(curPagePtr1)
  BY <1>5 DEF PageOf
<1>8. PageOf(curPagePtr2)' = Scr!Named(id)
  BY <1>4 DEF PageOf
<1>9. PageOf(curPagePtr3)' = IF id = BACK THEN PageOf(curPagePtr2) ELSE PageOf(curPagePtr3)
  BY <1>1 DEF PageOf
<1> QED  BY <1>2, <1>5, <1>6, <1>7, <1>8, <1>9 DEF Scr!Show

-----------------------------------------------------------------------------
(* Pages, filled and copied.                                               *)

LEMMA FillIsStep == ASSUME VideoInv, FillPage  PROVE Scr!Fill
<1>1. PICK id \in PageIds, c \in Colors :
        /\ mem' = [a \in Memory |-> IF a - PagePtr(id) \in 0 .. VID_PAGE_SIZE - 1 THEN <<c, c>>
                                    ELSE mem[a]]
        /\ drawn' = [do |-> "fill", page |-> id, ink |-> c]
  BY DEF FillPage
<1> DEFINE p == Scr!Named(id)
<1>3. p \in Pages /\ PagePtr(id) = PagePtrs[p]
  BY NamedPage
<1> HIDE DEF p
<1>4. c # BLEND /\ c # PAGE0
  BY SizeAssumption DEF BLEND, PAGE0
<1>6. Painted(mem', p, PagePixels, c)
  <2>1. SUFFICES ASSUME NEW q \in Pages, NEW xy \in PagePixels
                 PROVE  PixelOf(mem', q, xy) = IF q = p THEN c ELSE PixelOf(mem, q, xy)
    BY <1>4 DEF Painted, Ink2
  <2> DEFINE a == PagePtrs[q] + Offset(xy)
             half == 1 + (xy[1] % 2)
  <2>2. /\ PixelOf(mem', q, xy) = mem'[a][half] /\ PixelOf(mem, q, xy) = mem[a][half]
        /\ a \in Memory /\ half \in {1, 2}
    BY PixelIs, PixelPlace
  <2>3. a - PagePtrs[p] \in 0 .. VID_PAGE_SIZE - 1 <=> q = p
    BY <1>3, PixelIs, InWhichPage
  <2> HIDE DEF a, half
  <2>4. mem'[a] = IF q = p THEN <<c, c>> ELSE mem[a]
    BY <1>1, <1>3, <2>2, <2>3
  <2>5. <<c, c>>[half] = c
    BY <2>2
  <2> QED  BY <2>2, <2>4, <2>5
<1>7. Scr!Paint(p, PagePixels, c)
  BY <1>3, <1>6, PaintIsStep
<1>8. drawn'.do = "fill" /\ drawn'.page = id /\ drawn'.ink = c
  BY <1>1
<1>9. UNCHANGED <<ptrVars, hliney>>
  BY DEF FillPage, shapeVars
<1>10. UNCHANGED Scr!turned
  BY <1>9, SameTurned
<1> QED  BY <1>7, <1>8, <1>9, <1>10, ScreenPages DEF Scr!Fill, p

\* memcpy of rows: those of page p from row `first' on, n of them, come of page s.
RowsCopied(m, p, s, v, first, n, way) ==
  /\ v \in 1 - H .. H - 1
  /\ first \in Nat /\ n \in Nat /\ first + n <= H /\ first - v \in Nat
  /\ first - v + n <= H
  /\ m = Copied(PagePtrs[p] + first * PITCH, PagePtrs[s] + (first - v) * PITCH, n * PITCH, way)
  /\ \A y \in 0 .. H - 1 : y - v \in 0 .. H - 1 <=> y \in first .. first + n - 1

\* The others stay.
LEMMA CopiedElsewhere ==
  ASSUME NEW p \in Pages, NEW s \in Pages, NEW v, NEW first, NEW n, NEW way, NEW m,
         RowsCopied(m, p, s, v, first, n, way),
         NEW q \in Pages, NEW xy \in PagePixels, ~ Target(p, v, q, xy)
  PROVE  PixelOf(m, q, xy) = PixelOf(mem, q, xy)
<1>0. /\ v \in 1 - H .. H - 1
      /\ first \in Nat /\ n \in Nat /\ first + n <= H /\ first - v \in Nat
      /\ first - v + n <= H
      /\ m = Copied(PagePtrs[p] + first * PITCH, PagePtrs[s] + (first - v) * PITCH,
                    n * PITCH, way)
      /\ \A y \in 0 .. H - 1 : y - v \in 0 .. H - 1 <=> y \in first .. first + n - 1
  BY DEF RowsCopied
<1> USE <1>0
<1> DEFINE a == PagePtrs[q] + Offset(xy)
           half == 1 + (xy[1] % 2)
           x == xy[1] \div 2
           y == xy[2]
           to == PagePtrs[p] + first * PITCH
           from == PagePtrs[s] + (first - v) * PITCH
           size == n * PITCH
<1>2. /\ PixelOf(m, q, xy) = m[a][half] /\ PixelOf(mem, q, xy) = mem[a][half]
      /\ a \in Memory /\ half \in {1, 2} /\ a = PagePtrs[q] + Offset(xy)
  BY PixelIs, PixelPlace
<1>3. /\ x \in Nat /\ x < PITCH /\ y \in Nat /\ y < H /\ y * PITCH \in Nat
      /\ Offset(xy) = y * PITCH + x
  BY PixelPlace DEF Offset
<1>4. PagePtrs[p] \in Nat /\ PagePtrs[q] \in Nat /\ PagePtrs[s] \in Nat
  <2>1. 0 \in 0 .. VID_PAGE_SIZE - 1
    BY Sizes
  <2> QED  BY <2>1, InPage
<1>5. /\ first * PITCH \in Nat /\ n * PITCH \in Nat /\ (first - v) * PITCH \in Nat
      /\ PITCH \in Nat
  BY Sizes
<1>6. m[a] = IF a - to \in 0 .. size - 1 THEN mem[from + Taken(to, from, size, way, a - to)]
             ELSE mem[a]
  BY <1>2 DEF Copied
<1>7. ~ (q = p /\ y - v \in 0 .. H - 1)
  BY DEF Target
<1>8. m[a] = mem[a]
  <2>1. a - to \notin 0 .. size - 1
    <3>1. SUFFICES ASSUME a - to \in 0 .. size - 1 PROVE FALSE
      OBVIOUS
    <3> DEFINE t == a - PagePtrs[p]
               f == first * PITCH
               e == (H - first - n) * PITCH
    <3>2. e \in Nat
      BY <1>5, Sizes
    <3>3. e = VID_PAGE_SIZE - f - size /\ f \in Nat /\ size \in Nat
      BY <1>5, Sizes
    <3>4. a \in Nat
      BY <1>2, Sizes DEF Memory
    <3>5. to = PagePtrs[p] + f
      OBVIOUS
    <3> HIDE DEF a, to, size, f, e
    <3>6. t \in 0 .. VID_PAGE_SIZE - 1 /\ t - f \in 0 .. size - 1
      BY <1>4, <3>1, <3>2, <3>3, <3>4, <3>5, Sizes
    <3>7. q = p
      BY <1>2, <3>6, InWhichPage, PixelIs
    <3>8. t = y * PITCH + x
      <4>1. a = PagePtrs[q] + Offset(xy) /\ Offset(xy) \in Nat
        BY <1>2, <1>3
      <4>2. t = Offset(xy)
        BY <1>4, <3>7, <4>1
      <4> QED  BY <1>3, <4>2
    <3>9. y \notin first .. first + n - 1
      <4>1. y \in 0 .. H - 1
        BY <1>3, Sizes
      <4> HIDE DEF y, t
      <4> QED  BY <1>7, <3>7, <4>1
    <3> HIDE DEF t
    <3>10. CASE y < first
      <4>0. first - y - 1 \in Nat
        BY <1>3, <3>10
      <4>1. (first - y - 1) * PITCH \in Nat
        BY <1>5, <4>0
      <4>2. (first - y - 1) * PITCH = f - y * PITCH - PITCH
        BY <1>3, <1>5 DEF f
      <4> DEFINE w == (first - y - 1) * PITCH
                 u == y * PITCH
      <4>3. w \in Nat /\ w = f - u - PITCH /\ u \in Nat /\ t = u + x
        BY <1>3, <3>8, <4>1, <4>2
      <4> HIDE DEF w, u, x
      <4> QED  BY <1>3, <1>5, <3>3, <3>6, <4>3
    <3>11. CASE y >= first + n
      <4>1. (y - first - n) * PITCH \in Nat
        BY <1>3, <1>5, <3>11
      <4>2. (y - first - n) * PITCH = y * PITCH - f - size
        BY <1>3, <1>5 DEF f, size
      <4> DEFINE w == (y - first - n) * PITCH
                 u == y * PITCH
      <4>3. w \in Nat /\ w = u - f - size /\ u \in Nat /\ t = u + x
        BY <1>3, <3>8, <4>1, <4>2
      <4> HIDE DEF w, u, x
      <4> QED  BY <1>3, <1>5, <3>3, <3>6, <4>3
    <3> QED  BY <1>3, <3>9, <3>10, <3>11
  <2> QED  BY <1>6, <2>1
<1> QED  BY <1>2, <1>8

\* Where the areas do not overlap, unless they are the same.
Apart(p, s, v, n) == p # s \/ v = 0 \/ v >= n \/ -v >= n

LEMMA AreasApart ==
  ASSUME NEW p \in Pages, NEW s \in Pages, NEW v \in Int, NEW first \in Nat, NEW n \in Nat,
         first + n <= H, first - v \in Nat, first - v + n <= H, Apart(p, s, v, n),
         NEW to, to = PagePtrs[p] + first * PITCH,
         NEW from, from = PagePtrs[s] + (first - v) * PITCH, NEW size, size = n * PITCH
  PROVE  to = from \/ to - from >= size \/ from - to >= size
<1> DEFINE f == first * PITCH
           g == (first - v) * PITCH
           V == VID_PAGE_SIZE
           d == v * PITCH
<1>1. PITCH \in Nat /\ H \in Nat /\ V = H * PITCH /\ V \in Nat
  BY Sizes
<1>2. f \in Nat /\ g \in Nat /\ size \in Nat /\ d \in Int /\ g = f - d
  BY <1>1
<1>3. f + size <= V
  <2>1. (H - first - n) * PITCH \in Nat
    BY <1>1
  <2>2. (H - first - n) * PITCH = V - f - size
    BY <1>1
  <2> DEFINE r == (H - first - n) * PITCH
  <2>3. r \in Nat /\ r = V - f - size
    BY <2>1, <2>2
  <2> HIDE DEF r, f, V
  <2> QED  BY <1>1, <1>2, <2>3
<1>4. g + size <= V
  <2>1. (H - (first - v) - n) * PITCH \in Nat
    BY <1>1
  <2>2. (H - (first - v) - n) * PITCH = V - g - size
    BY <1>1
  <2> DEFINE r == (H - (first - v) - n) * PITCH
  <2>3. r \in Nat /\ r = V - g - size
    BY <2>1, <2>2
  <2> HIDE DEF r, g, V
  <2> QED  BY <1>1, <1>2, <2>3
<1>5. PagePtrs[p] \in Nat /\ PagePtrs[s] \in Nat
  BY PtrsApart
<1>6. CASE p # s
  <2>1. PagePtrs[p] >= PagePtrs[s] + V \/ PagePtrs[s] >= PagePtrs[p] + V
    BY <1>6, PtrsApart
  <2>2. to = PagePtrs[p] + f /\ from = PagePtrs[s] + g
    OBVIOUS
  <2> HIDE DEF f, g, V
  <2> QED  BY <1>1, <1>2, <1>3, <1>4, <1>5, <2>1, <2>2
<1>7. CASE p = s
  <2>1. d = 0 \/ d >= size \/ -d >= size
    <3>1. CASE v = 0
      BY <1>1, <3>1
    <3>2. CASE v >= n
      <4>1. (v - n) * PITCH \in Nat
        BY <1>1, <3>2
      <4>2. (v - n) * PITCH = d - size
        BY <1>1
      <4> DEFINE r == (v - n) * PITCH
      <4>3. r \in Nat /\ r = d - size
        BY <4>1, <4>2
      <4> HIDE DEF r, d
      <4> QED  BY <1>2, <4>3
    <3>3. CASE -v >= n
      <4>1. (-v - n) * PITCH \in Nat
        BY <1>1, <3>3
      <4>2. (-v - n) * PITCH = -d - size
        BY <1>1
      <4> DEFINE r == (-v - n) * PITCH
      <4>3. r \in Nat /\ r = -d - size
        BY <4>1, <4>2
      <4> HIDE DEF r, d
      <4> QED  BY <1>2, <4>3
    <3> QED  BY <1>7, <3>1, <3>2, <3>3 DEF Apart
  <2>2. to = PagePtrs[p] + f /\ from = PagePtrs[p] + g
    BY <1>7
  <2> HIDE DEF f, g, d
  <2>3. to - from = d
    BY <1>2, <1>5, <2>2
  <2>4. to \in Int /\ from \in Int
    BY <1>2, <1>5, <2>2
  <2> QED  BY <1>2, <2>1, <2>3, <2>4
<1> QED  BY <1>6, <1>7

LEMMA CopiedRows ==
  ASSUME NEW p \in Pages, NEW s \in Pages, NEW v, NEW first, NEW n, NEW way, NEW m,
         RowsCopied(m, p, s, v, first, n, way),
         Apart(p, s, v, n)
  PROVE  CopiedFrom(m, p, s, v)
<1>9. \A q \in Pages, xy \in PagePixels :
        ~ Target(p, v, q, xy) => PixelOf(m, q, xy) = PixelOf(mem, q, xy)
  BY CopiedElsewhere
<1>1. SUFFICES ASSUME NEW q \in Pages, NEW xy \in PagePixels, Target(p, v, q, xy)
      PROVE  PixelOf(m, q, xy) = PixelOf(mem, s, <<xy[1], xy[2] - v>>)
  BY <1>9 DEF CopiedFrom
<1>0. /\ v \in 1 - H .. H - 1
      /\ first \in Nat /\ n \in Nat /\ first + n <= H /\ first - v \in Nat
      /\ first - v + n <= H
      /\ m = Copied(PagePtrs[p] + first * PITCH, PagePtrs[s] + (first - v) * PITCH,
                    n * PITCH, way)
      /\ \A y \in 0 .. H - 1 : y - v \in 0 .. H - 1 <=> y \in first .. first + n - 1
  BY DEF RowsCopied
<1> USE <1>0
<1> DEFINE a == PagePtrs[q] + Offset(xy)
           half == 1 + (xy[1] % 2)
           x == xy[1] \div 2
           y == xy[2]
           to == PagePtrs[p] + first * PITCH
           from == PagePtrs[s] + (first - v) * PITCH
           size == n * PITCH
<1>2. /\ PixelOf(m, q, xy) = m[a][half] /\ PixelOf(mem, q, xy) = mem[a][half]
      /\ a \in Memory /\ half \in {1, 2} /\ a = PagePtrs[q] + Offset(xy)
  BY PixelIs, PixelPlace
<1>3. /\ x \in Nat /\ x < PITCH /\ y \in Nat /\ y < H /\ y * PITCH \in Nat
      /\ Offset(xy) = y * PITCH + x
  BY PixelPlace DEF Offset
<1>4. PagePtrs[p] \in Nat /\ PagePtrs[q] \in Nat /\ PagePtrs[s] \in Nat
  <2>1. 0 \in 0 .. VID_PAGE_SIZE - 1
    BY Sizes
  <2> QED  BY <2>1, InPage
<1>5. /\ first * PITCH \in Nat /\ n * PITCH \in Nat /\ (first - v) * PITCH \in Nat
      /\ PITCH \in Nat
  BY Sizes
<1>6. m[a] = IF a - to \in 0 .. size - 1 THEN mem[from + Taken(to, from, size, way, a - to)]
             ELSE mem[a]
  BY <1>2 DEF Copied
<1>7. q = p /\ y - v \in 0 .. H - 1
  BY <1>1 DEF Target
<1>8. PixelOf(m, q, xy) = PixelOf(mem, s, <<xy[1], xy[2] - v>>)
  <2>1. y \in first .. first + n - 1
    <3>1. y \in 0 .. H - 1
      BY <1>3, Sizes
    <3> HIDE DEF y
    <3> QED  BY <1>7, <3>1
  <2>2. (y - first) * PITCH \in Nat /\ (first + n - 1 - y) * PITCH \in Nat
    BY <1>5, <2>1
  <2>3. /\ (y - first) * PITCH = y * PITCH - first * PITCH
        /\ (first + n - 1 - y) * PITCH = first * PITCH + n * PITCH - PITCH - y * PITCH
    BY <1>3, <1>5
  <2>4. a - to = (y - first) * PITCH + x
    <3> DEFINE u == y * PITCH
               f == first * PITCH
    <3>1. a = PagePtrs[p] + (u + x) /\ to = PagePtrs[p] + f /\ u \in Nat /\ f \in Nat
      BY <1>2, <1>3, <1>5, <1>7
    <3> HIDE DEF u, f, a, to, x
    <3>2. a - to = u - f + x
      BY <1>3, <1>4, <3>1
    <3> QED  BY <2>3, <3>2 DEF u, f
  <2>5. a - to \in 0 .. size - 1
    <3> DEFINE k == (y - first) * PITCH
               l == (first + n - 1 - y) * PITCH
    <3>1. k + l = size - PITCH /\ k \in Nat /\ l \in Nat /\ size \in Nat
      <4> DEFINE u == y * PITCH
                 f == first * PITCH
      <4>1. k = u - f /\ l = f + size - PITCH - u /\ u \in Nat /\ f \in Nat /\ size \in Nat
        BY <1>3, <1>5, <2>3
      <4>2. k \in Nat /\ l \in Nat
        BY <2>2
      <4> HIDE DEF u, f, k, l, size
      <4> QED  BY <1>5, <4>1, <4>2
    <3> HIDE DEF a, to, x, size, k, l
    <3>2. a - to = k + x
      BY <2>4 DEF k
    <3> QED  BY <1>3, <1>5, <3>1, <3>2
  <2> DEFINE uv == <<xy[1], y - v>>
             b == PagePtrs[s] + Offset(uv)
  <2>6. uv \in PagePixels /\ uv[1] = xy[1] /\ uv[2] = y - v
    BY <1>7 DEF PagePixels
  <2>7. PixelOf(mem, s, uv) = mem[b][half]
    BY <2>6, PixelIs
  <2>8. b = from + (a - to)
    <3>1. Offset(uv) = (y - v) * PITCH + x
      BY <2>6 DEF Offset
    <3>2. (y - v) * PITCH = (y - first) * PITCH + (first - v) * PITCH
      BY <1>3, <1>5
    <3>3. (y - v) * PITCH \in Int
      BY <1>3, <1>5
    <3> DEFINE k == (y - first) * PITCH
               g == (first - v) * PITCH
    <3>4. k \in Nat /\ g \in Nat /\ (y - v) * PITCH = k + g /\ from = PagePtrs[s] + g
      BY <1>5, <2>2, <3>2
    <3>5. a - to = k + x
      BY <2>4
    <3> HIDE DEF k, g, a, to, x, from, uv, y
    <3>6. b = PagePtrs[s] + (k + g + x)
      BY <3>1, <3>4
    <3> HIDE DEF b
    <3> QED  BY <1>3, <1>4, <3>4, <3>5, <3>6
  <2>10. to = from \/ to - from >= size \/ from - to >= size
    <3> HIDE DEF to, from, size
    <3> QED  BY AreasApart DEF to, from, size
  <2>11. to \in Int /\ from \in Int /\ size \in Int
    <3>1. first * PITCH \in Int /\ (first - v) * PITCH \in Int
      BY <1>5
    <3> QED  BY <1>4, <1>5, <3>1
  <2> HIDE DEF a, to, size, from, b, half, y, uv
  <2>9. Taken(to, from, size, way, a - to) = a - to
    BY <1>7, <2>5, <2>10, <2>11, TakenPlace
  <2>12. m[a] = mem[b]
    BY <1>6, <2>5, <2>8, <2>9
  <2> QED  BY <1>2, <1>7, <2>7, <2>12 DEF uv, y
<1> QED  BY <1>8

\* What Screen says of a copy between the pages s and p.
ScreenCopy(s, p, v) ==
  Scr!Shift(s, p, v) \/ (s = p /\ v # 0 /\ 2 * v \in 1 - H .. H - 1 /\ Scr!Smear(p, v))

LEMMA RowsAreCopied ==
  ASSUME NEW p \in Pages, NEW s \in Pages, NEW v, NEW first, NEW n, NEW way,
         RowsCopied(mem', p, s, v, first, n, way),
         mem' \in PageMemory, n <= H - v, n <= H + v
  PROVE  ScreenCopy(s, p, v)
<1>1. v \in 1 - H .. H - 1 /\ v \in Int /\ n \in Nat
  BY Sizes DEF RowsCopied
<1>2. CASE Apart(p, s, v, n)
  <2>1. CopiedFrom(mem', p, s, v)
    BY <1>2, CopiedRows
  <2> QED  BY <1>1, <2>1, ShiftIsStep DEF ScreenCopy
<1>3. CASE ~ Apart(p, s, v, n)
  <2>1. s = p /\ v # 0 /\ 2 * v \in 1 - H .. H - 1
    BY <1>1, <1>3, Sizes DEF Apart
  <2>2. \A q \in Pages, xy \in PagePixels :
          ~ Target(p, v, q, xy) => PixelOf(mem', q, xy) = PixelOf(mem, q, xy)
    BY CopiedElsewhere
  <2> QED  BY <1>1, <2>1, <2>2, SmearIsStep DEF ScreenCopy
<1> QED  BY <1>2, <1>3


LEMMA ScrollIsCopy ==
  ASSUME VideoInv, mem' \in PageMemory, NEW p \in Pages, NEW s \in Pages,
         NEW v \in 1 - H .. H - 1, NEW way \in Ways,
         mem' = Scrolled(PagePtrs[p], PagePtrs[s], v, way)
  PROVE  ScreenCopy(s, p, v)
<1>1. H \in Nat /\ PITCH \in Nat /\ v \in Int /\ PagePtrs[p] \in Nat /\ PagePtrs[s] \in Nat
  BY Sizes, PtrsApart
<1>2. CASE v < 0
  <2>1. v \in 1 - H .. -1 /\ v \notin 0 .. H - 1
    BY <1>1, <1>2
  <2>2. mem' = Copied(PagePtrs[p], PagePtrs[s] - v * PITCH, (H + v) * PITCH, way)
    BY <2>1 DEF Scrolled
  <2>3. /\ PagePtrs[p] + 0 * PITCH = PagePtrs[p]
        /\ PagePtrs[s] + (0 - v) * PITCH = PagePtrs[s] - v * PITCH
    BY <1>1
  <2>4. \A y \in 0 .. H - 1 : y - v \in 0 .. H - 1 <=> y \in 0 .. 0 + (H + v) - 1
    BY <1>1, <1>2
  <2>5. 0 \in Nat /\ H + v \in Nat /\ 0 + (H + v) <= H /\ 0 - v \in Nat /\ 0 - v + (H + v) <= H
    BY <1>1, <1>2
  <2>6. RowsCopied(mem', p, s, v, 0, H + v, way)
    BY <2>2, <2>3, <2>4, <2>5 DEF RowsCopied
  <2>7. H + v \in Nat /\ H + v <= H - v /\ H + v <= H + v
    BY <1>1, <1>2, <2>5
  <2> QED  BY <2>6, <2>7, RowsAreCopied
<1>3. CASE v >= 0
  <2>1. v \in 0 .. H - 1 /\ v \notin 1 - H .. -1
    BY <1>1, <1>3
  <2>2. mem' = Copied(PagePtrs[p] + v * PITCH, PagePtrs[s], (H - v) * PITCH, way)
    BY <2>1 DEF Scrolled
  <2>3. PagePtrs[s] + (v - v) * PITCH = PagePtrs[s]
    BY <1>1
  <2>4. \A y \in 0 .. H - 1 : y - v \in 0 .. H - 1 <=> y \in v .. v + (H - v) - 1
    BY <1>1, <1>3
  <2>5. v \in Nat /\ H - v \in Nat /\ v + (H - v) <= H /\ v - v \in Nat /\ v - v + (H - v) <= H
    BY <1>1, <1>3
  <2>6. RowsCopied(mem', p, s, v, v, H - v, way)
    BY <2>2, <2>3, <2>4, <2>5 DEF RowsCopied
  <2>7. H - v <= H - v /\ H - v <= H + v
    BY <1>1, <1>3
  <2> QED  BY <2>6, <2>7, RowsAreCopied
<1> QED  BY <1>1, <1>2, <1>3

LEMMA WholeIsCopy ==
  ASSUME VideoInv, mem' \in PageMemory, NEW p \in Pages, NEW s \in Pages, NEW way \in Ways,
         mem' = Copied(PagePtrs[p], PagePtrs[s], VID_PAGE_SIZE, way)
  PROVE  Scr!Shift(s, p, 0)
<1>1. 0 \in 1 - H .. H - 1 /\ H \in Nat \ {0} /\ PITCH \in Nat /\ VID_PAGE_SIZE = H * PITCH
  BY Sizes, SizeAssumption
<1>2. PagePtrs[p] + 0 * PITCH = PagePtrs[p] /\ PagePtrs[s] + (0 - 0) * PITCH = PagePtrs[s]
  BY <1>1, PtrsApart
<1>3. RowsCopied(mem', p, s, 0, 0, H, way)
  BY <1>1, <1>2 DEF RowsCopied
<1>4. Apart(p, s, 0, H)
  BY DEF Apart
<1>5. CopiedFrom(mem', p, s, 0)
  BY <1>3, <1>4, CopiedRows
<1> QED  BY <1>5, ShiftIsStep

\* What the byte means that says what to copy.
LEMMA SourceIs ==
  ASSUME VideoInv, NEW src \in 0 .. 255
  PROVE  /\ AsksForScroll(src) <=> Scr!Scrolls(src)
         /\ Scr!SourceOf(src) \in Pages
         /\ AsksForScroll(src) =>
              PagePtr(WithoutBit6(src) % 4) = PagePtrs[Scr!SourceOf(src)]
         /\ ~ AsksForScroll(src) =>
              PagePtr(IF src >= FRONT THEN src ELSE WithoutBit6(src))
                = PagePtrs[Scr!SourceOf(src)]
<1>1. src \in Int /\ src >= 0 /\ src <= 255 /\ FRONT = 254
  BY DEF FRONT
<1>2. /\ src < 64 => src \div 64 = 0
      /\ src >= 64 /\ src < 128 => src \div 64 = 1
      /\ src >= 128 /\ src < 192 => src \div 64 = 2
      /\ src >= 192 => src \div 64 = 3
  BY <1>1
<1>3. WithoutBit6(src) = IF src \in 64 .. 127 \cup 192 .. 255 THEN src - 64 ELSE src
  BY <1>1, <1>2 DEF WithoutBit6
<1>4. AsksForScroll(src) <=> Scr!Scrolls(src)
  BY <1>1, <1>3 DEF AsksForScroll, Scr!Scrolls
<1>5. CASE AsksForScroll(src)
  <2>1. Scr!SourceOf(src) = src % 4
    <3>1. Scr!Scrolls(src) /\ ~ src < 128
      BY <1>1, <1>4, <1>5 DEF Scr!Scrolls
    <3> QED  BY <3>1 DEF Scr!SourceOf
  <2>2. WithoutBit6(src) % 4 = src % 4 /\ src % 4 \in Pages
    BY <1>1, <1>3 DEF Pages
  <2>3. PagePtr(WithoutBit6(src) % 4) = PagePtrs[src % 4]
    BY <2>2 DEF PagePtr, Pages, FRONT, BACK
  <2> QED  BY <1>4, <1>5, <2>1, <2>2, <2>3
<1>6. CASE ~ AsksForScroll(src)
  <2>1. src < 128 \/ src >= FRONT
    BY <1>1, <1>4, <1>6 DEF Scr!Scrolls
  <2>2. CASE src < 128
    <3>1. WithoutBit6(src) = src % 64 /\ ~ src >= FRONT
      BY <1>1, <1>3, <2>2
    <3>2. Scr!SourceOf(src) = Scr!Named(src % 64)
      BY <1>4, <1>6, <2>2 DEF Scr!SourceOf
    <3> QED  BY <1>4, <1>6, <3>1, <3>2, NamedPage
  <2>3. CASE src >= FRONT
    <3>1. Scr!SourceOf(src) = Scr!Named(src)
      BY <1>1, <1>4, <1>6, <2>3 DEF Scr!SourceOf
    <3> QED  BY <1>4, <1>6, <2>3, <3>1, NamedPage
  <2> QED  BY <2>1, <2>2, <2>3
<1> QED  BY <1>5, <1>6

LEMMA CopyIsStep == ASSUME VideoInv, VideoInv', CopyPage  PROVE Scr!Copy
<1>1. PICK src \in Sources, dst \in PageIds, way \in Ways :
      \E v \in IF AsksForScroll(src) THEN -H .. H ELSE {0} :
        /\ mem' = CopiedPage(src, dst, v, way)
        /\ drawn' = [do |-> "copy", from |-> src, to |-> dst, scroll |-> v]
  BY DEF CopyPage
<1>2. PICK v \in IF AsksForScroll(src) THEN -H .. H ELSE {0} :
        /\ mem' = CopiedPage(src, dst, v, way)
        /\ drawn' = [do |-> "copy", from |-> src, to |-> dst, scroll |-> v]
  BY <1>1
<1>3. drawn'.do = "copy" /\ drawn'.from = src /\ drawn'.to = dst /\ drawn'.scroll = v
  BY <1>2
<1>4. src \in 0 .. 255 /\ mem' \in PageMemory /\ v \in Int /\ H \in Nat \ {0}
  BY SizeAssumption, Sizes DEF VideoInv
<1> DEFINE s == Scr!SourceOf(src)
           p == Scr!Named(dst)
           u == IF Scr!Scrolls(src) THEN v ELSE 0
           Right == IF src = dst \/ u \notin 1 - H .. H - 1 THEN UNCHANGED Page
                    ELSE ScreenCopy(s, p, u)
<1>5. p \in Pages /\ PagePtr(dst) = PagePtrs[p] /\ s \in Pages
  BY <1>4, NamedPage, SourceIs
<1>6. ASSUME src = dst  PROVE Right
  <2>1. Page' = Page
    BY <1>2, <1>6, SameMemory DEF CopiedPage
  <2> QED  BY <2>1, <1>6
<1>7. ASSUME src # dst /\ AsksForScroll(src)  PROVE Right
  <2>1. PagePtr(WithoutBit6(src) % 4) = PagePtrs[s] /\ u = v
    BY <1>4, <1>7, SourceIs
  <2>2. mem' = Scrolled(PagePtrs[p], PagePtrs[s], v, way)
    BY <1>2, <1>5, <1>7, <2>1 DEF CopiedPage
  <2>3. CASE v \notin 1 - H .. H - 1
    <3>1. v \notin 1 - H .. -1 /\ v \notin 0 .. H - 1
      BY <1>4, <2>3
    <3>2. mem' = mem
      BY <2>2, <2>3, <3>1 DEF Scrolled
    <3> QED  BY <2>1, <2>3, <3>2, SameMemory
  <2>4. CASE v \in 1 - H .. H - 1
    <3> HIDE DEF s, p
    <3>1. ScreenCopy(s, p, v)
      BY <1>4, <1>5, <2>2, <2>4, ScrollIsCopy
    <3> QED  BY <1>7, <2>1, <2>4, <3>1
  <2> HIDE DEF s, p, u
  <2> QED  BY <2>3, <2>4
<1>8. ASSUME src # dst /\ ~ AsksForScroll(src)  PROVE Right
  <2>1. /\ PagePtr(IF src >= FRONT THEN src ELSE WithoutBit6(src)) = PagePtrs[s]
        /\ u = 0
    BY <1>4, <1>8, SourceIs
  <2>2. mem' = Copied(PagePtrs[p], PagePtrs[s], VID_PAGE_SIZE, way)
    BY <1>2, <1>5, <1>8, <2>1 DEF CopiedPage
  <2>3. Scr!Shift(s, p, 0)
    <3> HIDE DEF s, p
    <3> QED  BY <1>4, <1>5, <2>2, WholeIsCopy
  <2>4. 0 \in 1 - H .. H - 1
    BY <1>4
  <2> HIDE DEF s, p, u
  <2> QED  BY <1>8, <2>1, <2>3, <2>4 DEF ScreenCopy
<1>9. Right
  BY <1>6, <1>7, <1>8
<1>10. UNCHANGED <<ptrVars, hliney>>
  BY DEF CopyPage, shapeVars
<1>11. UNCHANGED Scr!turned
  BY <1>10, SameTurned
<1> QED  BY <1>3, <1>9, <1>10, <1>11 DEF Scr!Copy, ScreenCopy
-----------------------------------------------------------------------------
(* Pictures.                                                               *)

\* The pixels of a byte of page 0 are neighbours in a group of a picture.
LEMMA GroupPixels ==
  ASSUME NEW a \in Nat, NEW h \in {0, 1}, NEW g \in Nat, g > 0
  PROVE  (2 * a + h) \div (2 * g) = a \div g /\ (2 * a + h) % (2 * g) = 2 * (a % g) + h
<1> DEFINE q == a \div g
           r == a % g
<1>1. q \in Nat /\ r \in Nat /\ r < g /\ a = g * q + r
  OBVIOUS
<1> HIDE DEF q, r
<1>2. g * q \in Nat
  BY <1>1
<1>3. 2 * a + h = (2 * g) * q + (2 * r + h) /\ 2 * r + h \in Nat /\ 2 * r + h < 2 * g
  <2>1. (2 * g) * q = 2 * (g * q)
    BY <1>1
  <2> QED  BY <1>1, <1>2, <2>1
<1> DEFINE n == 2 * g
           t == 2 * r + h
<1>4. n \in Nat /\ n > 0 /\ t \in Nat /\ t < n /\ 2 * a + h = n * q + t
  BY <1>3
<1> HIDE DEF n, t
<1>5. (n * q + t) \div n = q /\ (n * q + t) % n = t
  <2> DEFINE u == n * q + t
             k == u \div n
             c == u % n
  <2>1. u \in Nat
    BY <1>1, <1>4
  <2> HIDE DEF u
  <2>2. k \in Nat /\ c \in Nat /\ c < n /\ u = n * k + c
    BY <1>4, <2>1
  <2> HIDE DEF k, c
  <2>3. k * n + c = q * n + t
    BY <1>1, <1>4, <2>2 DEF u
  <2>4. k = q /\ c = t
    BY <1>1, <1>4, <2>2, <2>3, RowColumn
  <2> QED  BY <2>4 DEF u, k, c
<1> QED  BY <1>4, <1>5 DEF n, t, q, r

\* What the planes say of the pixel at i of a group.
Number(src, grp, i) ==
  src[0][grp][i] + 2 * src[1][grp][i] + 4 * src[2][grp][i] + 8 * src[3][grp][i]

LEMMA HalfPlanes ==
  ASSUME NEW src \in Pictures, NEW grp \in 0 .. (W * H) \div Group - 1,
         NEW j \in 0 .. Group \div 2 - 1, NEW h \in {0, 1}
  PROVE  Interleaved(src, grp, j)[1 + h] = Number(src, grp, 2 * j + h + 1)
<1> DEFINE Bit(i) == src[3 - (i % 4)][grp][2 * j + (i \div 4) + 1]
           Half(i) == 8 * Bit(i) + 4 * Bit(i + 1) + 2 * Bit(i + 2) + Bit(i + 3)
           k == 2 * j + h + 1
<1>1. Interleaved(src, grp, j) = <<Half(0), Half(4)>>
  BY DEF Interleaved
<1>2. Group \in Nat /\ Group > 0 /\ Group % 2 = 0 /\ j \in Nat
  BY SizeAssumption
<1>3. k \in 1 .. Group
  BY <1>2
<1>4. \A plane \in 0 .. 3 : src[plane][grp][k] \in {0, 1}
  <2>1. src \in [0 .. 3 -> [0 .. (W * H) \div Group - 1 -> [1 .. Group -> {0, 1}]]]
    BY SizeAssumption
  <2> HIDE DEF k
  <2>2. ASSUME NEW plane \in 0 .. 3  PROVE src[plane][grp][k] \in {0, 1}
    <3>1. src[plane] \in [0 .. (W * H) \div Group - 1 -> [1 .. Group -> {0, 1}]]
      BY <2>1
    <3>2. src[plane][grp] \in [1 .. Group -> {0, 1}]
      BY <3>1
    <3> QED  BY <1>3, <3>2
  <2> QED  BY <2>2
<1>5. src[0][grp][k] \in Int /\ src[1][grp][k] \in Int /\ src[2][grp][k] \in Int
      /\ src[3][grp][k] \in Int
  BY <1>4
<1>6. CASE h = 0
  <2>1. /\ 3 - (0 % 4) = 3 /\ 3 - ((0 + 1) % 4) = 2 /\ 3 - ((0 + 2) % 4) = 1
        /\ 3 - ((0 + 3) % 4) = 0
        /\ 2 * j + (0 \div 4) + 1 = k /\ 2 * j + ((0 + 1) \div 4) + 1 = k
        /\ 2 * j + ((0 + 2) \div 4) + 1 = k /\ 2 * j + ((0 + 3) \div 4) + 1 = k
    BY <1>2, <1>6
  <2> HIDE DEF k
  <2>2. Half(0) = 8 * src[3][grp][k] + 4 * src[2][grp][k] + 2 * src[1][grp][k] + src[0][grp][k]
    BY <2>1
  <2> DEFINE b0 == src[0][grp][k]
             b1 == src[1][grp][k]
             b2 == src[2][grp][k]
             b3 == src[3][grp][k]
  <2>3. b0 \in Int /\ b1 \in Int /\ b2 \in Int /\ b3 \in Int
    BY <1>5
  <2> HIDE DEF b0, b1, b2, b3
  <2>4. 8 * b3 + 4 * b2 + 2 * b1 + b0 = b0 + 2 * b1 + 4 * b2 + 8 * b3
    BY <2>3
  <2>5. Half(0) = Number(src, grp, k)
    BY <2>2, <2>4 DEF b0, b1, b2, b3, Number
  <2> HIDE DEF Half
  <2>6. Interleaved(src, grp, j)[1 + h] = Half(0)
    BY <1>1, <1>6
  <2> QED  BY <2>5, <2>6 DEF k
<1>7. CASE h = 1
  <2>1. /\ 3 - (4 % 4) = 3 /\ 3 - ((4 + 1) % 4) = 2 /\ 3 - ((4 + 2) % 4) = 1
        /\ 3 - ((4 + 3) % 4) = 0
        /\ 2 * j + (4 \div 4) + 1 = k /\ 2 * j + ((4 + 1) \div 4) + 1 = k
        /\ 2 * j + ((4 + 2) \div 4) + 1 = k /\ 2 * j + ((4 + 3) \div 4) + 1 = k
    BY <1>2, <1>7
  <2> HIDE DEF k
  <2>2. Half(4) = 8 * src[3][grp][k] + 4 * src[2][grp][k] + 2 * src[1][grp][k] + src[0][grp][k]
    BY <2>1
  <2> DEFINE b0 == src[0][grp][k]
             b1 == src[1][grp][k]
             b2 == src[2][grp][k]
             b3 == src[3][grp][k]
  <2>3. b0 \in Int /\ b1 \in Int /\ b2 \in Int /\ b3 \in Int
    BY <1>5
  <2> HIDE DEF b0, b1, b2, b3
  <2>4. 8 * b3 + 4 * b2 + 2 * b1 + b0 = b0 + 2 * b1 + 4 * b2 + 8 * b3
    BY <2>3
  <2>5. Half(4) = Number(src, grp, k)
    BY <2>2, <2>4 DEF b0, b1, b2, b3, Number
  <2> HIDE DEF Half
  <2>6. Interleaved(src, grp, j)[1 + h] = Half(4)
    BY <1>1, <1>7
  <2> QED  BY <2>5, <2>6 DEF k
<1> QED  BY <1>6, <1>7

LEMMA PictureIsStep == ASSUME VideoInv, CopyPagePtr  PROVE Scr!Load
<1>1. PICK src \in Pictures :
        /\ mem' = [a \in Memory |->
                     IF a < VID_PAGE_SIZE
                     THEN Interleaved(src, a \div (Group \div 2), a % (Group \div 2))
                     ELSE mem[a]]
        /\ drawn' = [do |-> "load", picture |-> Pixels(src)]
  BY DEF CopyPagePtr
<1>0. 0 \in Pages /\ PagePtrs[0] = 0
  BY Sizes DEF Pages, PagePtrs
<1>2. ASSUME NEW xy \in PagePixels  PROVE PixelOf(mem', 0, xy) = Pixels(src)[xy]
  <2> DEFINE a == Offset(xy)
             h == xy[1] % 2
             g == Group \div 2
             n == xy[2] * W + xy[1]
             grp == a \div g
             j == a % g
  <2>1. /\ a \in 0 .. VID_PAGE_SIZE - 1 /\ a \in Nat /\ a < VID_PAGE_SIZE /\ a \in Memory
        /\ h \in {0, 1}
    <3>1. a \in 0 .. VID_PAGE_SIZE - 1 /\ 0 + a \in Memory /\ xy[1] \in Nat
      BY <1>0, PixelIs, PixelPlace
    <3> HIDE DEF a
    <3> QED  BY <3>1, Sizes
  <2>2. PixelOf(mem', 0, xy) = mem'[a][1 + h]
    <3>1. PagePtrs[0] + a = a
      BY <1>0, <2>1
    <3> QED  BY <1>0, <3>1, PixelIs
  <2>3. mem'[a] = Interleaved(src, grp, j)
    BY <1>1, <2>1
  <2>4. grp \in 0 .. (W * H) \div Group - 1 /\ j \in 0 .. g - 1
    <3> HIDE DEF a
    <3> QED  BY <2>1, GroupOf
  <2>5. n = 2 * a + h
    <3> DEFINE x == xy[1]
               y == xy[2]
    <3>1. x \in Nat /\ y \in Nat /\ a = y * PITCH + x \div 2
      BY PixelPlace DEF Offset
    <3> HIDE DEF x, y, a
    <3>2. y * W = 2 * (y * PITCH) /\ y * PITCH \in Nat
      BY <3>1, Sizes
    <3>3. x = 2 * (x \div 2) + (x % 2)
      BY <3>1
    <3>4. x \div 2 \in Nat /\ x % 2 \in Nat
      BY <3>1
    <3> DEFINE u == y * PITCH
    <3>5. u \in Nat /\ a = u + x \div 2 /\ y * W = 2 * u
      BY <3>1, <3>2
    <3> HIDE DEF u
    <3>6. y * W + x = 2 * a + (x % 2)
      BY <3>1, <3>3, <3>4, <3>5
    <3> QED  BY <3>6 DEF x, y
  <2>6. Group \in Nat /\ Group > 0 /\ Group = 2 * g /\ g \in Nat /\ g > 0
    BY SizeAssumption
  <2>7. n \div Group = grp /\ n % Group = 2 * j + h
    <3> HIDE DEF a, h, g, n
    <3>1. (2 * a + h) \div (2 * g) = a \div g /\ (2 * a + h) % (2 * g) = 2 * (a % g) + h
      BY <2>1, <2>6, GroupPixels
    <3> QED  BY <2>5, <2>6, <3>1
  <2>8. Pixels(src)[xy] = Number(src, n \div Group, (n % Group) + 1)
    BY DEF Pixels, Number, PagePixels
  <2> HIDE DEF a, h, g, n, grp, j
  <2>9. Interleaved(src, grp, j)[1 + h] = Number(src, grp, 2 * j + h + 1)
    BY <2>1, <2>4, HalfPlanes DEF g
  <2> QED  BY <2>2, <2>3, <2>7, <2>8, <2>9
<1>3. Page'[0] = Pixels(src)
  <2>1. Page'[0] = [xy \in PagePixels |-> PixelOf(mem', 0, xy)]
    BY <1>0, PageThen DEF Seen
  <2>2. Pixels(src) = [xy \in PagePixels |-> Pixels(src)[xy]]
    BY DEF Pixels, PagePixels
  <2> QED  BY <1>2, <2>1, <2>2
<1>5. ASSUME NEW q \in Pages \ {0}, NEW xy \in PagePixels
      PROVE  PixelOf(mem', q, xy) = PixelOf(mem, q, xy)
  <2> DEFINE a == PagePtrs[q] + Offset(xy)
  <2>2. /\ PixelOf(mem', q, xy) = mem'[a][1 + (xy[1] % 2)]
        /\ PixelOf(mem, q, xy) = mem[a][1 + (xy[1] % 2)]
        /\ a \in Memory /\ Offset(xy) \in 0 .. VID_PAGE_SIZE - 1
    BY PixelIs
  <2>3. ~ (a - 0 \in 0 .. VID_PAGE_SIZE - 1)
    BY <1>0, <2>2, InWhichPage
  <2> HIDE DEF a
  <2>4. ~ (a < VID_PAGE_SIZE)
    BY <2>2, <2>3, Sizes DEF Memory
  <2> QED  BY <1>1, <2>2, <2>4
<1>6. Page' = [Page EXCEPT ![0] = Pixels(src)]
  <2>1. ASSUME NEW q \in Pages \ {0}  PROVE Page'[q] = Page[q]
    <3>1. /\ Page[q] = [xy \in PagePixels |-> PixelOf(mem, q, xy)]
          /\ Page'[q] = [xy \in PagePixels |-> PixelOf(mem', q, xy)]
      BY PageNow, PageThen DEF Seen
    <3> QED  BY <1>5, <3>1
  <2>2. Page = [q \in Pages |-> Page[q]] /\ Page' = [q \in Pages |-> Page'[q]]
    BY PageNow, PageThen DEF Seen
  <2> QED  BY <1>3, <2>1, <2>2
<1>7. drawn'.do = "load" /\ drawn'.picture = Pixels(src)
  BY <1>1
<1>8. UNCHANGED <<ptrVars, hliney>>
  BY DEF CopyPagePtr, shapeVars
<1>9. UNCHANGED Scr!turned
  BY <1>8, SameTurned
<1> QED  BY <1>6, <1>7, <1>8, <1>9 DEF Scr!Load

-----------------------------------------------------------------------------
(* Lines and points.                                                       *)

\* Half a byte, w whole bytes and half a byte are the pixels from x1 to x2.
LEMMA SpanBytes ==
  ASSUME NEW x1 \in Nat, NEW x2 \in Nat, x1 <= x2,
         NEW s, s = (IF x1 % 2 = 1 THEN 1 ELSE 0),
         NEW e, e = (IF x2 % 2 = 0 THEN 1 ELSE 0),
         NEW w, w = x2 \div 2 - x1 \div 2 + 1 - s - e,
         NEW c \in Int
  PROVE  LET l == x1 \div 2
             whole == c \in l + s .. l + s + w - 1
         IN  /\ whole \/ (e = 1 /\ c = l + s + w) <=> 2 * c \in x1 .. x2
             /\ whole \/ (s = 1 /\ c = l) <=> 2 * c + 1 \in x1 .. x2
<1> DEFINE l == x1 \div 2
           r == x2 \div 2
           t == x1 % 2
           u == x2 % 2
<1>1. /\ x1 = 2 * l + t /\ t \in {0, 1} /\ l \in Nat
      /\ x2 = 2 * r + u /\ u \in {0, 1} /\ r \in Nat
  OBVIOUS
<1>2. s = t /\ e = 1 - u
  BY <1>1
<1>5. w = r - l + 1 - s - e
  OBVIOUS
<1> HIDE DEF l, r, t, u
<1>6. c \in l + s .. l + s + w - 1 <=> l + s <= c /\ c <= r - e
  BY <1>1, <1>2, <1>5
<1>7. c \in l + s .. l + s + w - 1 \/ (e = 1 /\ c = l + s + w) <=> 2 * c \in x1 .. x2
  BY <1>1, <1>2, <1>5, <1>6
<1>8. c \in l + s .. l + s + w - 1 \/ (s = 1 /\ c = l) <=> 2 * c + 1 \in x1 .. x2
  BY <1>1, <1>2, <1>5, <1>6
<1> QED  BY <1>7, <1>8 DEF l

\* There are at most 255 of them when the line has at most 510 pixels.
LEMMA SpanCount ==
  ASSUME NEW x1 \in Nat, NEW x2 \in Nat, x1 <= x2, x2 < 510,
         NEW s, s = (IF x1 % 2 = 1 THEN 1 ELSE 0),
         NEW e, e = (IF x2 % 2 = 0 THEN 1 ELSE 0)
  PROVE  x2 \div 2 - x1 \div 2 + 1 - s - e \in 0 .. 255
<1> DEFINE l == x1 \div 2
           r == x2 \div 2
           t == x1 % 2
           u == x2 % 2
<1>1. /\ x1 = 2 * l + t /\ t \in {0, 1} /\ l \in Nat
      /\ x2 = 2 * r + u /\ u \in {0, 1} /\ r \in Nat
  OBVIOUS
<1>2. s = t /\ e = 1 - u
  BY <1>1
<1> HIDE DEF l, r, t, u
<1>3. r - l + 1 - s - e \in 0 .. 255
  BY <1>1, <1>2
<1> QED  BY <1>3 DEF l, r

\* The pixels of a row.
RowPixels(x1, x2, y) == {xy \in PagePixels : xy[2] = y /\ xy[1] \in x1 .. x2}

\* The bytes of page q that hold the pixels of a row of page p.
LEMMA InRow ==
  ASSUME NEW p \in Pages, NEW q \in Pages, NEW xy \in PagePixels, NEW y \in 0 .. H - 1,
         NEW x1 \in 0 .. W - 1, NEW x2 \in 0 .. W - 1,
         NEW c, c = (PagePtrs[q] + Offset(xy)) - (PagePtrs[p] + y * PITCH)
  PROVE  /\ c \in Int
         /\ 2 * c + (xy[1] % 2) \in x1 .. x2 <=> q = p /\ xy \in RowPixels(x1, x2, y)
<1> DEFINE x == xy[1]
           d == x \div 2
           t == x % 2
           u == y * PITCH
<1>1. /\ x \in Nat /\ x < W /\ d \in Nat /\ d < PITCH /\ t \in {0, 1} /\ x = 2 * d + t
      /\ Offset(xy) = xy[2] * PITCH + d /\ Offset(xy) \in Nat
  <2>1. x \in Nat /\ x < W /\ d \in Nat /\ d < PITCH /\ Offset(xy) \in 0 .. VID_PAGE_SIZE - 1
    BY PixelPlace
  <2>2. Offset(xy) = xy[2] * PITCH + d
    BY DEF Offset
  <2>3. Offset(xy) \in Nat
    BY <2>1, Sizes
  <2>4. x = 2 * d + t /\ t \in {0, 1}
    <3> HIDE DEF x
    <3> QED  BY <2>1
  <2> QED  BY <2>1, <2>2, <2>3, <2>4
<1>2. u \in Nat /\ PagePtrs[p] \in Nat /\ PagePtrs[q] \in Nat
  BY PixelIs, Sizes
<1>3. c \in Int
  <2> HIDE DEF u
  <2>1. c = (PagePtrs[q] + Offset(xy)) - (PagePtrs[p] + u)
    BY DEF u
  <2> QED  BY <1>1, <1>2, <2>1
<1>4. ASSUME 2 * c + t \in x1 .. x2  PROVE q = p /\ xy \in RowPixels(x1, x2, y)
  <2>1. c \in Nat /\ c < PITCH
    BY <1>1, <1>3, <1>4, Sizes
  <2>2. PagePtrs[q] + Offset(xy) = PagePtrs[p] + (u + c)
    <3> HIDE DEF u
    <3>1. c = (PagePtrs[q] + Offset(xy)) - (PagePtrs[p] + u)
      BY DEF u
    <3> QED  BY <1>1, <1>2, <1>3, <3>1
  <2>3. y \in Nat /\ y < H
    BY Sizes
  <2>4. q = p /\ xy[2] = y /\ d = c
    BY <2>1, <2>2, <2>3, PixelAt
  <2>5. x \in x1 .. x2
    BY <1>1, <1>4, <2>4
  <2> QED  BY <2>4, <2>5 DEF RowPixels
<1>5. ASSUME q = p, xy \in RowPixels(x1, x2, y)  PROVE 2 * c + t \in x1 .. x2
  <2>1. xy[2] = y /\ x \in x1 .. x2
    BY <1>5 DEF RowPixels
  <2>2. Offset(xy) = u + d
    BY <1>1, <2>1
  <2>3. c = d
    <3> HIDE DEF u, d
    <3>1. c = (PagePtrs[p] + (u + d)) - (PagePtrs[p] + u)
      BY <1>5, <2>2 DEF u
    <3> QED  BY <1>1, <1>2, <3>1
  <2> QED  BY <1>1, <2>1, <2>3
<1> QED  BY <1>3, <1>4, <1>5

\* What half a byte becomes is what the pixel does that it holds.
LEMMA InkedPixel ==
  ASSUME NEW p \in Pages, curPagePtr1 = PagePtrs[p], NEW xy \in PagePixels, NEW ink
  PROVE  Inked(ink, PagePtrs[p] + Offset(xy), 1 + (xy[1] % 2)) = Ink2(p, xy, ink)
<1> DEFINE a == PagePtrs[p] + Offset(xy)
           half == 1 + (xy[1] % 2)
<1>1. PixelOf(mem, p, xy) = mem[a][half]
  BY PixelIs
<1>2. PixelOf(mem, 0, xy) = mem[a - curPagePtr1][half]
  <2>1. 0 \in Pages /\ PagePtrs[0] = 0
    BY Sizes DEF Pages, PagePtrs
  <2>2. PagePtrs[p] \in Nat /\ Offset(xy) \in Nat
    BY PixelIs, PixelPlace, Sizes
  <2>3. a - curPagePtr1 = PagePtrs[0] + Offset(xy)
    BY <2>1, <2>2
  <2> QED  BY <2>1, <2>3, PixelIs
<1> HIDE DEF a, half
<1>3. Inked(ink, a, half) = Ink2(p, xy, ink)
  BY <1>1, <1>2 DEF Inked, Ink2
<1> QED  BY <1>3 DEF a, half

LEMMA LineIsPainted ==
  ASSUME W <= 510, NEW p \in Pages, curPagePtr1 = PagePtrs[p], hliney \in 0 .. H - 1,
         NEW xa \in 0 .. W - 1, NEW xb \in 0 .. W - 1, NEW ink
  PROVE  Painted(Line(xa, xb, ink), p,
                 RowPixels(IF xa > xb THEN xb ELSE xa, IF xa > xb THEN xa ELSE xb, hliney), ink)
<1> DEFINE xmax == IF xa > xb THEN xa ELSE xb
           xmin == IF xa > xb THEN xb ELSE xa
           l == xmin \div 2
           ptr == curPagePtr1 + hliney * PITCH + l
           s == IF xmin % 2 = 1 THEN 1 ELSE 0
           e == IF xmax % 2 = 0 THEN 1 ELSE 0
           w == (xmax \div 2 - xmin \div 2 + 1 - s - e) % Counts(ink)
           left(a) == a \in ptr + s .. ptr + s + w - 1 \/ (e = 1 /\ a = ptr + s + w)
           right(a) == a \in ptr + s .. ptr + s + w - 1 \/ (s = 1 /\ a = ptr)
           region == RowPixels(xmin, xmax, hliney)
           m == Line(xa, xb, ink)
<1>1. m = [a \in Memory |-> << IF left(a) THEN Inked(ink, a, 1) ELSE mem[a][1],
                               IF right(a) THEN Inked(ink, a, 2) ELSE mem[a][2] >>]
  BY DEF Line
<1>2. /\ xmin \in 0 .. W - 1 /\ xmax \in 0 .. W - 1 /\ xmin <= xmax
  BY Sizes
<1>4. /\ xmin \in Nat /\ xmax \in Nat /\ xmax < 510 /\ l \in Nat
      /\ s \in {0, 1} /\ e \in {0, 1}
  <2> HIDE DEF xmin, xmax
  <2> QED  BY <1>2, Sizes
<1>5. w = xmax \div 2 - xmin \div 2 + 1 - s - e /\ w \in Nat
  <2> DEFINE d == xmax \div 2 - xmin \div 2 + 1 - s - e
  <2>1. d \in 0 .. 255
    <3>1. s = (IF xmin % 2 = 1 THEN 1 ELSE 0) /\ e = (IF xmax % 2 = 0 THEN 1 ELSE 0)
      OBVIOUS
    <3> HIDE DEF xmin, xmax, s, e
    <3> QED  BY <1>2, <1>4, <3>1, SpanCount
  <2> HIDE DEF d
  <2>2. d % Counts(ink) = d /\ d \in Nat
    BY <2>1, CountType
  <2> QED  BY <2>2 DEF d
<1>6. ASSUME NEW q \in Pages, NEW xy \in PagePixels
      PROVE  PixelOf(m, q, xy) = IF q = p /\ xy \in region THEN Ink2(p, xy, ink)
                                 ELSE PixelOf(mem, q, xy)
  <2> DEFINE a == PagePtrs[q] + Offset(xy)
             h == xy[1] % 2
             c == a - (PagePtrs[p] + hliney * PITCH)
  <2>1. /\ PixelOf(m, q, xy) = m[a][1 + h] /\ PixelOf(mem, q, xy) = mem[a][1 + h]
        /\ a \in Memory /\ a \in Nat /\ h \in {0, 1}
    <3>1. /\ PixelOf(m, q, xy) = m[a][1 + h] /\ PixelOf(mem, q, xy) = mem[a][1 + h]
          /\ a \in Memory
      BY PixelIs
    <3>2. h \in {0, 1}
      BY PixelPlace
    <3> HIDE DEF a
    <3> QED  BY <3>1, <3>2, Sizes DEF Memory
  <2>2. c \in Int /\ (2 * c + h \in xmin .. xmax <=> q = p /\ xy \in region)
    <3>1. c = (PagePtrs[q] + Offset(xy)) - (PagePtrs[p] + hliney * PITCH) /\ hliney \in 0 .. H - 1
      OBVIOUS
    <3> HIDE DEF xmin, xmax, c
    <3> QED  BY <1>2, <3>1, InRow
  <2>3. /\ c \in l + s .. l + s + w - 1 \/ (e = 1 /\ c = l + s + w) <=> 2 * c \in xmin .. xmax
        /\ c \in l + s .. l + s + w - 1 \/ (s = 1 /\ c = l) <=> 2 * c + 1 \in xmin .. xmax
    <3>1. s = (IF xmin % 2 = 1 THEN 1 ELSE 0) /\ e = (IF xmax % 2 = 0 THEN 1 ELSE 0)
      OBVIOUS
    <3> HIDE DEF xmin, xmax, c, s, e, w
    <3> QED  BY <1>2, <1>4, <1>5, <2>2, <3>1, SpanBytes
  <2>4. /\ a \in ptr + s .. ptr + s + w - 1 <=> c \in l + s .. l + s + w - 1
        /\ a = ptr + s + w <=> c = l + s + w
        /\ a = ptr <=> c = l
    <3> DEFINE b == PagePtrs[p] + hliney * PITCH
    <3>1. b \in Nat
      <4>1. PagePtrs[p] \in Nat /\ hliney * PITCH \in Nat
        BY PageStart, Sizes
      <4> QED  BY <4>1
    <3>2. c = a - b /\ ptr = b + l
      <4>1. PagePtrs[p] \in Nat /\ hliney * PITCH \in Nat
        BY PageStart, Sizes
      <4> HIDE DEF l
      <4> QED  BY <1>4, <4>1
    <3> HIDE DEF b, c, ptr, l, s, w, a
    <3> QED  BY <1>4, <1>5, <2>1, <3>1, <3>2
  <2>5. (left(a) <=> 2 * c \in xmin .. xmax) /\ (right(a) <=> 2 * c + 1 \in xmin .. xmax)
    <3> HIDE DEF a, c, ptr, l, s, e, w, xmin, xmax
    <3> QED  BY <2>3, <2>4
  <2>6. q = p => Inked(ink, a, 1 + h) = Ink2(p, xy, ink)
    BY InkedPixel
  <2> HIDE DEF left, right, region, xmin, xmax, c, a, m
  <2>7. CASE h = 0
    <3>1. m[a][1 + h] = IF left(a) THEN Inked(ink, a, 1) ELSE mem[a][1]
      BY <1>1, <2>1, <2>7
    <3>2. left(a) <=> q = p /\ xy \in region
      BY <2>2, <2>5, <2>7
    <3> QED  BY <2>1, <2>6, <2>7, <3>1, <3>2
  <2>8. CASE h = 1
    <3>1. m[a][1 + h] = IF right(a) THEN Inked(ink, a, 2) ELSE mem[a][2]
      BY <1>1, <2>1, <2>8
    <3>2. right(a) <=> q = p /\ xy \in region
      BY <2>2, <2>5, <2>8
    <3> QED  BY <2>1, <2>6, <2>8, <3>1, <3>2
  <2> QED  BY <2>1, <2>7, <2>8
<1> HIDE DEF m, region
<1>7. Painted(m, p, region, ink)
  BY <1>6 DEF Painted
<1> QED  BY <1>7 DEF m, region

LEMMA PointIsPainted ==
  ASSUME NEW p \in Pages, curPagePtr1 = PagePtrs[p], mem \in PageMemory,
         NEW x \in 0 .. W - 1, NEW y \in 0 .. H - 1, NEW ink
  PROVE  Painted(Point(ink, x, y), p, RowPixels(x, x, y), ink)
<1> DEFINE b == curPagePtr1 + y * PITCH + x \div 2
           g == IF x % 2 = 1 THEN 2 ELSE 1
           region == RowPixels(x, x, y)
           m == Point(ink, x, y)
<1>1. m = [mem EXCEPT ![b] = [mem[b] EXCEPT ![g] = Inked(ink, b, g)]]
  BY DEF Point
<1>3. x \in Nat /\ x \div 2 \in Nat /\ x = 2 * (x \div 2) + (g - 1) /\ g \in {1, 2}
  BY Sizes
<1>4. y * PITCH \in Nat /\ curPagePtr1 \in Nat /\ b \in Nat
  BY <1>3, PageStart, Sizes
<1>5. ASSUME NEW q \in Pages, NEW xy \in PagePixels
      PROVE  PixelOf(m, q, xy) = IF q = p /\ xy \in region THEN Ink2(p, xy, ink)
                                 ELSE PixelOf(mem, q, xy)
  <2> DEFINE a == PagePtrs[q] + Offset(xy)
             h == xy[1] % 2
             c == a - (PagePtrs[p] + y * PITCH)
  <2>1. /\ PixelOf(m, q, xy) = m[a][1 + h] /\ PixelOf(mem, q, xy) = mem[a][1 + h]
        /\ a \in Memory /\ h \in {0, 1}
    BY PixelIs, PixelPlace
  <2>2. c \in Int /\ (2 * c + h \in x .. x <=> q = p /\ xy \in region)
    <3>1. c = (PagePtrs[q] + Offset(xy)) - (PagePtrs[p] + y * PITCH)
      OBVIOUS
    <3> HIDE DEF c
    <3> QED  BY <3>1, InRow
  <2>3. a \in Nat
    <3> HIDE DEF a
    <3> QED  BY <2>1, Sizes DEF Memory
  <2>4. 2 * c + h \in x .. x <=> a = b /\ 1 + h = g
    <3> DEFINE u == y * PITCH
               k == x \div 2
    <3>1. /\ c = a - (curPagePtr1 + u) /\ b = curPagePtr1 + u + k
          /\ u \in Nat /\ curPagePtr1 \in Nat /\ k \in Nat /\ x = 2 * k + (g - 1)
      BY <1>3, <1>4
    <3>2. h \in {0, 1} /\ c \in Int /\ a \in Nat /\ g \in {1, 2} /\ x \in Nat
      BY <1>3, <2>1, <2>2, <2>3
    <3> HIDE DEF u, k, c, b, g, a, h
    <3>3. a = b <=> c = k
      BY <3>1, <3>2
    <3>4. 2 * c + h \in Int /\ (2 * c + h \in x .. x <=> 2 * c + h = x)
      BY <3>2
    <3>5. 2 * c + h = x <=> c = k /\ 1 + h = g
      <4>1. x = 2 * k + (g - 1) /\ k \in Int
        BY <3>1
      <4>2. CASE g = 1 /\ h = 0
        BY <3>2, <4>1, <4>2
      <4>3. CASE g = 1 /\ h = 1
        BY <3>2, <4>1, <4>3
      <4>4. CASE g = 2 /\ h = 0
        BY <3>2, <4>1, <4>4
      <4>5. CASE g = 2 /\ h = 1
        BY <3>2, <4>1, <4>5
      <4> QED  BY <3>2, <4>2, <4>3, <4>4, <4>5
    <3> QED  BY <3>3, <3>4, <3>5
  <2>5. q = p => Inked(ink, a, 1 + h) = Ink2(p, xy, ink)
    BY InkedPixel
  <2> HIDE DEF a, h, c, b, g, m, region
  <2>6. m[a][1 + h] = IF a = b /\ 1 + h = g THEN Inked(ink, a, 1 + h) ELSE mem[a][1 + h]
    <3>1. mem[a] \in Pair
      BY <2>1 DEF PageMemory
    <3>2. CASE a = b
      <4>1. m[a] = [mem[b] EXCEPT ![g] = Inked(ink, b, g)]
        BY <1>1, <2>1, <3>2 DEF PageMemory
      <4>2. mem[b] = <<mem[b][1], mem[b][2]>>
        BY <3>1, <3>2 DEF Pair
      <4> QED  BY <1>3, <2>1, <3>2, <4>1, <4>2
    <3>3. CASE a # b
      BY <1>1, <2>1, <3>3 DEF PageMemory
    <3> QED  BY <3>2, <3>3
  <2> QED  BY <2>1, <2>2, <2>4, <2>5, <2>6
<1> HIDE DEF m, region
<1>6. Painted(m, p, region, ink)
  BY <1>5 DEF Painted
<1> QED  BY <1>6 DEF m, region

LEMMA DrawnPage ==
  ASSUME VideoInv
  PROVE  PageOf(curPagePtr1) \in Pages /\ curPagePtr1 = PagePtrs[PageOf(curPagePtr1)]
BY PageOfPtr DEF VideoInv

\* What is left of a row between two edges when it is clipped.
LEMMA ClippedRow ==
  ASSUME NEW x1 \in Int, NEW x2 \in Int, x1 <= W - 1, x2 >= 0, NEW y,
         NEW xa, xa = (IF x1 < 0 THEN 0 ELSE x1),
         NEW xb, xb = (IF x2 > W - 1 THEN W - 1 ELSE x2)
  PROVE  /\ xa \in 0 .. W - 1 /\ xb \in 0 .. W - 1
         /\ RowPixels(IF xa > xb THEN xb ELSE xa, IF xa > xb THEN xa ELSE xb, y)
              = Scr!Span(x1, x2, y)
<1>1. W \in Nat /\ W > 0
  BY SizeAssumption
<1>2. xa \in 0 .. W - 1 /\ xb \in 0 .. W - 1
  BY <1>1
<1>3. \A x \in 0 .. W - 1 :
        x \in (IF xa > xb THEN xb ELSE xa) .. (IF xa > xb THEN xa ELSE xb)
          <=> x \in x1 .. x2 \/ (x \in x2 .. x1 /\ x1 < W /\ x2 >= 0)
  <2>1. SUFFICES ASSUME NEW x \in 0 .. W - 1
        PROVE  x \in (IF xa > xb THEN xb ELSE xa) .. (IF xa > xb THEN xa ELSE xb)
                 <=> x \in x1 .. x2 \/ (x \in x2 .. x1 /\ x1 < W /\ x2 >= 0)
    OBVIOUS
  <2>2. CASE x1 <= x2
    <3>1. ~ xa > xb
      BY <1>1, <2>2
    <3> QED  BY <1>1, <2>2, <3>1
  <2>3. CASE x1 > x2
    <3>1. xa = x1 /\ xb = x2 /\ xa > xb
      BY <1>1, <2>3
    <3> QED  BY <1>1, <2>3, <3>1
  <2> QED  BY <2>2, <2>3
<1>4. \A xy \in PagePixels : xy[1] \in 0 .. W - 1
  BY DEF PagePixels
<1> QED  BY <1>2, <1>3, <1>4 DEF RowPixels, Scr!Span, Scr!Pixels, PagePixels

\* No row is seen above the page, nor beside it.
LEMMA NoRow ==
  ASSUME NEW x1 \in Int, NEW x2 \in Int, NEW y \in Int, ~ (y >= 0 /\ x1 <= W - 1 /\ x2 >= 0)
  PROVE  Scr!Span(x1, x2, y) = {}
<1>1. W \in Nat
  BY SizeAssumption
<1>2. SUFFICES ASSUME NEW xy \in PagePixels, xy[2] = y,
                      xy[1] \in x1 .. x2 \/ (xy[1] \in x2 .. x1 /\ x1 < W /\ x2 >= 0)
               PROVE  FALSE
  BY DEF Scr!Span, Scr!Pixels, PagePixels
<1>3. xy[1] \in 0 .. W - 1 /\ xy[2] \in Int /\ xy[2] >= 0
  BY DEF PagePixels
<1> DEFINE x == xy[1]
<1> HIDE DEF x
<1>4. x \in Int /\ x >= 0 /\ x <= W - 1
  BY <1>1, <1>3 DEF x
<1>5. y >= 0
  BY <1>2, <1>3
<1>6. x \in x1 .. x2 \/ (x \in x2 .. x1 /\ x1 < W /\ x2 >= 0)
  BY <1>2 DEF x
<1> QED  BY <1>1, <1>4, <1>5, <1>6

LEMMA RowIsStep == ASSUME W <= 510, VideoInv, Row  PROVE Scr!Line
<1>1. PICK m \in 4 .. 49 : fill \in Filling(m) /\ hliney <= H - 1
  BY DEF Row, VideoInv, FillInv
<1>2. fill.cpt1 \in Int /\ fill.cpt2 \in Int /\ fill.ink \in Inks
  BY <1>1 DEF Filling
<1>3. RowX1 \in Int /\ RowX2 \in Int
  <2>1. fill.cpt1 \div FRACTION \in Int /\ fill.cpt2 \div FRACTION \in Int
    BY <1>2 DEF FRACTION
  <2> QED  BY <2>1, Int16Type DEF RowX1, RowX2
<1> DEFINE xa == IF RowX1 < 0 THEN 0 ELSE RowX1
           xb == IF RowX2 > W - 1 THEN W - 1 ELSE RowX2
           p == PageOf(curPagePtr1)
           region == Scr!Span(RowX1, RowX2, hliney)
<1>4. mem' = IF RowVisible THEN Line(xa, xb, fill.ink) ELSE mem
  BY DEF Row
<1>5. p \in Pages /\ curPagePtr1 = PagePtrs[p]
  BY DrawnPage
<1>6. hliney \in Int
  BY Sizes DEF VideoInv
<1>7. Painted(mem', p, region, fill.ink)
  <2>1. CASE RowVisible
    <3>1. hliney \in 0 .. H - 1 /\ RowX1 <= W - 1 /\ RowX2 >= 0
      BY <1>1, <1>6, <2>1, Sizes DEF RowVisible
    <3>2. /\ xa \in 0 .. W - 1 /\ xb \in 0 .. W - 1
          /\ RowPixels(IF xa > xb THEN xb ELSE xa, IF xa > xb THEN xa ELSE xb, hliney) = region
      BY <1>3, <3>1, ClippedRow
    <3> HIDE DEF xa, xb, region, p
    <3>3. Painted(Line(xa, xb, fill.ink), p,
                  RowPixels(IF xa > xb THEN xb ELSE xa, IF xa > xb THEN xa ELSE xb, hliney),
                  fill.ink)
      BY <1>5, <3>1, <3>2, LineIsPainted
    <3> QED  BY <1>4, <2>1, <3>2, <3>3
  <2>2. CASE ~ RowVisible
    <3>1. region = {}
      BY <1>3, <1>6, <2>2, NoRow DEF RowVisible
    <3> QED  BY <1>4, <2>2, <3>1 DEF Painted
  <2> QED  BY <2>1, <2>2
<1>8. Scr!Paint(p, region, fill.ink)
  BY <1>5, <1>7, PaintIsStep
<1>9. /\ drawn'.do = "line" /\ drawn'.from = RowX1 /\ drawn'.to = RowX2
      /\ drawn'.ink = fill.ink
  BY DEF Row, RowDrawn
<1>10. hliney' = hliney + 1 /\ UNCHANGED ptrVars
  BY DEF Row
<1>11. UNCHANGED Scr!turned
  BY <1>10, SameTurned
<1> QED  BY <1>8, <1>9, <1>10, <1>11 DEF Scr!Line

\* A step that Screen does not see.
Unseen == UNCHANGED <<mem, ptrVars, hliney, drawn>>

LEMMA UnseenIsStutter == ASSUME Unseen  PROVE UNCHANGED Scr!vars
<1>1. Page' = Page
  BY SameMemory DEF Unseen
<1>2. UNCHANGED Scr!turned
  BY SameTurned DEF Unseen
<1> QED  BY <1>1, <1>2 DEF Unseen, Scr!vars

LEMMA StartIsStep ==
  ASSUME VideoInv, StartPolygon
  PROVE  Scr!Dot \/ Scr!Shape \/ UNCHANGED Scr!vars
<1>1. todo # <<>> /\ Shape.kind = "polygon" /\ UNCHANGED ptrVars
  BY DEF StartPolygon
<1> DEFINE x == Head1.pt[1]
           y == Head1.pt[2]
           p == PageOf(curPagePtr1)
<1>2. mem' = IF IsPoint THEN Point(Ink, x, y) ELSE mem
  BY DEF StartPolygon
<1>3. UNCHANGED Scr!turned
  BY <1>1, SameTurned
<1>4. CASE IsPoint
  <2>1. p \in Pages /\ curPagePtr1 = PagePtrs[p]
    BY DrawnPage
  <2>2. Head1.pt \in Int \X Int
    BY <1>1, HeadType DEF Item, Columns
  <2>3. \A xy \in PagePixels : xy \in {Head1.pt} <=> xy[1] = x /\ xy[2] = y
    BY <2>2 DEF PagePixels
  <2>4. drawn' = [do |-> "dot", at |-> Head1.pt, ink |-> Ink] /\ hliney' = hliney
    BY <1>4 DEF StartPolygon
  <2> HIDE DEF x, y, p
  <2>5. Painted(mem', p, {Head1.pt}, Ink)
    <3>1. CASE x \in 0 .. W - 1 /\ y \in 0 .. H - 1
      <4>1. Painted(Point(Ink, x, y), p, RowPixels(x, x, y), Ink)
        BY <2>1, <3>1, PointIsPainted DEF VideoInv
      <4>2. \A xy \in PagePixels : xy \in RowPixels(x, x, y) <=> xy \in {Head1.pt}
        BY <2>3, <3>1 DEF RowPixels, PagePixels
      <4> QED  BY <1>2, <1>4, <4>1, <4>2 DEF Painted
    <3>2. CASE ~ (x \in 0 .. W - 1 /\ y \in 0 .. H - 1)
      <4>1. mem' = mem
        BY <1>2, <3>2 DEF Point
      <4>2. \A xy \in PagePixels : xy \notin {Head1.pt}
        BY <2>3, <3>2 DEF PagePixels
      <4> QED  BY <4>1, <4>2 DEF Painted
    <3> QED  BY <3>1, <3>2
  <2>6. Scr!Paint(p, {Head1.pt}, Ink)
    BY <2>1, <2>5, PaintIsStep
  <2>7. drawn'.do = "dot" /\ drawn'.at = Head1.pt /\ drawn'.ink = Ink
    BY <2>4
  <2>8. Scr!Dot
    BY <1>3, <2>4, <2>6, <2>7 DEF Scr!Dot, p
  <2> QED  BY <2>8
<1>5. CASE ~ IsPoint /\ OffScreen
  <2>1. Unseen
    BY <1>1, <1>2, <1>5 DEF Unseen, StartPolygon
  <2> QED  BY <2>1, UnseenIsStutter
<1>6. CASE ~ IsPoint /\ ~ OffScreen
  <2>1. hliney' = Y1 /\ drawn' = [do |-> "shape", top |-> Y1]
    BY <1>6 DEF StartPolygon
  <2>2. drawn'.do = "shape" /\ drawn'.top = Y1
    BY <2>1
  <2>3. Page' = Page
    BY <1>2, <1>6, SameMemory
  <2>4. Scr!Shape
    BY <1>3, <2>1, <2>2, <2>3 DEF Scr!Shape
  <2> QED  BY <2>4
<1> QED  BY <1>4, <1>5, <1>6

-----------------------------------------------------------------------------
(* Texts.                                                                  *)

\* The pixels of a character in column x, at height y.
Stamp(glyph, x, y) == {<<x * CharW + d[1], y + d[2]>> : d \in glyph}

RealGlyphs == SUBSET ((0 .. CharW - 1) \X (0 .. CharH - 1))

\* Where a byte of the pages lies in a character, whose first byte is at ptr.
LEMMA InChar ==
  ASSUME NEW p \in Pages, NEW q \in Pages, NEW xy \in PagePixels, NEW glyph \in RealGlyphs,
         NEW x \in Nat, NEW y \in Nat, (x + 1) * CharW <= W, y + CharH <= H,
         NEW a, a = PagePtrs[q] + Offset(xy), NEW h, h = xy[1] % 2,
         NEW ptr, ptr = PagePtrs[p] + (y * PITCH + x * (CharW \div 2))
  PROVE  a >= ptr /\ <<2 * ((a - ptr) % PITCH) + h, (a - ptr) \div PITCH>> \in glyph
           <=> q = p /\ xy \in Stamp(glyph, x, y)
<1> DEFINE half == CharW \div 2
           first == x * half
           X == xy[1]
           Y == xy[2]
<1>1. CharW \in Nat /\ CharH \in Nat /\ CharH > 0 /\ half \in Nat /\ half > 0 /\ CharW = 2 * half
  BY SizeAssumption
<1> HIDE DEF half
<1>2. first \in Nat /\ x * CharW = 2 * first /\ first + half <= PITCH
  <2>1. x * CharW = 2 * (x * half) /\ (x + 1) * CharW = x * CharW + CharW /\ x * half \in Nat
    BY <1>1
  <2> HIDE DEF first
  <2>2. first \in Nat /\ x * CharW = 2 * first
    BY <2>1 DEF first
  <2> QED  BY <1>1, <2>1, <2>2, Sizes
<1>3. /\ X \in Nat /\ Y \in Nat /\ X < W /\ Y < H /\ xy = <<X, Y>> /\ X \div 2 \in Nat
      /\ Offset(xy) = Y * PITCH + X \div 2 /\ Y * PITCH \in Nat
  BY PixelPlace DEF Offset
<1>4. X = 2 * (X \div 2) + h /\ h \in {0, 1}
  <2> HIDE DEF X
  <2>1. X = 2 * (X \div 2) + (X % 2) /\ X % 2 \in {0, 1}
    BY <1>3
  <2> QED  BY <2>1 DEF X
<1>5. PagePtrs[p] \in Nat /\ PagePtrs[q] \in Nat /\ y * PITCH \in Nat /\ PITCH \in Nat /\ PITCH > 0
  BY PixelIs, Sizes
<1> HIDE DEF first, X, Y
<1>6. ptr = PagePtrs[p] + (y * PITCH + first) /\ ptr \in Nat
  <2> DEFINE u == y * PITCH
  <2>1. u \in Nat /\ ptr = PagePtrs[p] + (u + first)
    BY <1>5 DEF first, half
  <2> HIDE DEF u
  <2>2. ptr \in Nat
    BY <1>2, <1>5, <2>1
  <2> QED  BY <2>1, <2>2 DEF u
<1>7. a \in Nat
  <2> DEFINE u == Y * PITCH
             v == X \div 2
  <2>1. u \in Nat /\ v \in Nat /\ a = PagePtrs[q] + (u + v)
    BY <1>3
  <2> HIDE DEF u, v
  <2> QED  BY <1>5, <2>1
<1> DEFINE d1 == 2 * ((a - ptr) % PITCH) + h
           d2 == (a - ptr) \div PITCH
<1>8. ASSUME a >= ptr, <<d1, d2>> \in glyph  PROVE q = p /\ xy \in Stamp(glyph, x, y)
  <2> DEFINE r == (a - ptr) % PITCH
  <2>1. <<d1, d2>> \in (0 .. CharW - 1) \X (0 .. CharH - 1)
    BY <1>8 DEF RealGlyphs
  <2>2. d1 \in 0 .. CharW - 1 /\ d2 \in 0 .. CharH - 1
    BY <2>1
  <2>3. r \in Nat /\ r < PITCH /\ a - ptr = PITCH * d2 + r /\ d2 \in Nat
    <3> DEFINE n == a - ptr
    <3>1. n \in Nat
      BY <1>6, <1>7, <1>8
    <3> HIDE DEF n
    <3>2. n % PITCH \in Nat /\ n % PITCH < PITCH /\ n = PITCH * (n \div PITCH) + (n % PITCH)
          /\ n \div PITCH \in Nat
      BY <1>5, <3>1
    <3> QED  BY <3>2 DEF n
  <2> HIDE DEF r, d2
  <2>4. d1 = 2 * r + h
    BY DEF r
  <2> HIDE DEF d1
  <2>5. r < half
    BY <1>1, <1>4, <2>2, <2>3, <2>4
  <2> DEFINE row == y + d2
             col == first + r
  <2>6. row \in Nat /\ row < H /\ col \in Nat /\ col < PITCH
    BY <1>1, <1>2, <2>2, <2>3, <2>5, Sizes
  <2>7. row * PITCH = y * PITCH + PITCH * d2 /\ PITCH * d2 \in Nat
    BY <1>5, <2>3
  <2>8. a = PagePtrs[p] + (row * PITCH + col)
    <3> DEFINE u == y * PITCH
               v == PITCH * d2
               t == row * PITCH
    <3>1. u \in Nat /\ v \in Nat /\ t = u + v /\ ptr = PagePtrs[p] + (u + first) /\ a - ptr = v + r
      BY <1>5, <1>6, <2>3, <2>7
    <3> HIDE DEF u, v, t, row
    <3>2. a = PagePtrs[p] + (t + col)
      BY <1>2, <1>5, <1>6, <1>7, <2>3, <3>1
    <3> QED  BY <3>2 DEF t
  <2> HIDE DEF row, col
  <2>9. q = p /\ Y = row /\ X \div 2 = col
    <3>1. PagePtrs[q] + Offset(xy) = PagePtrs[p] + (row * PITCH + col)
      BY <2>8
    <3> QED  BY <2>6, <3>1, PixelAt DEF X, Y
  <2>10. X = x * CharW + d1 /\ Y = y + d2
    BY <1>2, <1>4, <2>3, <2>4, <2>9 DEF row, col
  <2>11. xy = <<x * CharW + <<d1, d2>>[1], y + <<d1, d2>>[2]>>
    BY <1>3, <2>10
  <2> QED  BY <1>8, <2>9, <2>11 DEF Stamp
<1>9. ASSUME q = p, xy \in Stamp(glyph, x, y)  PROVE a >= ptr /\ <<d1, d2>> \in glyph
  <2>1. PICK d \in glyph : xy = <<x * CharW + d[1], y + d[2]>>
    BY <1>9 DEF Stamp
  <2> DEFINE e == d[1]
             f == d[2]
  <2>2. d \in (0 .. CharW - 1) \X (0 .. CharH - 1)
    BY DEF RealGlyphs
  <2>3. e \in 0 .. CharW - 1 /\ f \in 0 .. CharH - 1 /\ d = <<e, f>>
    BY <2>2
  <2>4. X = x * CharW + e /\ Y = y + f
    BY <2>1 DEF X, Y
  <2> HIDE DEF e, f
  <2> DEFINE k == e \div 2
  <2>5. e \in Nat /\ f \in Nat /\ k \in Nat /\ k < half
    BY <1>1, <2>3
  <2>6. X \div 2 = first + k /\ e = 2 * k + h
    <3>1. e = 2 * k + (e % 2) /\ e % 2 \in {0, 1}
      BY <2>5
    <3> DEFINE l == X \div 2
               o == e % 2
    <3>2. 2 * l + h = 2 * first + (2 * k + o) /\ l \in Nat /\ o \in {0, 1} /\ e = 2 * k + o
      BY <1>2, <1>3, <1>4, <2>4, <3>1
    <3> HIDE DEF k, l, o
    <3>3. l = first + k /\ o = h
      BY <1>2, <1>4, <2>5, <3>2
    <3> QED  BY <3>2, <3>3 DEF l
  <2> HIDE DEF k
  <2>7. a - ptr = PITCH * f + k /\ PITCH * f \in Nat
    <3>1. Y * PITCH = y * PITCH + PITCH * f /\ PITCH * f \in Nat
      BY <1>5, <2>4, <2>5
    <3> DEFINE u == y * PITCH
               v == PITCH * f
               t == Y * PITCH
               l == X \div 2
    <3>2. /\ u \in Nat /\ v \in Nat /\ t = u + v /\ l = first + k
          /\ ptr = PagePtrs[p] + (u + first) /\ a = PagePtrs[p] + (t + l)
      BY <1>3, <1>5, <1>6, <1>9, <2>6, <3>1
    <3> HIDE DEF u, v, t, l
    <3>3. a - ptr = v + k
      BY <1>2, <1>5, <2>5, <3>2
    <3> QED  BY <3>1, <3>3 DEF v
  <2>8. a >= ptr
    <3> DEFINE v == PITCH * f
    <3>1. v \in Nat /\ a - ptr = v + k
      BY <2>7
    <3> HIDE DEF v
    <3> QED  BY <1>6, <1>7, <2>5, <3>1
  <2>9. k < PITCH
    BY <1>1, <1>2, <1>5, <2>5
  <2>10. (PITCH * f + k) \div PITCH = f /\ (PITCH * f + k) % PITCH = k
    <3> DEFINE n == PITCH * f + k
               g == n \div PITCH
               r == n % PITCH
    <3>1. n \in Nat
      BY <2>5, <2>7
    <3> HIDE DEF n
    <3>2. g \in Nat /\ r \in Nat /\ r < PITCH /\ n = PITCH * g + r
      BY <1>5, <3>1
    <3> HIDE DEF g, r
    <3>3. f * PITCH + k = g * PITCH + r
      BY <1>5, <2>5, <3>2 DEF n
    <3>4. g = f /\ r = k
      BY <1>5, <2>5, <2>9, <3>2, <3>3, RowColumn
    <3> QED  BY <3>4 DEF g, r, n
  <2>11. d1 = e /\ d2 = f
    BY <2>6, <2>7, <2>10
  <2> QED  BY <2>3, <2>8, <2>11
<1> QED  BY <1>8, <1>9

LEMMA CharPixels ==
  ASSUME NEW p \in Pages, curPagePtr1 = PagePtrs[p], NEW glyph \in RealGlyphs, NEW m, NEW c,
         NEW x \in Nat, NEW y \in Nat, (x + 1) * CharW <= W, y + CharH <= H,
         NEW q \in Pages, NEW xy \in PagePixels
  PROVE  PixelOf(Char(m, glyph, x, y, c), q, xy)
           = IF q = p /\ xy \in Stamp(glyph, x, y) THEN c ELSE PixelOf(m, q, xy)
<1> DEFINE ptr == curPagePtr1 + x * (CharW \div 2) + y * PITCH
           bit(a, half) == <<2 * ((a - ptr) % PITCH) + half - 1, (a - ptr) \div PITCH>> \in glyph
           n == Char(m, glyph, x, y, c)
           a == PagePtrs[q] + Offset(xy)
           h == xy[1] % 2
<1>1. x <= W \div CharW - 1 /\ y <= H - CharH
  <2>1. CharW \in Nat /\ CharW > 0 /\ CharH \in Nat
    BY SizeAssumption
  <2> DEFINE k == W \div CharW
             r == W % CharW
  <2>2. k \in Nat /\ r \in Nat /\ r < CharW /\ W = CharW * k + r
    BY <2>1, Sizes
  <2> HIDE DEF k, r
  <2>3. x < k
    <3>1. SUFFICES ASSUME k <= x PROVE FALSE
      BY <2>2
    <3>2. (x - k) * CharW \in Nat /\ (x - k) * CharW = x * CharW - CharW * k
      BY <2>1, <2>2, <3>1
    <3>3. (x + 1) * CharW = x * CharW + CharW /\ x * CharW \in Nat /\ CharW * k \in Nat
      BY <2>1, <2>2
    <3> QED  BY <2>1, <2>2, <3>2, <3>3, Sizes
  <2>4. y <= H - CharH
    BY <2>1, Sizes
  <2> QED  BY <2>2, <2>3, <2>4 DEF k
<1>2. n = [b \in Memory |-> IF b < ptr THEN m[b]
                            ELSE << IF bit(b, 1) THEN c ELSE m[b][1],
                                    IF bit(b, 2) THEN c ELSE m[b][2] >>]
  BY <1>1 DEF Char
<1>3. /\ PixelOf(n, q, xy) = n[a][1 + h] /\ PixelOf(m, q, xy) = m[a][1 + h]
      /\ a \in Memory /\ h \in {0, 1}
  <2>1. h \in {0, 1}
    BY PixelPlace
  <2> HIDE DEF n
  <2> QED  BY <2>1, PixelIs
<1>4. a \in Nat
  <2> HIDE DEF a
  <2> QED  BY <1>3, Sizes DEF Memory
<1>5. ptr = PagePtrs[p] + (y * PITCH + x * (CharW \div 2)) /\ ptr \in Nat
  <2>1. CharW \div 2 \in Nat
    BY SizeAssumption
  <2>2. y * PITCH \in Nat /\ x * (CharW \div 2) \in Nat /\ PagePtrs[p] \in Nat
    BY <2>1, PageStart, Sizes
  <2> QED  BY <2>2
<1>6. a >= ptr /\ <<2 * ((a - ptr) % PITCH) + h, (a - ptr) \div PITCH>> \in glyph
        <=> q = p /\ xy \in Stamp(glyph, x, y)
  <2> HIDE DEF a, h, ptr
  <2>1. a = PagePtrs[q] + Offset(xy) /\ h = xy[1] % 2
    BY DEF a, h
  <2> QED  BY <1>5, <2>1, InChar
<1>7. (h = 0 => (bit(a, 1) <=> <<2 * ((a - ptr) % PITCH) + h, (a - ptr) \div PITCH>> \in glyph))
      /\ (h = 1 => (bit(a, 2) <=> <<2 * ((a - ptr) % PITCH) + h, (a - ptr) \div PITCH>> \in glyph))
  <2> DEFINE r == 2 * ((a - ptr) % PITCH)
  <2>1. r \in Int
    <3> HIDE DEF a, ptr
    <3> QED  BY <1>4, <1>5, Sizes
  <2> HIDE DEF r
  <2>2. r + 1 - 1 = r + 0 /\ r + 2 - 1 = r + 1
    BY <2>1
  <2> QED  BY <2>2 DEF r
<1> HIDE DEF a, h, ptr, bit, n
<1>8. CASE a < ptr
  <2>1. n[a] = m[a]
    BY <1>2, <1>3, <1>8
  <2>2. ~ (a >= ptr)
    BY <1>4, <1>5, <1>8
  <2> QED  BY <1>3, <1>6, <2>1, <2>2 DEF n
<1>9. CASE a >= ptr
  <2>1. n[a] = << IF bit(a, 1) THEN c ELSE m[a][1], IF bit(a, 2) THEN c ELSE m[a][2] >>
    BY <1>2, <1>3, <1>4, <1>5, <1>9
  <2>2. CASE h = 0
    <3>1. n[a][1 + h] = IF bit(a, 1) THEN c ELSE m[a][1 + h]
      BY <2>1, <2>2
    <3>2. bit(a, 1) <=> q = p /\ xy \in Stamp(glyph, x, y)
      BY <1>6, <1>7, <1>9, <2>2
    <3> QED  BY <1>3, <3>1, <3>2 DEF n
  <2>3. CASE h = 1
    <3>1. n[a][1 + h] = IF bit(a, 2) THEN c ELSE m[a][1 + h]
      BY <2>1, <2>3
    <3>2. bit(a, 2) <=> q = p /\ xy \in Stamp(glyph, x, y)
      BY <1>6, <1>7, <1>9, <2>3
    <3> QED  BY <1>3, <3>1, <3>2 DEF n
  <2> QED  BY <1>3, <2>2, <2>3
<1> QED  BY <1>4, <1>5, <1>8, <1>9

\* The characters of a text that are on the page, and the pixels of the first k.
Fits(s, at, k) ==
  /\ s[k] # NewLine
  /\ ((at[1] + Scr!ColumnOf(s, k)) + 1) * CharW <= W
  /\ (at[2] + Scr!LineOf(s, k) * CharH) + CharH <= H

StampOf(s, at, k) == Stamp(s[k], at[1] + Scr!ColumnOf(s, k), at[2] + Scr!LineOf(s, k) * CharH)

TextUpTo(s, at, k) == UNION {StampOf(s, at, j) : j \in {i \in 1 .. k : Fits(s, at, i)}}

LEMMA SameCardinality == ASSUME NEW S  PROVE Scr!Cardinality(S) = Cardinality(S)
BY DEF Scr!Cardinality, Cardinality

\* Where the pen is before a character, of which the lines before are NewLines(s, k).
LEMMA PenPlaces ==
  ASSUME NEW s, NEW n \in Nat, NEW k \in 1 .. n
  PROVE  /\ Scr!LineOf(s, k) \in Nat /\ Scr!LineOf(s, k) <= k - 1
         /\ Scr!ColumnOf(s, k) \in Nat /\ Scr!ColumnOf(s, k) <= k - 1
         /\ s[k] = NewLine => /\ Scr!LineOf(s, k + 1) = Scr!LineOf(s, k) + 1
                              /\ Scr!ColumnOf(s, k + 1) = 0
         /\ s[k] # NewLine => /\ Scr!LineOf(s, k + 1) = Scr!LineOf(s, k)
                              /\ Scr!ColumnOf(s, k + 1) = Scr!ColumnOf(s, k) + 1
<1> DEFINE T == 1 .. k - 1
           N(l) == Scr!NewLines(s, l)
           C(l) == {i \in 1 .. l - 1 : \A j \in N(l) : j < i}
<1>1. \A l : Scr!LineOf(s, l) = Cardinality(N(l)) /\ Scr!ColumnOf(s, l) = Cardinality(C(l))
  BY SameCardinality DEF Scr!LineOf, Scr!ColumnOf
<1>2. N(k) = {i \in T : s[i] = NewLine} /\ N(k + 1) = {i \in 1 .. k : s[i] = NewLine}
  BY DEF Scr!NewLines, Scr!NewLine, NewLine
<1>3. IsFiniteSet(T) /\ Cardinality(T) <= k - 1
  BY FS_Interval
<1>4. N(k) \in SUBSET T /\ C(k) \in SUBSET T
  BY <1>2
<1>5. /\ IsFiniteSet(N(k)) /\ Cardinality(N(k)) \in Nat /\ Cardinality(N(k)) <= k - 1
      /\ IsFiniteSet(C(k)) /\ Cardinality(C(k)) \in Nat /\ Cardinality(C(k)) <= k - 1
  <2> HIDE DEF N, C, T
  <2>1. /\ IsFiniteSet(N(k)) /\ Cardinality(N(k)) <= Cardinality(T)
        /\ IsFiniteSet(C(k)) /\ Cardinality(C(k)) <= Cardinality(T)
    BY <1>3, <1>4, FS_Subset
  <2>2. Cardinality(N(k)) \in Nat /\ Cardinality(C(k)) \in Nat /\ Cardinality(T) \in Nat
    BY <1>3, <2>1, FS_CardinalityType
  <2> QED  BY <1>3, <2>1, <2>2
<1>6. k \in 1 .. k /\ k \notin T /\ 1 .. k = T \cup {k}
  OBVIOUS
<1>7. ASSUME s[k] = NewLine
      PROVE  Cardinality(N(k + 1)) = Cardinality(N(k)) + 1 /\ Cardinality(C(k + 1)) = 0
  <2>1. N(k + 1) = N(k) \cup {k} /\ k \notin N(k)
    <3> HIDE DEF N, T
    <3> QED  BY <1>2, <1>6, <1>7
  <2>2. C(k + 1) = {}
    <3>1. k \in N(k + 1)
      BY <2>1
    <3>2. \A i \in 1 .. k + 1 - 1 : ~ (k < i)
      OBVIOUS
    <3> HIDE DEF N
    <3> QED  BY <3>1, <3>2
  <2> HIDE DEF N, C
  <2>3. Cardinality(N(k) \cup {k}) = Cardinality(N(k)) + 1
    BY <1>5, <2>1, FS_AddElement
  <2>4. Cardinality(C(k + 1)) = 0
    BY <2>2, FS_EmptySet
  <2> QED  BY <2>1, <2>3, <2>4
<1>8. ASSUME s[k] # NewLine
      PROVE  N(k + 1) = N(k) /\ Cardinality(C(k + 1)) = Cardinality(C(k)) + 1
  <2>1. N(k + 1) = N(k)
    <3> HIDE DEF N, T
    <3> QED  BY <1>2, <1>6, <1>8
  <2>2. C(k + 1) = C(k) \cup {k} /\ k \notin C(k)
    <3>1. \A j \in N(k) : j < k
      BY <1>4
    <3>2. k + 1 - 1 = k
      OBVIOUS
    <3> HIDE DEF N
    <3>3. C(k + 1) = {i \in T \cup {k} : \A j \in N(k) : j < i}
      BY <1>6, <2>1, <3>2
    <3>4. C(k) = {i \in T : \A j \in N(k) : j < i}
      OBVIOUS
    <3> HIDE DEF C, T
    <3> QED  BY <1>6, <3>1, <3>3, <3>4
  <2> HIDE DEF N, C
  <2> QED  BY <1>5, <2>1, <2>2, FS_AddElement
<1> HIDE DEF N, C
<1> QED  BY <1>1, <1>5, <1>7, <1>8

\* What the pen has written of a text, and where it is, after k characters.
PenAt(pen, s, at, c, p, k) ==
  /\ pen \in PenState
  /\ pen.x = at[1] + Scr!ColumnOf(s, k + 1)
  /\ pen.y = at[2] + Scr!LineOf(s, k + 1) * CharH
  /\ \A q \in Pages, xy \in PagePixels :
       PixelOf(pen.m, q, xy) = IF q = p /\ xy \in TextUpTo(s, at, k) THEN c
                               ELSE PixelOf(mem, q, xy)

\* The places of a text do not run out of the words in which they are counted.
ShortText(s, at) == at[1] + Len(s) < 65536 /\ at[2] + Len(s) * CharH < 65536

\* A character that does not fit is left out.
LEMMA CharLeftOut ==
  ASSUME NEW m, NEW glyph, NEW x \in Nat, NEW y \in Nat, NEW c,
         ~ ((x + 1) * CharW <= W /\ y + CharH <= H)
  PROVE  Char(m, glyph, x, y, c) = m
<1>1. CharW \in Nat /\ CharW > 0 /\ CharH \in Nat
  BY SizeAssumption
<1>2. SUFFICES ASSUME x <= W \div CharW - 1, y <= H - CharH  PROVE FALSE
  BY DEF Char
<1> DEFINE k == W \div CharW
           r == W % CharW
<1>3. k \in Nat /\ r \in Nat /\ W = CharW * k + r /\ x <= k - 1
  BY <1>1, <1>2, Sizes
<1>4. y + CharH <= H
  BY <1>1, <1>2, Sizes
<1> HIDE DEF k, r
<1>5. (k - 1 - x) * CharW \in Nat /\ (k - 1 - x) * CharW = CharW * k - (x + 1) * CharW
  BY <1>1, <1>3
<1>6. (x + 1) * CharW \in Nat /\ CharW * k \in Nat
  BY <1>1, <1>3
<1>7. (x + 1) * CharW <= W
  BY <1>3, <1>5, <1>6
<1> QED  BY <1>4, <1>7

\* A word holds the places of a short text.
LEMMA Uint16Same == ASSUME NEW v \in Nat, v < 65536  PROVE Uint16(v) = v
BY DEF Uint16

LEMMA PenMoves ==
  ASSUME NEW s \in Seq(Glyph), NEW at \in Nat \X Nat, ShortText(s, at), NEW c \in Colors,
         NEW p \in Pages, curPagePtr1 = PagePtrs[p], NEW k \in 1 .. Len(s),
         NEW pen, PenAt(pen, s, at, c, p, k - 1)
  PROVE  PenAt(Typed(pen, s[k], at[1], c), s, at, c, p, k)
<1> DEFINE n == Len(s)
           x0 == at[1]
           y0 == at[2]
           col == Scr!ColumnOf(s, k)
           line == Scr!LineOf(s, k)
           col1 == Scr!ColumnOf(s, k + 1)
           line1 == Scr!LineOf(s, k + 1)
           x == x0 + col
           y == y0 + line * CharH
           typed == Typed(pen, s[k], x0, c)
<1>1. /\ n \in Nat /\ k \in Nat /\ k \in 1 .. n /\ k <= n /\ x0 \in Nat /\ y0 \in Nat
      /\ CharH \in Nat /\ x0 + n < 65536 /\ y0 + n * CharH < 65536 /\ k - 1 + 1 = k
  <2>1. n \in Nat
    BY LenProperties
  <2>2. x0 + n < 65536 /\ y0 + n * CharH < 65536
    BY DEF ShortText
  <2> HIDE DEF n
  <2>3. k \in 1 .. n
    BY DEF n
  <2> QED  BY <2>1, <2>2, <2>3, SizeAssumption
<1>2. /\ line \in Nat /\ line <= k - 1 /\ col \in Nat /\ col <= k - 1
      /\ s[k] = NewLine => line1 = line + 1 /\ col1 = 0
      /\ s[k] # NewLine => line1 = line /\ col1 = col + 1
  BY <1>1, PenPlaces
<1>3. pen \in PenState /\ pen.x = x /\ pen.y = y
  BY <1>1 DEF PenAt
<1>4. ASSUME NEW q \in Pages, NEW xy \in PagePixels
      PROVE  PixelOf(pen.m, q, xy) = IF q = p /\ xy \in TextUpTo(s, at, k - 1) THEN c
                                     ELSE PixelOf(mem, q, xy)
  BY DEF PenAt
<1>5. typed \in PenState
  BY <1>1, <1>3, TypedType
<1>6. TextUpTo(s, at, k) = IF Fits(s, at, k) THEN TextUpTo(s, at, k - 1) \cup StampOf(s, at, k)
                           ELSE TextUpTo(s, at, k - 1)
  <2>1. 1 .. k = (1 .. k - 1) \cup {k}
    BY <1>1
  <2> QED  BY <2>1 DEF TextUpTo
<1>7. StampOf(s, at, k) = Stamp(s[k], x, y)
  BY DEF StampOf
<1>8. s[k] # NewLine => (Fits(s, at, k) <=> (x + 1) * CharW <= W /\ y + CharH <= H)
  BY DEF Fits
<1>9. SUFFICES /\ typed.x = x0 + col1 /\ typed.y = y0 + line1 * CharH
               /\ \A q \in Pages, xy \in PagePixels :
                    PixelOf(typed.m, q, xy) = IF q = p /\ xy \in TextUpTo(s, at, k) THEN c
                                              ELSE PixelOf(mem, q, xy)
  BY <1>5 DEF PenAt
<1>10. typed = IF s[k] = NewLine
               THEN [pen EXCEPT !.x = x0, !.y = Uint16(@ + CharH)]
               ELSE [pen EXCEPT !.m = Char(pen.m, s[k], pen.x, pen.y, c), !.x = Uint16(@ + 1)]
  BY DEF Typed
<1> HIDE DEF n, col, line, col1, line1, x0, y0, typed
<1>11. /\ x \in Nat /\ x + 1 \in Nat /\ x + 1 < 65536 /\ x + 1 = x0 + (col + 1)
       /\ y \in Nat /\ Uint16(y + CharH) = y0 + (line + 1) * CharH
  <2>1. y \in Nat /\ Uint16(y + CharH) = y0 + (line + 1) * CharH
    <3>1. (line + 1) * CharH = line * CharH + CharH /\ line * CharH \in Nat /\ n * CharH \in Nat
      BY <1>1, <1>2
    <3>2. (n - (line + 1)) * CharH \in Nat
      BY <1>1, <1>2
    <3>3. (n - (line + 1)) * CharH = n * CharH - (line + 1) * CharH
      BY <1>1, <1>2
    <3> DEFINE u == line * CharH
               v == n * CharH
               w == (line + 1) * CharH
    <3>4. u \in Nat /\ v \in Nat /\ w = u + CharH /\ v - w \in Nat /\ y0 + v < 65536 /\ y = y0 + u
      BY <1>1, <3>1, <3>2, <3>3
    <3> HIDE DEF u, v, w, y
    <3>5. y \in Nat /\ y + CharH = y0 + w /\ y + CharH \in Nat /\ y + CharH < 65536
      BY <1>1, <3>4
    <3>6. Uint16(y + CharH) = y + CharH
      BY <3>5, Uint16Same
    <3> QED  BY <3>5, <3>6 DEF w
  <2>2. x \in Nat /\ x + 1 \in Nat /\ x + 1 < 65536 /\ x + 1 = x0 + (col + 1)
    BY <1>1, <1>2
  <2> QED  BY <2>1, <2>2
<1>12. CASE s[k] = NewLine
  <2>1. line1 = line + 1 /\ col1 = 0 /\ x0 + 0 = x0
    BY <1>1, <1>2, <1>12
  <2>2. typed = [pen EXCEPT !.x = x0, !.y = Uint16(@ + CharH)]
    BY <1>10, <1>12
  <2> HIDE DEF y
  <2>3. typed.x = x0 /\ typed.y = Uint16(y + CharH) /\ typed.m = pen.m
    BY <1>3, <2>2 DEF PenState
  <2>4. ~ Fits(s, at, k)
    BY <1>12 DEF Fits
  <2> QED  BY <1>4, <1>6, <1>11, <2>1, <2>3, <2>4
<1>13. CASE s[k] # NewLine
  <2> DEFINE m == Char(pen.m, s[k], x, y, c)
  <2>1. line1 = line /\ col1 = col + 1
    BY <1>2, <1>13
  <2>2. typed = [pen EXCEPT !.m = Char(pen.m, s[k], pen.x, pen.y, c), !.x = Uint16(@ + 1)]
    BY <1>10, <1>13
  <2>3. typed.x = Uint16(x + 1) /\ typed.y = y /\ typed.m = m
    <3> HIDE DEF x, y
    <3> QED  BY <1>3, <2>2 DEF PenState
  <2>4. typed.x = x0 + col1 /\ typed.y = y0 + line1 * CharH
    <3>1. Uint16(x + 1) = x + 1
      <4> HIDE DEF x
      <4> QED  BY <1>11, Uint16Same
    <3>2. y = y0 + line * CharH
      OBVIOUS
    <3> HIDE DEF x, y
    <3> QED  BY <1>11, <2>1, <2>3, <3>1, <3>2
  <2>5. s[k] \in RealGlyphs
    <3>1. s[k] \in Glyph
      BY ElementOfSeq
    <3> QED  BY <1>13, <3>1 DEF Glyph, RealGlyphs
  <2> HIDE DEF x, y, m
  <2>6. ASSUME NEW q \in Pages, NEW xy \in PagePixels
        PROVE  PixelOf(m, q, xy) = IF q = p /\ xy \in TextUpTo(s, at, k) THEN c
                                   ELSE PixelOf(mem, q, xy)
    <3>1. CASE Fits(s, at, k)
      <4>1. PixelOf(m, q, xy) = IF q = p /\ xy \in StampOf(s, at, k) THEN c
                                ELSE PixelOf(pen.m, q, xy)
        BY <1>7, <1>8, <1>11, <1>13, <2>5, <3>1, CharPixels DEF m
      <4>2. PixelOf(pen.m, q, xy) = IF q = p /\ xy \in TextUpTo(s, at, k - 1) THEN c
                                    ELSE PixelOf(mem, q, xy)
        BY <1>4
      <4>3. TextUpTo(s, at, k) = TextUpTo(s, at, k - 1) \cup StampOf(s, at, k)
        BY <1>6, <3>1
      <4> QED  BY <4>1, <4>2, <4>3
    <3>2. CASE ~ Fits(s, at, k)
      <4>1. m = pen.m
        BY <1>8, <1>11, <1>13, <3>2, CharLeftOut DEF m
      <4>2. TextUpTo(s, at, k) = TextUpTo(s, at, k - 1)
        BY <1>6, <3>2
      <4> QED  BY <1>4, <4>1, <4>2
    <3> QED  BY <3>1, <3>2
  <2> QED  BY <2>3, <2>4, <2>6
<1> QED  BY <1>12, <1>13

\* A text paints its pixels and no others.
LEMMA TextIsPainted ==
  ASSUME VideoInv, NEW s \in Seq(Glyph), NEW at \in Nat \X Nat, ShortText(s, at),
         NEW c \in Colors, NEW p \in Pages, curPagePtr1 = PagePtrs[p]
  PROVE  \A q \in Pages, xy \in PagePixels :
           PixelOf(Written(s, at, c), q, xy)
             = IF q = p /\ xy \in TextUpTo(s, at, Len(s)) THEN c ELSE PixelOf(mem, q, xy)
<1> DEFINE n == Len(s)
           start == [m |-> mem, x |-> at[1], y |-> at[2]]
<1>1. n \in Nat /\ DOMAIN s = 1 .. n
  BY LenProperties
<1>2. PICK f : Pens(f, s, n, at, c)
  BY <1>1, PenSteps
<1>3. /\ f[0] = start
      /\ \A k \in 1 .. n : f[k] = Typed(f[k - 1], s[k], at[1], c)
      /\ Written(s, at, c) = f[n].m
  BY <1>2 DEF Pens
<1>4. PenAt(start, s, at, c, p, 0)
  <2>1. start \in PenState
    BY DEF PenState, VideoInv
  <2>2. Scr!ColumnOf(s, 0 + 1) = 0 /\ Scr!LineOf(s, 0 + 1) = 0
    <3>1. 1 .. 0 + 1 - 1 = {}
      OBVIOUS
    <3>2. Scr!NewLines(s, 0 + 1) = {}
      BY <3>1 DEF Scr!NewLines
    <3>3. {i \in 1 .. 0 + 1 - 1 : \A j \in Scr!NewLines(s, 0 + 1) : j < i} = {}
      BY <3>1
    <3>4. Scr!Cardinality({}) = 0
      BY FS_EmptySet, SameCardinality
    <3>5. Scr!LineOf(s, 0 + 1) = 0
      BY <3>2, <3>4 DEF Scr!LineOf
    <3>6. Scr!ColumnOf(s, 0 + 1)
            = Scr!Cardinality({i \in 1 .. 0 + 1 - 1 : \A j \in Scr!NewLines(s, 0 + 1) : j < i})
      BY DEF Scr!ColumnOf
    <3> QED  BY <3>3, <3>4, <3>5, <3>6
  <2>3. TextUpTo(s, at, 0) = {}
    BY DEF TextUpTo
  <2>4. at[1] \in Nat /\ at[2] \in Nat /\ 0 * CharH = 0
    BY SizeAssumption
  <2> QED  BY <2>1, <2>2, <2>3, <2>4 DEF PenAt
<1> DEFINE T == {k \in 0 .. n : ~ PenAt(f[k], s, at, c, p, k)}
<1>5. T = {}
  <2>1. SUFFICES ASSUME T # {} PROVE FALSE
    OBVIOUS
  <2>2. T \subseteq 0 .. n
    OBVIOUS
  <2> HIDE DEF T, start, n
  <2>3. PICK k \in T : \A i \in T : k <= i
    BY <1>1, <2>1, <2>2, SmallestNumber
  <2>4. k \in 1 .. n /\ ~ PenAt(f[k], s, at, c, p, k)
    BY <1>1, <1>3, <1>4, <2>3 DEF T
  <2>5. PenAt(f[k - 1], s, at, c, p, k - 1)
    BY <1>1, <2>3, <2>4 DEF T
  <2>6. k \in 1 .. Len(s)
    BY <2>4 DEF n
  <2>7. PenAt(Typed(f[k - 1], s[k], at[1], c), s, at, c, p, k)
    BY <2>5, <2>6, PenMoves
  <2> QED  BY <1>3, <2>4, <2>7
<1>6. PenAt(f[n], s, at, c, p, n)
  <2>1. n \in 0 .. n
    BY <1>1
  <2> HIDE DEF n
  <2> QED  BY <1>5, <2>1
<1> QED  BY <1>3, <1>6 DEF PenAt

LEMMA TextPixels ==
  ASSUME NEW s \in Seq(Glyph), NEW at \in Nat \X Nat
  PROVE  Scr!Text(s, at[1], at[2]) = TextUpTo(s, at, Len(s))
<1> DEFINE n == Len(s)
           left(k) == (at[1] + Scr!ColumnOf(s, k)) * CharW
           top(k) == at[2] + Scr!LineOf(s, k) * CharH
           fits(k) == s[k] # NewLine /\ left(k) + CharW <= W /\ top(k) + CharH <= H
           pixels(k) == {<<left(k) + d[1], top(k) + d[2]>> : d \in s[k]}
<1>1. n \in Nat /\ DOMAIN s = 1 .. n /\ at[1] \in Nat /\ CharW \in Nat
  <2>1. n \in Nat /\ DOMAIN s = 1 .. n
    BY LenProperties
  <2> HIDE DEF n
  <2> QED  BY <2>1, SizeAssumption
<1>2. Scr!Text(s, at[1], at[2]) = UNION {pixels(k) : k \in {i \in 1 .. n : fits(i)}}
  <2> HIDE DEF n
  <2> QED  BY <1>1 DEF Scr!Text, Scr!NewLine, NewLine
<1>3. ASSUME NEW k \in 1 .. n  PROVE (fits(k) <=> Fits(s, at, k)) /\ pixels(k) = StampOf(s, at, k)
  <2>1. pixels(k) = StampOf(s, at, k)
    BY DEF StampOf, Stamp
  <2>2. Scr!ColumnOf(s, k) \in Nat
    <3> HIDE DEF n
    <3> QED  BY <1>1, PenPlaces
  <2>3. ((at[1] + Scr!ColumnOf(s, k)) + 1) * CharW = left(k) + CharW
    <3> DEFINE c == at[1] + Scr!ColumnOf(s, k)
    <3>1. c \in Nat
      BY <1>1, <2>2
    <3> HIDE DEF c
    <3>2. (c + 1) * CharW = c * CharW + CharW
      BY <1>1, <3>1
    <3> QED  BY <3>2 DEF c
  <2> QED  BY <2>1, <2>3 DEF Fits
<1> HIDE DEF n, fits, pixels
<1>4. TextUpTo(s, at, n) = UNION {StampOf(s, at, k) : k \in {i \in 1 .. n : Fits(s, at, i)}}
  BY DEF TextUpTo
<1> QED  BY <1>2, <1>3, <1>4 DEF n

ShortTexts == \A s \in Strings, at \in TextPlaces : ShortText(s, at)

LEMMA StringIsStep ==
  ASSUME ShortTexts, VideoInv, DrawString
  PROVE  Scr!Write \/ UNCHANGED Scr!vars
<1>1. UNCHANGED <<ptrVars, hliney>>
  BY DEF DrawString, shapeVars
<1>2. CASE UNCHANGED <<mem, drawn>>
  <2>1. Unseen
    BY <1>1, <1>2 DEF Unseen
  <2> QED  BY <2>1, UnseenIsStutter
<1>3. ASSUME NEW s \in Strings, NEW at \in TextPlaces, NEW c \in Colors,
             mem' = Written(s, at, c),
             drawn' = [do |-> "write", text |-> s, at |-> at, ink |-> c]
      PROVE  Scr!Write
  <2>1. s \in Seq(Glyph) /\ at \in Nat \X Nat /\ ShortText(s, at)
    BY SizeAssumption, StringsAssumption DEF Glyph, ShortTexts
  <2> DEFINE region == TextUpTo(s, at, Len(s))
             p == PageOf(curPagePtr1)
  <2>2. p \in Pages /\ curPagePtr1 = PagePtrs[p]
    BY DrawnPage
  <2> HIDE DEF p
  <2>3. \A q \in Pages, xy \in PagePixels :
          PixelOf(mem', q, xy) = IF q = p /\ xy \in region THEN c ELSE PixelOf(mem, q, xy)
    BY <1>3, <2>1, <2>2, TextIsPainted
  <2>4. c # BLEND /\ c # PAGE0
    BY SizeAssumption DEF BLEND, PAGE0
  <2>5. region = Scr!Text(s, at[1], at[2])
    BY <2>1, TextPixels
  <2> HIDE DEF region
  <2>6. Painted(mem', p, region, c)
    BY <2>3, <2>4 DEF Painted, Ink2
  <2>7. Scr!Paint(p, region, c)
    BY <2>2, <2>6, PaintIsStep
  <2>8. drawn'.do = "write" /\ drawn'.text = s /\ drawn'.at = at /\ drawn'.ink = c
    BY <1>3
  <2>9. UNCHANGED Scr!turned
    BY <1>1, SameTurned
  <2> QED  BY <1>1, <2>5, <2>7, <2>8, <2>9 DEF Scr!Write, p
<1> QED  BY <1>2, <1>3 DEF DrawString

LEMMA ScreenStep ==
  ASSUME W <= 510, ShortTexts, VideoInv, VideoInv', [Next]_vars
  PROVE  [Scr!Next]_(Scr!vars)
<1>1. CASE ChangePagePtr1
  BY <1>1, SelectIsStep DEF Scr!Next
<1>2. CASE FillPage
  BY <1>2, FillIsStep DEF Scr!Next
<1>3. CASE CopyPage
  BY <1>3, CopyIsStep DEF Scr!Next
<1>4. CASE CopyPagePtr
  BY <1>4, PictureIsStep DEF Scr!Next
<1>5. CASE UpdateDisplay
  BY <1>5, ShowIsStep DEF Scr!Next
<1>6. CASE DrawString
  BY <1>6, StringIsStep DEF Scr!Next
<1>7. CASE StartPolygon
  BY <1>7, StartIsStep DEF Scr!Next
<1>8. CASE Row
  BY <1>8, RowIsStep DEF Scr!Next
<1>9. CASE SetPalette \/ DrawShape \/ OpenGroup \/ NextEdges \/ UNCHANGED vars
  <2>1. Unseen
    BY <1>9 DEF SetPalette, DrawShape, OpenGroup, NextEdges, vars, shapeVars, Unseen
  <2> QED  BY <2>1, UnseenIsStutter
<1> QED  BY <1>1, <1>2, <1>3, <1>4, <1>5, <1>6, <1>7, <1>8, <1>9 DEF Next, PageOps, FillPolygon

LEMMA ScreenInit == ASSUME Init  PROVE Scr!Init
<1>1. ASSUME NEW q \in Pages, NEW xy \in PagePixels  PROVE PixelOf(mem, q, xy) = 0
  <2> DEFINE a == PagePtrs[q] + Offset(xy)
             half == 1 + (xy[1] % 2)
  <2>1. PixelOf(mem, q, xy) = mem[a][half] /\ a \in Memory /\ half \in {1, 2}
    BY PixelIs, PixelPlace
  <2> HIDE DEF a, half
  <2>2. mem[a] = <<0, 0>>
    BY <2>1 DEF Init
  <2> QED  BY <2>1, <2>2
<1>2. Page = [p \in Pages |-> [xy \in PagePixels |-> 0]]
  BY <1>1, PageNow DEF Seen
<1>3. PageOf(curPagePtr1) = 2 /\ PageOf(curPagePtr2) = 2 /\ PageOf(curPagePtr3) = 1
  <2>1. 1 \in Pages /\ 2 \in Pages
    BY DEF Pages
  <2>2. PageOf(PagePtrs[1]) = 1 /\ PageOf(PagePtrs[2]) = 2
    BY <2>1, PageIs
  <2> QED  BY <2>2 DEF Init
<1>4. hliney = 0
  BY DEF Init
<1> QED  BY <1>2, <1>3, <1>4, ScreenPages DEF Scr!Init

\* Whatever is drawn, at any place and any zoom, the pixels become what the instruction
\* and its operands say: of the page that is named, or that is drawn to, those of the row
\* between its two edges, of the text at its place, of the page that is copied, scrolled by
\* as many rows, and of no other page; the three pages are turned as they should.  It is so
\* as long as a byte counts the bytes of a line (w of Line), and 16 bits the place of the
\* pen: a page of 320 columns and the texts of the game are far from either limit.
THEOREM DrawsOnScreen == ASSUME W <= 510, ShortTexts  PROVE Spec => ImplementsScreen
<1>1. Init => VideoInv
  BY InitInv
<1>2. VideoInv /\ [Next]_vars => VideoInv'
  BY StepInv
<1>3. Init => Scr!Init
  BY ScreenInit
<1>4. VideoInv /\ VideoInv' /\ [Next]_vars => [Scr!Next]_(Scr!vars)
  BY ScreenStep
<1> QED  BY <1>1, <1>2, <1>3, <1>4, PTL DEF Spec, ImplementsScreen, Scr!Spec
=============================================================================
